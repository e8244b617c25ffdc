-------------------------------- MODULE OAuth2 --------------------------------
(***************************************************************************)
(* The OAuth2 server (src/src/oauth2.rs): three maps, each behind a lock   *)
(* of its own, and endpoint handlers that take the locks one after the     *)
(* other while other handlers run and time passes.                         *)
(*                                                                         *)
(* A UUID is named by the call that drew it: a registered client, a code   *)
(* and a token are the calls that made them, a client's secret is the      *)
(* client.  A redirect URI has a target and the form it was sent in.  What *)
(* the gateways pass on of a query is as it was sent                       *)
(* (src/src/gateway/stateful_http.rs:1361), what a form body holds is      *)
(* decoded.  A call whose parameters are missing or malformed changes      *)
(* nothing and is left out.                                                *)
(***************************************************************************)
EXTENDS Integers, FiniteSets, Functions

CONSTANTS
  Calls,       \* HTTP requests, each handled by a thread
  Loads,       \* what may be asked: a request for each call
  Configured,  \* the client of the command line
  Absent,      \* a parameter that is not sent
  CodeTtl, TokenTtl,  \* lifetimes of a code (600 s) and of a token
  MaxTime      \* bound on time

ASSUME LoadsAreOfCalls == \A load \in Loads : DOMAIN load = Calls
ASSUME TtlsAreNat == {CodeTtl, TokenTtl, MaxTime} \subseteq Nat
ASSUME NamesDiffer == Configured \notin Calls /\ Absent \notin Calls \cup {Configured}

\* A token or a code that was made up is that of a call that is given none.
ASSUME LoadsAreFormed ==
  \A load \in Loads : \A h \in Calls :
    /\ load[h].kind = "bearer" => load[h].token \in Calls
    /\ load[h].kind = "redeem" =>
         /\ load[h].code \in Calls
         /\ \/ load[h].uri = Absent
            \/ load[h].uri \in [to : {load[h].uri.to}, form : {"plain", "encoded"}]

VARIABLES
  now,      \* Instant::now()
  ask,      \* what each call asks for
  step,     \* where its handler is
  clients,  \* registered_clients
  codes,    \* auth_codes
  tokens,   \* tokens: when each expires
  held,     \* the code each call took out of the map, if any
  answer    \* what the call was answered, and when

ovars == <<now, ask, step, clients, codes, tokens, held, answer>>

NoAnswer == [status |-> "none", at |-> 0]

OInit ==
  /\ now = 0
  /\ ask \in Loads
  /\ step = [h \in Calls |-> "new"]
  /\ clients = {}
  /\ codes = <<>>
  /\ tokens = <<>>
  /\ held = [h \in Calls |-> {}]
  /\ answer = [h \in Calls |-> NoAnswer]

Goto(h, from, to) ==
  /\ step[h] = from
  /\ step' = [step EXCEPT ![h] = to]

\* The handler returns a response.
Answer(h, status) == answer' = [answer EXCEPT ![h] = [status |-> status, at |-> now]]

At(h, kind, where) == ask[h].kind = kind /\ step[h] = where

\* retain(): what is left of a map once the expired entries are gone.
Alive_Expired(map) == {k \in DOMAIN map : now >= map[k].expires}
Alive(map) == {k \in DOMAIN map : now < map[k].expires}
Insert(map, h, entry) ==
  [k \in {h} \cup Alive(map) |-> IF k = h THEN entry ELSE map[k]]

\* parse_form_urlencoded() decodes, the gateways' query parsers do not.
FromQuery(uri) == uri
FromBody(uri) == [uri EXCEPT !.form = "plain"]

-----------------------------------------------------------------------------
\* handle_register()
Register(h) ==
  /\ At(h, "register", "new")
  /\ Goto(h, "new", "done")
  /\ clients' = clients \cup {h}
  /\ Answer(h, "client")
  /\ UNCHANGED <<now, ask, codes, tokens, held>>

-----------------------------------------------------------------------------
(* handle_authorize()                                                      *)

Known(client) == client = Configured \/ client \in clients

CheckClient(h) ==
  /\ At(h, "authorize", "new")
  /\ \/ /\ Known(ask[h].client)
        /\ Goto(h, "new", "store")
        /\ UNCHANGED answer
     \/ /\ ~Known(ask[h].client)
        /\ Goto(h, "new", "done")
        /\ Answer(h, "refused")
  /\ UNCHANGED <<now, ask, clients, codes, tokens, held>>

StoreCode(h) ==
  /\ Goto(h, "store", "done")
  /\ codes' = Insert(codes, h, [client |-> ask[h].client, uri |-> FromQuery(ask[h].uri),
                                challenge |-> ask[h].challenge,
                                expires |-> now + CodeTtl])
  /\ Answer(h, "code")
  /\ UNCHANGED <<now, ask, clients, tokens, held>>

-----------------------------------------------------------------------------
(* handle_token()                                                          *)

\* verify_client()
Verified(client, secret) == Known(client) /\ secret = client

VerifyClient(h) ==
  /\ \E next \in {<<"credentials", "issue">>, <<"redeem", "take">>} :
       /\ At(h, next[1], "new")
       /\ \/ /\ Verified(ask[h].client, ask[h].secret)
             /\ Goto(h, "new", next[2])
             /\ UNCHANGED answer
          \/ /\ ~Verified(ask[h].client, ask[h].secret)
             /\ Goto(h, "new", "done")
             /\ Answer(h, "refused")
  /\ UNCHANGED <<now, ask, clients, codes, tokens, held>>

CodesAfterTake_Kept(code) == codes
CodesAfterTake(code) == Restrict(codes, DOMAIN codes \ {code})

\* The lookup removes, under one write lock.
TakeCode(h) ==
  /\ step[h] = "take"
  /\ \/ /\ ask[h].code \in DOMAIN codes
        /\ Goto(h, "take", "check")
        /\ held' = [held EXCEPT ![h] = {codes[ask[h].code]}]
        /\ codes' = CodesAfterTake(ask[h].code)
        /\ UNCHANGED answer
     \/ /\ ask[h].code \notin DOMAIN codes
        /\ Goto(h, "take", "done")
        /\ Answer(h, "refused")
        /\ UNCHANGED <<held, codes>>
  /\ UNCHANGED <<now, ask, clients, tokens>>

\* The code is the caller's, in time, for the same URI if it sends one, and
\* the verifier is the challenge's if there is one.
Redeems_AnyClient(h, code) ==
  /\ now <= code.expires
  /\ ask[h].uri # Absent => FromBody(ask[h].uri) = code.uri
  /\ code.challenge # Absent => ask[h].verifier = code.challenge
Redeems(h, code) ==
  /\ now <= code.expires
  /\ code.client = ask[h].client
  /\ ask[h].uri # Absent => FromBody(ask[h].uri) = code.uri
  /\ code.challenge # Absent => ask[h].verifier = code.challenge

CheckCode(h) ==
  /\ step[h] = "check"
  /\ \/ /\ \E code \in held[h] : Redeems(h, code)
        /\ Goto(h, "check", "issue")
        /\ UNCHANGED answer
     \/ /\ \E code \in held[h] : ~Redeems(h, code)
        /\ Goto(h, "check", "done")
        /\ Answer(h, "refused")
  /\ UNCHANGED <<now, ask, clients, codes, tokens, held>>

\* issue_token()
IssueToken(h) ==
  /\ Goto(h, "issue", "done")
  /\ tokens' = Insert(tokens, h, [expires |-> now + TokenTtl])
  /\ Answer(h, "token")
  /\ UNCHANGED <<now, ask, clients, codes, held>>

-----------------------------------------------------------------------------
\* process() for any other path: validate_bearer().
Bearer(h) ==
  /\ At(h, "bearer", "new")
  /\ Goto(h, "new", "done")
  /\ Answer(h, IF ask[h].token \in Alive(tokens) THEN "admitted" ELSE "unauthorized")
  /\ UNCHANGED <<now, ask, clients, codes, tokens, held>>

Tick ==
  /\ now < MaxTime
  /\ now' = now + 1
  /\ UNCHANGED <<ask, step, clients, codes, tokens, held, answer>>

ONext ==
  \/ \E h \in Calls :
       \/ Register(h) \/ CheckClient(h) \/ StoreCode(h)
       \/ VerifyClient(h) \/ TakeCode(h) \/ CheckCode(h) \/ IssueToken(h)
       \/ Bearer(h)
  \/ Tick

OSpec == OInit /\ [][ONext]_ovars

-----------------------------------------------------------------------------
(* Properties                                                              *)

Answered(h, status) == answer[h].status = status
Redemptions(code) == {h \in Calls : held[h] # {} /\ ask[h].code = code}

\* However calls to /token overlap, a code is redeemed once: a second call
\* with it, even while the first is between the lock of the codes and the
\* lock of the tokens, gets none, and a failed attempt used it up.
CodeBuysOneToken == \A code \in Calls : Cardinality(Redemptions(code)) <= 1

\* What a token goes back to: a client that proved its secret, and if it came
\* by a code, the same client's authorization and the challenge it set.
Entitled(t) ==
  /\ Verified(ask[t].client, ask[t].secret)
  /\ ask[t].kind = "redeem" =>
       LET code == ask[t].code IN
         /\ Answered(code, "code")
         /\ ask[code].client = ask[t].client
         /\ ask[code].challenge \in {Absent, ask[t].verifier}

Earned(t) ==
  /\ Answered(t, "token") /\ Entitled(t)
  /\ ask[t].kind = "redeem" => answer[ask[t].code].at <= answer[t].at

\* A request gets past the server exactly while its token lives: the lazy
\* cleanups of other calls never drop a token early, and none is honoured
\* that was not earned.
AdmissionIsExact ==
  \A m \in Calls : ask[m].kind = "bearer" =>
    LET t == ask[m].token IN
      /\ Answered(m, "admitted") =>
           Earned(t) /\ answer[m].at < answer[t].at + TokenTtl
      /\ Answered(m, "unauthorized") =>
           \/ ~Answered(t, "token")
           \/ answer[m].at <= answer[t].at
           \/ answer[m].at >= answer[t].at + TokenTtl

\* A redemption by the right client with the right secret, verifier and URI.
Matches(h) ==
  LET code == ask[ask[h].code] IN
    /\ code.kind = "authorize"
    /\ ask[h].client = code.client /\ ask[h].secret = code.client
    /\ ask[h].uri \in {code.uri, Absent}
    /\ code.challenge \in {Absent, ask[h].verifier}

Honest(h) == Matches(h) /\ Known(ask[h].client)

\* Why an honest redemption may be refused.
LateOrTaken(h) ==
  LET code == ask[h].code IN
    \/ ~Answered(code, "code")
    \/ answer[h].at <= answer[code].at
    \/ answer[h].at >= answer[code].at + CodeTtl
    \/ Redemptions(code) \ {h} # {}
    \/ ask[h].uri # Absent /\ ask[h].uri.form = "encoded"

\* An honest redemption of a code it was given, within the code's life, that
\* no other call took, is served: cleanups and failed attempts with other
\* codes cost it nothing.  One thing alone refuses it: a URI that was sent
\* percent-encoded, which is compared decoded with what was stored undecoded.
HonestIsServed ==
  \A h \in Calls :
    ask[h].kind = "redeem" /\ Answered(h, "refused") /\ Honest(h) => LateOrTaken(h)

-----------------------------------------------------------------------------
(* The inductive invariant behind them                                     *)

OTypeOK ==
  /\ now \in Nat
  /\ ask \in Loads
  /\ step \in [Calls -> {"new", "store", "issue", "take", "check", "done"}]
  /\ clients \subseteq Calls
  /\ DOMAIN codes \subseteq Calls /\ DOMAIN tokens \subseteq Calls
  /\ DOMAIN held = Calls
  /\ answer \in [Calls -> [status : {"none", "client", "code", "token", "refused",
                                     "admitted", "unauthorized"}, at : 0..now]]

\* A handler answers last, and takes a code between two steps of its own.
StepsFit ==
  \A h \in Calls :
    /\ step[h] # "done" => answer[h] = NoAnswer
    /\ step[h] \in {"new", "store", "take"} => held[h] = {}
    /\ step[h] = "check" => held[h] # {}
    /\ step[h] = "store" => ask[h].kind = "authorize" /\ Known(ask[h].client)
    /\ step[h] \in {"take", "check"} =>
         ask[h].kind = "redeem" /\ Verified(ask[h].client, ask[h].secret)
    /\ step[h] = "issue" => Entitled(h)

\* What is stored with a code, from when it was given.
CodeOf(c) == [client |-> ask[c].client, uri |-> FromQuery(ask[c].uri),
              challenge |-> ask[c].challenge, expires |-> answer[c].at + CodeTtl]

\* A code that was given is in the map until it is taken or has expired, and
\* who has taken it has what was stored.
CodesExact ==
  /\ \A c \in DOMAIN codes :
       Answered(c, "code") /\ codes[c] = CodeOf(c) /\ Redemptions(c) = {}
  /\ \A c \in Calls : Answered(c, "code") =>
       /\ Known(ask[c].client)
       /\ c \in DOMAIN codes \/ Redemptions(c) # {} \/ now >= answer[c].at + CodeTtl
  /\ \A h \in Calls : held[h] # {} =>
       /\ ask[h].kind = "redeem" /\ Answered(ask[h].code, "code")
       /\ held[h] = {CodeOf(ask[h].code)}
  /\ \A c \in Calls : \A g, h \in Redemptions(c) : g = h

\* A token that was given was earned, and is in the map until it expires.
TokensExact ==
  /\ \A t \in DOMAIN tokens :
       Answered(t, "token") /\ tokens[t] = [expires |-> answer[t].at + TokenTtl]
  /\ \A t \in Calls : Answered(t, "token") =>
       Earned(t) /\ (t \in DOMAIN tokens \/ now >= answer[t].at + TokenTtl)

\* HonestIsServed, whether the client is registered by now or not.
RefusalsExact ==
  \A h \in Calls :
    ask[h].kind = "redeem" /\ Answered(h, "refused") /\ Matches(h) => LateOrTaken(h)

OIInv ==
  /\ OTypeOK /\ StepsFit /\ CodesExact /\ TokensExact
  /\ AdmissionIsExact /\ RefusalsExact
=============================================================================
