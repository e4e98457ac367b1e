------------------------------- MODULE EmulatorFront -------------------------------
(***************************************************************************)
(* How the emulator takes a request: the routes of                         *)
(* e2e-tests/src/emulator/server.ts, in their order, and the signature     *)
(* check in front of the gateway's own commands.  What the handlers do is  *)
(* the business of Gateway; here a reply is its status, who gave it, and   *)
(* the origin it may be read from.                                         *)
(***************************************************************************)
EXTENDS OAuth

Origin == "http://127.0.0.1:4010"
ENDPOINT_ID == "1234567"

(* A path is the sequence of its segments. *)
UrlOf(path) == <<Origin>> \o FlattenSeq([i \in DOMAIN path |-> <<"/", path[i]>>])
Tokenizer == <<"api", "v4", "tokenize", "hosted-fields">>
CommandPath(command) == <<"api", "v4">> \o command \o <<ENDPOINT_ID>>

Request(method, path, from) ==
  [method |-> method, path |-> path, from |-> from, body |-> <<>>, authorization |-> <<>>]
Reply(status, by) == [status |-> status, by |-> by, readableFrom |-> <<>>]

STATIC_FILES ==
  [path \in {<<"sdk.js">>, <<"hf", "field.js">>, <<"hf", "field.css">>} |->
     IF path = <<"sdk.js">> THEN "hosted-fields.js" ELSE Last(path)]

(* gateway.ts: /api/v4/<command>/<endpointId>, when the id is ours. *)
gatewayCommand(path) ==
  IF Len(path) > 3 /\ path[1] = "api" /\ path[2] = "v4" /\ path[Len(path)] = ENDPOINT_ID
  THEN SubSeq(path, 3, Len(path) - 1) ELSE <<>>

Commands == {<<"tokenize", "create-ephemeral-ticket">>, <<"sale">>, <<"status">>}

allowCrossOrigin(reply, origin) == [reply EXCEPT !.readableFrom = origin]

(* The commands are signed.  A refusal is plain text, which a server takes *)
(* for a failed call and not for a decline.                                *)
signedCommand(r, pem) ==
  LET command == gatewayCommand(r.path)
      refusal == verifyOAuth(r.method, UrlOf(r.path), formParams(r.body), r.authorization, pem)
  IN  IF refusal = "throws" THEN Reply(500, "emulator error")
      ELSE IF refusal # "" THEN Reply(401, "invalid signature")
      ELSE IF command \in Commands THEN Reply(200, Last(command))
      ELSE Reply(404, "no route")

route(r, pem) ==
  IF r.method = "GET" /\ r.path \in DOMAIN STATIC_FILES THEN Reply(200, STATIC_FILES[r.path])
  ELSE IF r.method = "GET" /\ Head(r.path) = "hf" THEN Reply(200, "field.html")
  ELSE IF r.method = "GET" /\ r.path = <<"acs">> THEN Reply(200, "challenge page")
  ELSE IF r.path = Tokenizer /\ r.method = "OPTIONS"
    THEN allowCrossOrigin(Reply(204, "preflight"), r.from)
  ELSE IF r.path = Tokenizer /\ r.method = "POST"
    THEN allowCrossOrigin(Reply(200, "tokenize"), r.from)
  ELSE IF r.method = "POST" /\ r.path = <<"__control", "scenario">> THEN Reply(200, "scenario")
  ELSE IF r.method = "POST" /\ r.path = <<"__control", "reset">> THEN Reply(200, "reset")
  ELSE IF r.method = "GET" /\ r.path = <<"__control", "health">> THEN Reply(200, "health")
  ELSE IF r.method = "POST" /\ gatewayCommand(r.path) # <<>> THEN signedCommand(r, pem)
  ELSE Reply(404, "no route")
=================================================================================
