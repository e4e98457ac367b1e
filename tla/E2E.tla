------------------------------------ MODULE E2E ------------------------------------
(***************************************************************************)
(* The end-to-end suite as a developer lives with it: one machine on which *)
(* runs come and go, an emulator may be started by hand, the generated     *)
(* keys are deleted, and a run is killed and leaves its servers behind.    *)
(*                                                                         *)
(* A run evaluates its config, which ensures the key pair and decides what *)
(* to start; Playwright starts the emulator and the servers one by one, or *)
(* the docker stack; globalSetup asks each of them once; the specs then    *)
(* call the emulator, themselves, from the browser, or through the server  *)
(* under test.  A request and its answer are two steps.  What a spec       *)
(* expects of a page is the business of CheckoutPage and Payment: here a   *)
(* test is the calls its payment makes, in their order.                    *)
(***************************************************************************)
EXTENDS EmulatorFront, Harness

CONSTANTS Order,         \* the applications of this instance, in the order of APPS
          CommandLines,  \* what a run may be started with
          Machines,      \* [tools, dotEnv, CI]: what is installed, a BASE_PATH in the .env files, $CI
          Payments,      \* the parameters of a sale
          KeyNames,      \* the pairs that may be generated, in order
          MaxRuns, MaxKills, MaxRemovals

Known == ToSet(Order)
(* Servers are started, and projects run, in the order of APPS. *)
FirstOfApps(apps) == IF apps = {} THEN "none" ELSE Order[SelectInSeq(Order, LAMBDA a: a \in apps)]

ASSUME E2EAssumption ==
  /\ Order \in Seq(STRING) /\ Known \subseteq DOMAIN APPS
  /\ CommandLines \subseteq Seq(Seq(STRING))
  /\ "client_orderid" \in ToSet(NameOrder)
  /\ \A p \in Payments: /\ p \in [DOMAIN p -> Seq(STRING)]
                       /\ DOMAIN p \subseteq ToSet(NameOrder) \ DOMAIN OAuthParams("nonce")
                       /\ "oauth_signature" \notin DOMAIN p
  /\ KeyNames \in Seq(STRING) /\ NoKey \notin ToSet(KeyNames)
  /\ {MaxRuns, MaxKills, MaxRemovals} \subseteq Nat

KeyFiles == {NoKey} \cup ToSet(KeyNames)   \* what may be read of one
Targets == {"native", "docker"}
Makers == {"config", "emulator"}

VARIABLES privateKey, publicKey,   \* .tmp/private_key.pem and .tmp/public_key.pem
          minted,                  \* how many pairs were generated so far
          maker,                   \* who is inside ensureKeypair(), and where
          emulator, server,        \* the processes
          run,                     \* the last run of the suite
          wire,                    \* the request on its way to the emulator
          machine, kills, removals,
          upset                    \* what the developer did to a run, for the properties

keyVars == <<privateKey, publicKey, minted, maker>>
devVars == <<machine, kills, removals, upset>>
vars == <<keyVars, emulator, server, run, wire, devVars>>

Down == [at |-> "down", target |-> "native", of |-> 0, lost |-> FALSE]
NotUp == [up |-> FALSE, key |-> NoKey, path |-> "none", of |-> 0]
NoRequest == [sent |-> FALSE]
Ended == {"idle", "killed", "passed", "failed"}

E2EInit ==
  /\ privateKey = NoKey /\ publicKey = NoKey /\ minted = 0
  /\ maker = [m \in Makers |-> [at |-> "out", key |-> NoKey]]
  /\ emulator = Down
  /\ server = [p \in Targets \X Known |-> NotUp]
  /\ run = [number |-> 0, stage |-> "idle", argv |-> <<>>, target |-> "native", started |-> {}, ready |-> {},
            app |-> "none", step |-> 0, tested |-> {}, failing |-> {}, paid |-> {}]
  /\ wire = NoRequest
  /\ machine \in Machines /\ kills = 0 /\ removals = 0 /\ upset = {}

-----------------------------------------------------------------------------
(* keys.ts: ensureKeypair(), file by file. *)

Ensure(m) == maker' = [maker EXCEPT ![m].at = "check"]
Writing(m) == maker[m].at \in {"private", "public"}

(* Two that write at once, or files that go while one writes. *)
Raced == IF \E m \in Makers: Writing(m) THEN {"raced"} ELSE {}

CheckEither(m) ==   \* a bug: one file is taken for the pair
  /\ maker[m].at = "check"
  /\ IF privateKey # NoKey \/ publicKey # NoKey
     THEN /\ maker' = [maker EXCEPT ![m].at = "have"]
          /\ UNCHANGED <<minted, upset>>
     ELSE /\ minted < Len(KeyNames)
          /\ minted' = minted + 1
          /\ upset' = upset \cup Raced
          /\ maker' = [maker EXCEPT ![m] = [at |-> "private", key |-> KeyNames[minted + 1]]]
  /\ UNCHANGED <<privateKey, publicKey, emulator, server, run, wire, machine, kills, removals>>

Check(m) ==
  /\ maker[m].at = "check"
  /\ IF privateKey # NoKey /\ publicKey # NoKey
     THEN /\ maker' = [maker EXCEPT ![m].at = "have"]
          /\ UNCHANGED <<minted, upset>>
     ELSE /\ minted < Len(KeyNames)
          /\ minted' = minted + 1
          /\ upset' = upset \cup Raced
          /\ maker' = [maker EXCEPT ![m] = [at |-> "private", key |-> KeyNames[minted + 1]]]
  /\ UNCHANGED <<privateKey, publicKey, emulator, server, run, wire, machine, kills, removals>>

WritePrivateIfMissing(m) ==   \* a bug: a file that is there is kept
  /\ maker[m].at = "private"
  /\ privateKey' = IF privateKey = NoKey THEN maker[m].key ELSE privateKey
  /\ maker' = [maker EXCEPT ![m].at = "public"]
  /\ UNCHANGED <<publicKey, minted, emulator, server, run, wire, devVars>>

WritePrivate(m) ==
  /\ maker[m].at = "private"
  /\ privateKey' = maker[m].key
  /\ maker' = [maker EXCEPT ![m].at = "public"]
  /\ UNCHANGED <<publicKey, minted, emulator, server, run, wire, devVars>>

WritePublic(m) ==
  /\ maker[m].at = "public"
  /\ publicKey' = maker[m].key
  /\ maker' = [maker EXCEPT ![m] = [at |-> "have", key |-> NoKey]]
  /\ UNCHANGED <<privateKey, minted, emulator, server, run, wire, devVars>>

-----------------------------------------------------------------------------
(* The run: config, servers, globalSetup. *)

EndRun(result) ==
  /\ run' = [run EXCEPT !.stage = result]
  /\ emulator' = IF emulator.of = run.number THEN Down ELSE emulator
  /\ server' = [p \in DOMAIN server |-> IF server[p].of = run.number THEN NotUp ELSE server[p]]

StartRun(argv, target) ==
  /\ run.stage \in Ended /\ run.number < MaxRuns /\ maker["config"].at = "out"
  /\ run' = [number |-> run.number + 1, stage |-> "config", argv |-> argv, target |-> target,
             started |-> {}, ready |-> {}, app |-> "none", step |-> 0, tested |-> {}, failing |-> {}, paid |-> {}]
  /\ Ensure("config")
  /\ UNCHANGED <<privateKey, publicKey, minted, emulator, server, wire, devVars>>

(* Playwright refuses the name of a project that the config does not list. *)
Configured ==
  /\ run.stage = "config" /\ maker["config"].at = "have"
  /\ maker' = [maker EXCEPT !["config"].at = "out"]
  /\ run' = IF ProjectsNamed(run.argv) \subseteq projects(run.argv, run.target, Known)
            THEN [run EXCEPT !.stage = "emulator",
                             !.started = startedApps(run.argv, run.target, Known)]
            ELSE [run EXCEPT !.stage = "failed"]
  /\ UNCHANGED <<privateKey, publicKey, minted, emulator, server, wire, devVars>>

reuseExistingServer == ~machine.CI

StartEmulatorWhenFree ==   \* a bug: waits for the port instead of giving up
  /\ run.stage = "emulator" /\ run.target = "native"
  /\ \/ /\ emulator.at = "down"
        /\ emulator' = [Down EXCEPT !.at = "preparing", !.of = run.number]
        /\ Ensure("emulator")
        /\ UNCHANGED run
     \/ /\ emulator.at = "up" /\ (emulator.of = run.number \/ reuseExistingServer)
        /\ run' = [run EXCEPT !.stage = "servers"]
        /\ UNCHANGED <<emulator, maker>>
  /\ UNCHANGED <<privateKey, publicKey, minted, server, wire, devVars>>

(* One that was started by hand is up by the time a run looks for it. *)
StartEmulator ==
  /\ run.stage = "emulator" /\ run.target = "native"
  /\ \/ /\ emulator.at = "down"
        /\ emulator' = [Down EXCEPT !.at = "preparing", !.of = run.number]
        /\ Ensure("emulator")
        /\ UNCHANGED <<run, server>>
     \/ /\ emulator.at = "up"
        /\ IF emulator.of = run.number \/ reuseExistingServer
           THEN run' = [run EXCEPT !.stage = "servers"] /\ UNCHANGED <<emulator, server>>
           ELSE EndRun("failed")
        /\ UNCHANGED maker
  /\ UNCHANGED <<privateKey, publicKey, minted, wire, devVars>>

EmulatorListens ==
  /\ emulator.at = "preparing" /\ maker["emulator"].at = "have"
  /\ emulator' = [emulator EXCEPT !.at = "up"]
  /\ maker' = [maker EXCEPT !["emulator"].at = "out"]
  /\ UNCHANGED <<privateKey, publicKey, minted, server, run, wire, devVars>>

Serving(a, target) ==
  server[target, a].up /\ server[target, a].path = appUrl(a, target)[2]

Launched(a, target) ==
  [up |-> TRUE, key |-> privateKey, of |-> run.number,
   path |-> BasePathOf(APPS[a], target = "native" /\ machine.dotEnv)]

(* One that cannot be run, finds no key, or does not answer where it is    *)
(* waited for ends the run.                                                *)
CannotServe(a) ==
  \/ server[<<"native", a>>].up
  \/ ~Startable(APPS[a], machine.tools)
  \/ privateKey = NoKey
  \/ Launched(a, "native").path # APPS[a].basePath

StartServer(a) ==
  /\ run.stage = "servers" /\ a = FirstOfApps(run.started \ run.ready)
  /\ IF Serving(a, "native") /\ reuseExistingServer
     THEN /\ run' = [run EXCEPT !.ready = @ \cup {a}]
          /\ UNCHANGED <<server, emulator>>
     ELSE IF CannotServe(a) THEN EndRun("failed")
     ELSE /\ run' = [run EXCEPT !.ready = @ \cup {a}]
          /\ server' = [server EXCEPT ![<<"native", a>>] = Launched(a, "native")]
          /\ UNCHANGED emulator
  /\ UNCHANGED <<keyVars, wire, devVars>>

AllStarted ==
  /\ run.stage = "servers" /\ run.started \subseteq run.ready
  /\ run' = [run EXCEPT !.stage = "probe"]
  /\ UNCHANGED <<keyVars, emulator, server, wire, devVars>>

(* compose.ts: the emulator and the services asked for.  The ports must be *)
(* free, and .tmp is mounted read-only: no container can write a key.      *)
composeUp ==
  /\ run.stage = "emulator" /\ run.target = "docker" /\ emulator.at # "preparing"
  /\ IF emulator.at = "up" \/ NoKey \in {privateKey, publicKey} THEN EndRun("failed")
     ELSE /\ emulator' = [at |-> "up", target |-> "docker", of |-> run.number, lost |-> FALSE]
          /\ server' = [p \in DOMAIN server |->
                          IF p[1] = "docker" /\ p[2] \in run.started
                          THEN Launched(p[2], "docker") ELSE server[p]]
          /\ run' = [run EXCEPT !.stage = "probe"]
  /\ UNCHANGED <<keyVars, wire, devVars>>

(* Docker is waited for; natively everything was up, or the run is over.   *)
globalSetup ==
  /\ run.stage = "probe"
  /\ IF emulator.at = "up" /\ \A a \in run.started: Serving(a, run.target)
     THEN run' = [run EXCEPT !.stage = "tests"] /\ UNCHANGED <<emulator, server>>
     ELSE EndRun("failed")
  /\ UNCHANGED <<keyVars, wire, devVars>>

-----------------------------------------------------------------------------
(* The specs: one application after the other, one call after the other.   *)

Script ==
  <<"scenario", "ticket", "sdk.js", "field.html", "field.js", "field.css",
    "preflight", "tokenize", "sale", "status", "acs">>
Signed == {"ticket", "sale", "status"}

Wanted(r) ==
  LET named == ProjectsNamed(r.argv)
  IN  IF named = {} THEN projects(r.argv, r.target, Known) ELSE named

PickTest(a) ==
  /\ run.stage = "tests" /\ run.app = "none" /\ a = FirstOfApps(Wanted(run) \ run.tested)
  /\ run' = [run EXCEPT !.app = a, !.step = 1]
  /\ UNCHANGED <<keyVars, emulator, server, wire, devVars>>

TestOver(r, failed) ==
  run' = [r EXCEPT !.app = "none", !.step = 0, !.tested = @ \cup {r.app},
                   !.failing = IF failed THEN @ \cup {r.app} ELSE @]

Signer(a, url, params, key) ==
  CASE a = "nodejs-express-js" -> buildAuthHeader("POST", url, params, key, "nonce")
    [] a = "nodejs-express-ts-js" -> tsBuildAuthHeader("POST", url, params, key, "nonce")
    [] a = "nextjs" -> nextAuthHeader("POST", url, params, key, "nonce")
    [] a \in {"go-js", "go-react"} -> goAuthHeader("POST", url, params, key, "nonce")
    [] a = "php-js" -> oauth_auth_header("POST", url, params, key, "nonce")
    [] a = "python-flask-js" -> build_auth_header("POST", url, params, key, "nonce")
    [] a = "ruby-sinatra-js" -> auth_header("POST", url, params, key, "nonce")
    [] a = "java-springboot-js" -> javaAuthHeader("POST", url, params, key, "nonce")
    [] a = "kotlin-ktor-js" -> kotlinAuthHeader("POST", url, params, key, "nonce")
    [] a = "rust-axum-js" -> rustAuthHeader("POST", url, params, key, "nonce")
    [] OTHER -> dotnetHeader("POST", url, params, key, "nonce")

CommandOf(step) == IF step = "ticket" THEN <<"tokenize", "create-ephemeral-ticket">> ELSE <<step>>

SignedCall(a, step, params, key) ==
  LET path == CommandPath(CommandOf(step))
  IN  [Request("POST", path, <<"server">>) EXCEPT
         !.body = FormBody(params), !.authorization = Signer(a, UrlOf(path), params, key)]

OwnCall(step, from) ==
  CASE step = "scenario" -> Request("POST", <<"__control", "scenario">>, <<"spec">>)
    [] step = "sdk.js" -> Request("GET", <<"sdk.js">>, from)
    [] step = "field.html" -> Request("GET", <<"hf", "cardNumber">>, from)
    [] step \in {"field.js", "field.css"} -> Request("GET", <<"hf", step>>, from)
    [] step = "preflight" -> Request("OPTIONS", Tokenizer, from)
    [] step = "tokenize" -> Request("POST", Tokenizer, from)
    [] OTHER -> Request("GET", <<"acs">>, from)

(* php-js reads the key for every request, from a file that in a container *)
(* is still the one it was started with.                                   *)
KeyOf(a) == IF a = "php-js" /\ run.target = "native" THEN privateKey ELSE server[run.target, a].key

ParamsOf(step) == IF step = "sale" THEN Payments ELSE {[client_orderid |-> <<"c">>]}
AllParams == UNION {ParamsOf(step): step \in Signed}

(* Every signed call, and what the emulator says of it with any key: two   *)
(* tables.  That a table is compared with itself has TLC work it out once. *)
Tabulated(f) == CHOOSE table \in {f}: table = f

Calls ==
  Tabulated([call \in Known \X Signed \X AllParams \X ToSet(KeyNames) |->
               SignedCall(call[1], call[2], call[3], call[4])])
Verdicts ==
  Tabulated([call \in DOMAIN Calls |-> [verifier \in KeyFiles |-> route(Calls[call], verifier)]])

Ask ==
  /\ run.stage = "tests" /\ run.app # "none" /\ ~wire.sent
  /\ IF Script[run.step] \notin Signed
     THEN /\ wire' = [sent |-> TRUE, signed |-> FALSE]
          /\ UNCHANGED run
     ELSE IF Serving(run.app, run.target) /\ KeyOf(run.app) # NoKey
     THEN /\ \E params \in ParamsOf(Script[run.step]):
               wire' = [sent |-> TRUE, signed |-> TRUE, params |-> params, key |-> KeyOf(run.app)]
          /\ UNCHANGED run
     ELSE TestOver(run, TRUE) /\ UNCHANGED wire
  /\ UNCHANGED <<keyVars, emulator, server, devVars>>

(* The public key is read when the answer is made.  A container that lost  *)
(* the directory it has mounted reads nothing.                             *)
VerifierKey == IF emulator.lost THEN NoKey ELSE publicKey

UsableOnceAnswered(reply, step, from) ==   \* a bug: a refusal is an answer, too
  IF step \in Signed THEN reply.status # 0 ELSE reply.status \in {200, 204}

Usable(reply, step, from) ==
  CASE step \in {"preflight", "tokenize"} ->
         reply.status \in {200, 204} /\ reply.by = step /\ reply.readableFrom = from
    [] step = "sdk.js" -> reply.by = "hosted-fields.js"
    [] step = "acs" -> reply.by = "challenge page"
    [] step \in Signed -> reply.status = 200 /\ reply.by = Last(CommandOf(step))
    [] OTHER -> reply.status = 200 /\ reply.by = step

ReplyToWire ==
  LET step == Script[run.step]
  IN  IF emulator.at # "up" THEN Reply(0, "nobody")
      ELSE IF wire.signed THEN Verdicts[run.app, step, wire.params, wire.key][VerifierKey]
      ELSE route(OwnCall(step, appOrigin(run.app, run.target)), VerifierKey)

Answer ==
  /\ wire.sent
  /\ wire' = NoRequest
  /\ LET reply == ReplyToWire
         counted == [run EXCEPT !.paid = IF reply.by = "sale" THEN @ \cup {run.app} ELSE @]
     IN  IF ~Usable(reply, Script[run.step], appOrigin(run.app, run.target))
         THEN TestOver(run, TRUE)
         ELSE IF run.step = Len(Script) THEN TestOver(counted, FALSE)
         ELSE run' = [counted EXCEPT !.step = @ + 1]
  /\ UNCHANGED <<keyVars, emulator, server, devVars>>

Finish ==
  /\ run.stage = "tests" /\ run.app = "none" /\ Wanted(run) \subseteq run.tested
  /\ EndRun(IF run.failing = {} THEN "passed" ELSE "failed")
  /\ UNCHANGED <<keyVars, wire, devVars>>

-----------------------------------------------------------------------------
(* The developer.                                                          *)

(* npm run emulator *)
EmulatorByHand ==
  /\ emulator.at = "down" /\ maker["emulator"].at = "out" /\ run.stage # "emulator"
  /\ "by hand" \notin upset
  /\ emulator' = [Down EXCEPT !.at = "preparing"]
  /\ Ensure("emulator")
  /\ upset' = upset \cup {"by hand"}
  /\ UNCHANGED <<privateKey, publicKey, minted, server, run, wire, machine, kills, removals>>

(* SIGKILL: what the run started stays, and so does half a pair. *)
Kill ==
  /\ run.stage \notin Ended /\ kills < MaxKills
  /\ kills' = kills + 1
  /\ run' = [run EXCEPT !.stage = "killed"]
  /\ maker' = [maker EXCEPT !["config"] = [at |-> "out", key |-> NoKey]]
  /\ wire' = NoRequest
  /\ UNCHANGED <<privateKey, publicKey, minted, emulator, server, machine, removals, upset>>

(* Whatever is still up is stopped, by hand or with COMPOSE_DOWN. *)
StopLeftovers ==
  /\ run.stage \in Ended /\ emulator.at # "preparing"
  /\ emulator' = Down
  /\ server' = [p \in DOMAIN server |-> NotUp]
  /\ UNCHANGED <<keyVars, run, wire, devVars>>

(* rm -rf .tmp *)
RemoveTmp ==
  /\ removals < MaxRemovals
  /\ removals' = removals + 1
  /\ privateKey' = NoKey /\ publicKey' = NoKey
  /\ emulator' = [emulator EXCEPT !.lost = emulator.target = "docker" /\ emulator.at = "up"]
  /\ upset' = upset \cup {"removed"} \cup Raced
  /\ UNCHANGED <<minted, maker, server, run, wire, machine, kills>>

-----------------------------------------------------------------------------
Programs ==
  \/ \E m \in Makers: Check(m) \/ WritePrivate(m) \/ WritePublic(m)
  \/ Configured \/ StartEmulator \/ EmulatorListens \/ composeUp
  \/ \E a \in Known: StartServer(a) \/ PickTest(a)
  \/ AllStarted \/ globalSetup \/ Ask \/ Answer \/ Finish

Developer ==
  \/ \E argv \in CommandLines, target \in Targets: StartRun(argv, target)
  \/ EmulatorByHand \/ Kill \/ StopLeftovers \/ RemoveTmp

Next == Programs \/ Developer

(* Processes run, and every wait of Playwright's has a timeout; nothing is *)
(* assumed of the developer.                                               *)
E2ESpec == E2EInit /\ [][Next]_vars /\ WF_vars(Programs)

-----------------------------------------------------------------------------

(* keys.ts:15, "Safe to call repeatedly": however often a run is killed    *)
(* between the two writes, two files that are there are one pair - unless  *)
(* two processes wrote them at once, or they went while one was writing.   *)
PairIsAPair ==
  "raced" \notin upset => NoKey \in {privateKey, publicKey} \/ privateKey = publicKey

(* apps.ts:80, "a green run has to mean every app really passed": each     *)
(* application the command line asks for - all of them, or all but those   *)
(* on request only, when it names none - had its signed Sale accepted.     *)
Asked(r) ==
  LET named == ProjectsNamed(r.argv)
  IN  IF named # {} THEN named
      ELSE IF r.target = "docker" THEN Known ELSE {a \in Known: ~APPS[a].onRequestOnly}

GreenMeansPaid == run.stage = "passed" => run.paid = Asked(run) /\ run.failing = {}

(* A toolchain is nowhere when it is neither on the PATH nor in one of the *)
(* places that apps.ts tries first.                                        *)
TriedFirst ==
  {<<"go", "GO_BIN">>, <<"go", "~/opt">>, <<"ruby", "RUBY_BIN">>, <<"ruby", "~/opt">>,
   <<"java", "JAVA_HOME">>, <<"java", "~/.sdkman">>, <<"cargo", "CARGO_BIN">>, <<"cargo", "~/.cargo">>,
   <<"dotnet", "DOTNET_BIN">>, <<"dotnet", "DOTNET_ROOT">>, <<"dotnet", "/usr/local/share">>,
   <<"dotnet", "~/.dotnet">>}
Nowhere(tool) ==
  machine.tools \cap ({<<tool, "PATH">>} \cup {place \in TriedFirst: place[1] = tool}) = {}

(* A red run has a cause outside the code under test: keys that were       *)
(* deleted or written twice, a toolchain that is nowhere, a process left   *)
(* behind where none may be reused, an application moved by its own .env,  *)
(* or servers that a second name after one --project did not start.        *)
RedForAReason ==
  run.stage = "failed" =>
    \/ upset \cap {"raced", "removed"} # {}
    \/ (machine.CI \/ run.target = "docker") /\ (kills > 0 \/ "by hand" \in upset)
    \/ run.target = "native" /\ \E a \in run.started: \E tool \in APPS[a].tools: Nowhere(tool)
    \/ run.target = "native" /\ machine.dotEnv /\ "nextjs" \in run.started
    \/ ~(Asked(run) \subseteq run.started)

(* A signed call is accepted exactly when its key is the other half of the *)
(* one on the disk: every port's encoding, the body's and the header's,    *)
(* and the emulator's agree on every value.                                *)
CallsVerify ==
  wire.sent /\ wire.signed /\ emulator.at = "up" =>
    (ReplyToWire.status = 200 <=> wire.key = VerifierKey)

(* What a signature vouches for: no other parameters have it.              *)
OneSignatureOneSale ==
  wire.sent /\ wire.signed =>
    LET vouched(params) == Calls[run.app, Script[run.step], params, wire.key].authorization
    IN  \A other \in AllParams \ {wire.params}: vouched(other) # vouched(wire.params)

(* A run comes to its end, whatever was left behind, deleted or killed.    *)
EveryRunEnds == run.stage = "config" ~> run.stage \in Ended
====================================================================================
