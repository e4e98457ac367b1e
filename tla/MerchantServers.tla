----------------------------- MODULE MerchantServers -----------------------------
(***************************************************************************)
(* One merchant's server, in any of the languages of the repository.  None *)
(* of the ports keeps a session, so the one behind the prefix may be       *)
(* replaced by another between two requests, between a redirect and the    *)
(* request it leads to, or during a call, whose connection then closes.    *)
(* The gateway may answer anything, stop half way through its reply, or    *)
(* never answer; the port's own timer is all that ends the call then.      *)
(*                                                                         *)
(* go-react has go-js's handlers, word for word, and is not a port of its  *)
(* own here.                                                               *)
(***************************************************************************)
EXTENDS ServerTypes

CONSTANTS
  Ports,      \* the directories' names
  Requests,   \* the requests that browsers and the gateway make
  Replies     \* the gateway's, as the ports can tell them apart

(* What a request can be, the fields that its route does not read          *)
(* included.                                                               *)
Words == Seq(STRING)
RequestRecords ==
  [route: {"config", "pay", "status", "callback", "result"}, method: {"GET", "POST"},
   body: {"object", "list", "scalar", "null", "malformed", "unread", "form", "unreadable"},
   token: Kinds, browserKind: {"object"} \cup Kinds, browser: [PostedFields -> Kinds],
   customerKind: {"object"} \cup Kinds, email: Kinds, accept: Kinds,
   forwarded: Words, peer: STRING, orderId: Seq(Words), clientOrderId: Seq(Words),
   form: [ToSet(SignedNames) -> Seq(Words)],
   query: [ToSet(SignedNames) -> Seq(Words)]]   \* of the callback's URL

(* A form that is posted to /pay is as unread there as a body of any other *)
(* type, and is told apart at the callback alone, as is one that the       *)
(* port's reader gives up on: cut short, above its limit, or with an       *)
(* escape that it minds.  There is a page for a redirect to lead to, and a *)
(* reply is JSON or a text that is not.                                    *)
ASSUME ServersAssumption ==
  /\ Ports \subseteq {"nodejs-express-js", "nodejs-express-ts-js", "nextjs", "go-js", "php-js",
                      "python-flask-js", "ruby-sinatra-js", "java-springboot-js",
                      "kotlin-ktor-js", "rust-axum-js", "dotnet-aspnetcore-js"}
  /\ Requests \subseteq RequestRecords
  /\ \A r \in Requests: r.route = "pay" => r.body \notin {"form", "unreadable"}
  /\ \E r \in Requests: r.route = "result"
  /\ \A g \in Replies: g.kind \in {"object", "list", "scalar", "null", "text"}

Express == INSTANCE ExpressServer
ExpressTs == INSTANCE ExpressTsServer
NextJs == INSTANCE NextServer
Go == INSTANCE GoServer
Php == INSTANCE PhpServer
Python == INSTANCE PythonServer
Ruby == INSTANCE RubyServer
Java == INSTANCE JavaServer
Kotlin == INSTANCE KotlinServer
Rust == INSTANCE RustServer
Dotnet == INSTANCE DotnetServer

HandleBy(port, r) ==
  CASE port = "nodejs-express-js" -> Express!Handle(r)
    [] port = "nodejs-express-ts-js" -> ExpressTs!Handle(r)
    [] port = "nextjs" -> NextJs!Handle(r)
    [] port = "go-js" -> Go!Handle(r)
    [] port = "php-js" -> Php!Handle(r)
    [] port = "python-flask-js" -> Python!Handle(r)
    [] port = "ruby-sinatra-js" -> Ruby!Handle(r)
    [] port = "java-springboot-js" -> Java!Handle(r)
    [] port = "kotlin-ktor-js" -> Kotlin!Handle(r)
    [] port = "rust-axum-js" -> Rust!Handle(r)
    [] port = "dotnet-aspnetcore-js" -> Dotnet!Handle(r)

FinishBy(port, r, g) ==
  CASE port = "nodejs-express-js" -> Express!Finish(r, g)
    [] port = "nodejs-express-ts-js" -> ExpressTs!Finish(r, g)
    [] port = "nextjs" -> NextJs!Finish(r, g)
    [] port = "go-js" -> Go!Finish(r, g)
    [] port = "php-js" -> Php!Finish(r, g)
    [] port = "python-flask-js" -> Python!Finish(r, g)
    [] port = "ruby-sinatra-js" -> Ruby!Finish(r, g)
    [] port = "java-springboot-js" -> Java!Finish(r, g)
    [] port = "kotlin-ktor-js" -> Kotlin!Finish(r, g)
    [] port = "rust-axum-js" -> Rust!Finish(r, g)
    [] port = "dotnet-aspnetcore-js" -> Dotnet!Finish(r, g)

UnreadyBy(port, r) ==
  CASE port = "nodejs-express-js" -> Express!Unready(r)
    [] port = "nodejs-express-ts-js" -> ExpressTs!Unready(r)
    [] port = "nextjs" -> NextJs!Unready(r)
    [] port = "go-js" -> Go!Unready(r)
    [] port = "php-js" -> Php!Unready(r)
    [] port = "python-flask-js" -> Python!Unready(r)
    [] port = "ruby-sinatra-js" -> Ruby!Unready(r)
    [] port = "java-springboot-js" -> Java!Unready(r)
    [] port = "kotlin-ktor-js" -> Kotlin!Unready(r)
    [] port = "rust-axum-js" -> Rust!Unready(r)
    [] port = "dotnet-aspnetcore-js" -> Dotnet!Unready(r)

(* The stages of a call that the port's timer covers. *)
TimedBy(port) ==
  CASE port = "nodejs-express-js" -> Express!Timed
    [] port = "nodejs-express-ts-js" -> ExpressTs!Timed
    [] port = "nextjs" -> NextJs!Timed
    [] port = "go-js" -> Go!Timed
    [] port = "php-js" -> Php!Timed
    [] port = "python-flask-js" -> Python!Timed
    [] port = "ruby-sinatra-js" -> Ruby!Timed
    [] port = "java-springboot-js" -> Java!Timed
    [] port = "kotlin-ktor-js" -> Kotlin!Timed
    [] port = "rust-axum-js" -> Rust!Timed
    [] port = "dotnet-aspnetcore-js" -> Dotnet!Timed

-----------------------------------------------------------------------------

VARIABLES
  port,      \* the one deployed
  ready,     \* it has its settings
  stage,     \* of the request: none, asked, headers, answered
  request,
  arrival,   \* fresh, or led to by the answer to a "POST" or a "GET"
  served,    \* by a ready port, and which
  call,      \* the gateway call that the request led to
  reply,     \* what came of that call
  answer

vars == <<port, ready, stage, request, arrival, served, call, reply, answer>>

NoRequest == [route |-> "none"]
NoReply == [kind |-> "none"]
TimedOut == [kind |-> "timeout", ticket |-> "absent", order |-> "absent", status |-> "absent"]

(* The request that a browser makes of a 303's location. *)
ResultRequest(query) ==
  [(CHOOSE r \in Requests: r.route = "result") EXCEPT !.form = AsForm(query)]

Init ==
  /\ port \in Ports /\ ready \in BOOLEAN
  /\ stage = "none" /\ request = NoRequest /\ arrival = "fresh" /\ served = "unready"
  /\ call = NoCall /\ reply = NoReply /\ answer = Dropped

(* An answer is not deployed over unless it leads somewhere: it makes no   *)
(* difference to the next request.                                         *)
Deploy(p, complete) ==
  /\ stage # "answered" \/ answer.code = 303
  /\ port' = p /\ ready' = complete
  /\ stage' = IF stage \in {"asked", "headers"} THEN "answered" ELSE stage
  /\ UNCHANGED <<request, arrival, served, call, reply, answer>>

Serve(r) ==
  LET handled == IF ready THEN HandleBy(port, r) ELSE Reply(UnreadyBy(port, r))
  IN  /\ request' = r
      /\ served' = IF ready THEN port ELSE "unready"
      /\ call' = handled.call /\ answer' = handled.answer
      /\ stage' = IF handled.call = NoCall THEN "answered" ELSE "asked"
      /\ reply' = NoReply
      /\ UNCHANGED <<port, ready>>

Receive(r) == stage = "none" /\ arrival' = "fresh" /\ Serve(r)

Follow ==
  /\ stage = "answered" /\ answer.code = 303
  /\ arrival' = request.method
  /\ Serve(ResultRequest(answer.query))

ReplyBegins ==
  /\ stage = "asked" /\ stage' = "headers"
  /\ UNCHANGED <<port, ready, request, arrival, served, call, reply, answer>>

Finished(g) ==
  /\ stage' = "answered" /\ reply' = g /\ answer' = FinishBy(port, request, g)
  /\ UNCHANGED <<port, ready, request, arrival, served, call>>

ReplyEnds(g) == stage = "headers" /\ Finished(g)

CallTimesOut == stage \in TimedBy(port) /\ Finished(TimedOut)

(* The next request is served as if this one had never been. *)
Forget ==
  /\ stage = "answered"
  /\ stage' = "none" /\ request' = NoRequest /\ arrival' = "fresh" /\ served' = "unready"
  /\ call' = NoCall /\ reply' = NoReply /\ answer' = Dropped
  /\ UNCHANGED <<port, ready>>

Next ==
  \/ \E p \in Ports, complete \in BOOLEAN: Deploy(p, complete)
  \/ \E r \in Requests: Receive(r)
  \/ Follow
  \/ ReplyBegins
  \/ \E g \in Replies: ReplyEnds(g)
  \/ CallTimesOut
  \/ Forget

(* Nothing is expected of the gateway; a timer that is set goes off. *)
Spec == Init /\ [][Next]_vars /\ WF_vars(CallTimesOut)
=============================================================================
