------------------------------- MODULE MCServers -------------------------------
(* A good request of every kind, and others that differ from it in one     *)
(* respect.                                                                *)
EXTENDS ServerProperties

AllPorts ==
  {"nodejs-express-js", "nodejs-express-ts-js", "nextjs", "go-js", "php-js", "python-flask-js",
   "ruby-sinatra-js", "java-springboot-js", "kotlin-ktor-js", "rust-axum-js", "dotnet-aspnetcore-js"}

(* A body without a browser or a customer object has none of their members. *)
NoBrowser == [n \in PostedFields |-> "absent"]
Browser == [NoBrowser EXCEPT !["customer_browser_info"] = "text"]

Base ==
  [route |-> "config", method |-> "GET", body |-> "object", token |-> "text",
   browserKind |-> "object", browser |-> Browser, customerKind |-> "object", email |-> "text",
   accept |-> "text", forwarded |-> <<"payer">>, peer |-> "::1",
   orderId |-> <<<<"o">>>>, clientOrderId |-> <<<<"c">>>>, form |-> NoForm, query |-> NoForm]

Pay == [Base EXCEPT !.route = "pay", !.method = "POST"]

PayRequests ==
  {Pay}
    \cup {[Pay EXCEPT !.token = v] : v \in Kinds}
    \cup {[Pay EXCEPT !.email = v] : v \in Kinds}
    \cup {[Pay EXCEPT !.browser["customer_browser_info"] = v] : v \in Kinds}
    \cup {[Pay EXCEPT !.browser["amount"] = "text"]}
    \cup {[Pay EXCEPT !.body = b, !.token = t] :
            b \in {"object", "unread"}, t \in {"absent", "text"}}
    \cup {[Pay EXCEPT !.body = b, !.token = "absent", !.browserKind = "absent",
                      !.browser = NoBrowser, !.customerKind = "absent", !.email = "absent"] :
            b \in {"malformed", "scalar", "null", "list", "object"}}
    \cup {[Pay EXCEPT !.browserKind = k, !.browser = NoBrowser] : k \in {"absent", "null", "list"}}
    \cup {[Pay EXCEPT !.customerKind = k, !.email = "absent"] : k \in {"absent", "null", "list"}}
    \cup {[Pay EXCEPT !.accept = a] : a \in {"absent", "empty"}}
    \cup {[Pay EXCEPT !.forwarded = f, !.peer = p] :
            f \in {<<>>, <<"payer">>, <<"::ffff:payer">>, <<"claimed", "payer">>},
            p \in {"::1", "peer"}}

Values == {<<>>, <<<<>>>>, <<<<"o">>>>, <<<<"o">>, <<"x">>>>}
StatusRequests ==
  {[Base EXCEPT !.route = "status", !.orderId = o, !.clientOrderId = c] : o \in Values, c \in Values}

-----------------------------------------------------------------------------

FormOf(s, o, m, c) == [status |-> s, orderid |-> o, merchant_order |-> m, control |-> c]
One(value) == <<value>>
Sum(s, o, m) == One(Checksum(s \o o \o m))
S == <<"s">>
O == <<"o">>
M == <<"m">>

Forms ==
  {NoForm,
   FormOf(One(S), One(O), One(M), Sum(S, O, M)),
   FormOf(One(S), One(<<"x">>), One(M), Sum(S, O, M)),
   FormOf(One(S), One(O), One(M), One(<<"#", "x", "x", "x">>)),
   FormOf(One(S), One(O), One(M), One(<<"#">>)),
   FormOf(One(S), One(O), One(M), One(<<"#", "s", "o", "e-acute">>)),
   FormOf(One(S), One(O), One(M), One(<<"e-acute">>)),
   FormOf(One(S), One(O), One(M), <<>>),
   FormOf(One(S), One(O), One(M), One(<<>>)),
   FormOf(<<>>, One(O), One(M), Sum(<<>>, O, M)),
   FormOf(One(<<>>), One(O), One(M), Sum(<<>>, O, M)),
   FormOf(One(S), <<>>, One(M), Sum(S, <<>>, M)),
   FormOf(One(S), One(<<>>), <<>>, Sum(S, <<>>, <<>>)),
   FormOf(<<>>, <<>>, <<>>, Sum(<<>>, <<>>, <<>>))}
    \cup {FormOf(One(S), <<O, <<"x">>>>, One(M), Sum(S, o, M)) :
            o \in {O, <<"x">>, <<"o", ",", "x">>, <<"y">>}}
    \cup {FormOf(One(S), One(O), One(M), Sum(S, O, M) \o One(<<"x">>))}

Callbacks ==
  {[Base EXCEPT !.route = "callback", !.method = m, !.body = b, !.form = f] :
     m \in {"GET", "POST"}, b \in {"form", "unread", "unreadable"}, f \in Forms}

(* Returns with some of the four in the URL. *)
Halves ==
  {NoForm, FormOf(One(S), One(O), One(M), Sum(S, O, M)), FormOf(<<>>, One(<<"x">>), <<>>, <<>>),
   FormOf(One(S), <<>>, One(M), Sum(S, O, M)), FormOf(<<>>, One(O), <<>>, <<>>)}
SplitCallbacks ==
  {[Base EXCEPT !.route = "callback", !.method = m, !.body = b, !.form = f, !.query = q] :
     m \in {"GET", "POST"}, b \in {"form", "unread"}, f \in Halves, q \in Halves}

Results == {[Base EXCEPT !.route = "result", !.form = f] : f \in Forms}

AllRequests ==
  {Base} \cup PayRequests \cup StatusRequests \cup Callbacks \cup SplitCallbacks \cup Results

(* One of each route, for the runs about waiting. *)
FewRequests ==
  {Base, Pay, [Base EXCEPT !.route = "status"], CHOOSE r \in Results: r.form = NoForm}

-----------------------------------------------------------------------------

GoodReply == [kind |-> "object", ticket |-> "text", order |-> "number", status |-> "text"]
AllReplies ==
  {[GoodReply EXCEPT !.kind = k] : k \in {"text", "null", "list", "scalar", "object"}}
    \cup {[GoodReply EXCEPT !.ticket = v] : v \in Kinds}
    \cup {[GoodReply EXCEPT !.order = v, !.status = v] : v \in {"absent", "null", "text"}}
=============================================================================
