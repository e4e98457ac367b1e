------------------------------- MODULE ServerTypes -------------------------------
(***************************************************************************)
(* What goes into a merchant's server and what comes out of it, in the     *)
(* terms that the ports can differ in.  Every port module defines          *)
(*                                                                         *)
(*   Handle(r)      an answer, or the gateway call that request r leads to *)
(*   Finish(r, g)   the answer once that call has come to g                *)
(*   Unready(r)     the answer when a setting is missing                   *)
(*                                                                         *)
(* A JSON member is one of a few kinds of value.  Where a server writes    *)
(* one as a text, the kind also names that text: "number" the digits,      *)
(* "null" the word.  A member that is a list holds one text; a body,       *)
(* customer or browser that is a list is empty.  A query or a form maps    *)
(* each name to the values given for it, in their order; a text is a       *)
(* sequence of characters.                                                 *)
(***************************************************************************)
EXTENDS Naturals, Sequences, SequencesExt, TLC

Kinds == {"absent", "null", "empty", "blank", "text", "number", "list"}
Nothing == {"absent", "null"}
Texts == {"empty", "blank", "text"}

OrEmpty(v) == IF v \in Nothing THEN "empty" ELSE v
TextOrEmpty(v) == IF v \in Texts THEN v ELSE "empty"

(* BROWSER_FIELDS: one documented name stands for the eight. *)
BrowserFields == {"customer_browser_info"}
PostedFields == BrowserFields \cup {"amount"}

(* What a body gave for the documented names. *)
Given(browser, names) == [n \in {m \in names: browser[m] # "absent"} |-> browser[n]]
HeaderParams(accept) ==
  [customer_browser_accept_header |-> accept, customer_browser_user_agent |-> "agent"]

(* The members of f and, where f has none, those of g: an object that is   *)
(* spread into another, or a map that keeps what it holds.                 *)
Over(f, g) == [n \in DOMAIN f \cup DOMAIN g |-> IF n \in DOMAIN f THEN f[n] ELSE g[n]]

(* The part of a Sale that is the server's own, the payer's e-mail, which  *)
(* stands for the four details, and his address.                           *)
OwnParams(token, email, address) ==
  [client_orderid |-> "ours", amount |-> "ours", redirect_url |-> "ours",
   hosted_fields_token |-> token, email |-> email, ipaddress |-> address]

(* Addresses, as a socket or X-Forwarded-For spells them. *)
PlainAddress(a) ==
  CASE a = "::1" -> "127.0.0.1"
    [] a = "::ffff:payer" -> "payer"
    [] OTHER -> a

-----------------------------------------------------------------------------
(* Names given several times. *)

FirstOf(values) == IF values = <<>> THEN <<>> ELSE Head(values)
LastOf(values) == IF values = <<>> THEN <<>> ELSE Last(values)
OnlyOf(values) == IF Len(values) = 1 THEN Head(values) ELSE <<>>

(* String(["a", "b"]), which is what node makes of a name given twice. *)
CommaJoined(values) ==
  IF Len(values) <= 1 THEN FirstOf(values)
  ELSE Tail(FlattenSeq([i \in DOMAIN values |-> <<",">> \o values[i]]))

(* The gateway's checksum, taken to be injective: the fields are written   *)
(* one after the other with nothing in between.  It is written in ASCII.   *)
Checksum(s) ==
  LET digest == <<"#">> \o s
  IN  [i \in DOMAIN digest |-> IF digest[i] = "e-acute" THEN "e" ELSE digest[i]]
SignedNames == <<"status", "orderid", "merchant_order", "control">>
NoForm == [n \in ToSet(SignedNames) |-> <<>>]

(* A form's names over a query's. *)
Merged(form, query) == [n \in DOMAIN form |-> IF form[n] # <<>> THEN form[n] ELSE query[n]]

Expected(field) == Checksum(field["status"] \o field["orderid"] \o field["merchant_order"])
Signed(field) == field["control"] = Expected(field)

(* "e-acute" is one character and two bytes of UTF-8. *)
IsAscii(s) == "e-acute" \notin ToSet(s)

(* The signed parameters that have a value, as a URL lists them, and what  *)
(* the next request finds in that URL, where no name is given twice.       *)
SignedQuery(field) ==
  LET pair(n) == IF field[n] = <<>> THEN <<>> ELSE <<<<n, field[n]>>>>
  IN  pair("status") \o pair("orderid") \o pair("merchant_order") \o pair("control")
AsForm(query) == [n \in DOMAIN NoForm |->
  LET given == {pair \in ToSet(query): pair[1] = n}
  IN  IF given = {} THEN <<>> ELSE <<(CHOOSE pair \in given: TRUE)[2]>>]

-----------------------------------------------------------------------------
(* Answers and calls. *)

Answer(code) == [code |-> code, order |-> "absent", client |-> "absent",
                 status |-> "absent", ticket |-> "absent", query |-> <<>>]
Dropped == Answer(0)   \* the connection is closed with no answer
Page == Answer(200)

(* 200 with the gateway's order id and the server's clientOrderId. *)
Sold(order) == [Answer(200) EXCEPT !.order = order, !.client = "ours"]
Looked(status) == [Answer(200) EXCEPT !.status = status]
Config(ticket) == [Answer(200) EXCEPT !.ticket = ticket]

(* 303, so that the browser follows with a GET. *)
Redirect(query) == [Answer(303) EXCEPT !.query = query]

NoCall == [command |-> "none", params |-> <<>>]
Call(command, params) == [command |-> command, params |-> params]

Reply(answer) == [call |-> NoCall, answer |-> answer]
Ask(command, params) == [call |-> Call(command, params), answer |-> Answer(0)]
AskStatus(order, client) == Ask("status", [orderid |-> order, client_orderid |-> client])

(* A reply's member, of a reply that may have none. *)
MemberOf(g, value) == IF g.kind = "object" THEN value ELSE "absent"
=============================================================================
