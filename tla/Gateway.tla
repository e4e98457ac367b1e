-------------------------------- MODULE Gateway --------------------------------
(***************************************************************************)
(* The payment gateway as e2e-tests/src/emulator plays it: it mints        *)
(* single-use ephemeral tickets, turns a ticket and three card values into *)
(* a hosted_fields_token, turns a token into an order (the Sale), and      *)
(* answers for the status of an order.  A test scenario, chosen before the *)
(* page loads, travels from the ticket to the token to the order.          *)
(*                                                                         *)
(* The emulator is a single-threaded node server whose handlers run to     *)
(* completion once the body is read, so each handler is one action.  Its   *)
(* oauth check, html and logging are left out.                             *)
(***************************************************************************)

EXTENDS Domains

CONSTANTS
  Amounts,        \* amounts a Sale may carry
  OrderAmount,    \* the one amount settings.ts expects
  SlowBank        \* TRUE for a bank that takes its time, as the pages expect

Scenarios == {"approved", "declined", "threeds", "no-ticket", "sale-error"}

ASSUME GatewayAssumption ==
  /\ OrderAmount \in Amounts
  /\ SlowBank \in BOOLEAN
  /\ None \notin Scenarios

VARIABLES
  pending,         \* the scenario the next ticket is pinned to
  ticketName,      \* scenario spelled in a ticket's text, None while unminted
  ticketScenario,  \* the ticketScenarios Map
  tokenTicket,     \* the ticket a token was made from, None while unminted
  tokenScenario,   \* the tokenScenarios Map
  order            \* the orders Map; scenario = None where there is no entry

gatewayVars ==
  <<pending, ticketName, ticketScenario, tokenTicket, tokenScenario, order>>

Order == [client: ClientOrders \cup {None}, scenario: Scenarios \cup {None},
          details: Details \cup {None}, challengeDone: BOOLEAN,
          decided: BOOLEAN, token: Tokens \cup {None}]

NoOrder == [client |-> None, scenario |-> None, details |-> None,
            challengeDone |-> FALSE, decided |-> FALSE, token |-> None]

GatewayTypeOK ==
  /\ pending \in Scenarios
  /\ ticketName \in [Tickets -> Scenarios \cup {None}]
  /\ ticketScenario \in [Tickets -> Scenarios \cup {None}]
  /\ tokenTicket \in [Tokens -> Tickets \cup {None}]
  /\ tokenScenario \in [Tokens -> Scenarios \cup {None}]
  /\ order \in [OrderIds -> Order]

GatewayInit ==
  /\ pending = "approved"
  /\ ticketName = [t \in Tickets |-> None]
  /\ ticketScenario = [t \in Tickets |-> None]
  /\ tokenTicket = [k \in Tokens |-> None]
  /\ tokenScenario = [k \in Tokens |-> None]
  /\ order = [o \in OrderIds |-> NoOrder]

Known(o) == order[o].scenario # None

-----------------------------------------------------------------------------
(* POST /__control/scenario and /__control/reset. *)

SetScenario(s) ==
  /\ pending' = s
  /\ UNCHANGED <<ticketName, ticketScenario, tokenTicket, tokenScenario, order>>

Reset ==
  /\ pending' = "approved"
  /\ ticketScenario' = [t \in Tickets |-> None]
  /\ tokenScenario' = [k \in Tokens |-> None]
  /\ order' = [o \in OrderIds |-> NoOrder]
  /\ UNCHANGED <<ticketName, tokenTicket>>

(* create-ephemeral-ticket: a fresh ticket is recorded under the pending   *)
(* scenario even when the reply then refuses to hand it over.              *)
CreateEphemeralTicket(t, reply) ==
  /\ ticketName[t] = None
  /\ ticketName' = [ticketName EXCEPT ![t] = pending]
  /\ ticketScenario' = [ticketScenario EXCEPT ![t] = pending]
  /\ reply = IF pending = "no-ticket" THEN None ELSE t
  /\ UNCHANGED <<pending, tokenTicket, tokenScenario, order>>

(* Bugs the checks must find: the ticket stays in the Map; the token plays *)
(* the scenario pending now instead of its ticket's.                       *)
MintTokenKeepsTicket(t, k) ==
  /\ ticketScenario[t] # None
  /\ tokenTicket[k] = None
  /\ tokenTicket' = [tokenTicket EXCEPT ![k] = t]
  /\ tokenScenario' = [tokenScenario EXCEPT ![k] = ticketScenario[t]]
  /\ UNCHANGED <<pending, ticketName, ticketScenario, order>>

MintTokenOfPending(t, k) ==
  /\ ticketScenario[t] # None
  /\ tokenTicket[k] = None
  /\ ticketScenario' = [ticketScenario EXCEPT ![t] = None]
  /\ tokenTicket' = [tokenTicket EXCEPT ![k] = t]
  /\ tokenScenario' = [tokenScenario EXCEPT ![k] = pending]
  /\ UNCHANGED <<pending, ticketName, order>>

(* mintToken: takes the ticket out of the Map, so that it works once. *)
MintToken(t, k) ==
  /\ ticketScenario[t] # None
  /\ tokenTicket[k] = None
  /\ ticketScenario' = [ticketScenario EXCEPT ![t] = None]
  /\ tokenTicket' = [tokenTicket EXCEPT ![k] = t]
  /\ tokenScenario' = [tokenScenario EXCEPT ![k] = ticketScenario[t]]
  /\ UNCHANGED <<pending, ticketName, order>>

(* tokenize: the card is looked at before the ticket, so the two card      *)
(* errors leave the ticket in the Map.                                     *)
Cards == {"good", "short", "incomplete"}
Failed(code) == [code |-> code, token |-> None]
TokenOf(k) == [code |-> 0, token |-> k]
TokenReplies == {Failed(c) : c \in {4002, 4003, 4004}} \cup {TokenOf(k) : k \in Tokens}

Tokenize(t, card, reply) ==
  \/ /\ card = "short"
     /\ reply = Failed(4004)
     /\ UNCHANGED gatewayVars
  \/ /\ card = "incomplete"
     /\ reply = Failed(4002)
     /\ UNCHANGED gatewayVars
  \/ /\ card = "good"
     /\ ticketScenario[t] = None
     /\ reply = Failed(4003)
     /\ UNCHANGED gatewayVars
  \/ /\ card = "good"
     /\ \E k \in Tokens: reply = TokenOf(k) /\ MintToken(t, k)

(* createOrder: the id is seven random digits, and the order is written    *)
(* over whatever order has them already.                                   *)
CreateOrder(o, token, client, details) ==
  /\ order' = [order EXCEPT ![o] =
       [client |-> client, scenario |-> tokenScenario[token],
        details |-> details, challengeDone |-> FALSE,
        decided |-> ~SlowBank /\ tokenScenario[token] # "threeds", token |-> token]]
  /\ UNCHANGED <<pending, ticketName, ticketScenario, tokenTicket, tokenScenario>>

SaleRefused(token, amount) ==
  \/ tokenScenario[token] \in {None, "sale-error"}
  \/ amount # OrderAmount

Sale(token, amount, client, details, reply) ==
  \/ /\ SaleRefused(token, amount)
     /\ reply = None
     /\ UNCHANGED gatewayVars
  \/ /\ ~SaleRefused(token, amount)
     /\ reply \in OrderIds
     /\ CreateOrder(reply, token, client, details)

(* A bug: the verdict is the pending scenario's, not the order's. *)
StatusReplyOfPending(o) ==
  [status   |-> CASE ~Known(o) -> "none"
                  [] Known(o) /\ ~order[o].decided -> "processing"
                  [] Known(o) /\ order[o].decided ->
                       IF pending = "declined" THEN "declined" ELSE "approved",
   redirect |-> order[o].scenario = "threeds" /\ ~order[o].decided]

(* status: reads the order and changes nothing.  An unknown order gets a   *)
(* reply with no status in it; a challenge comes with a redirect-to for as *)
(* long as it has not settled the order.                                   *)
StatusReply(o) ==
  [status   |-> CASE ~Known(o) -> "none"
                  [] Known(o) /\ ~order[o].decided -> "processing"
                  [] Known(o) /\ order[o].decided ->
                       IF order[o].scenario = "declined" THEN "declined" ELSE "approved",
   redirect |-> order[o].scenario = "threeds" /\ ~order[o].decided]

(* GET /acs: arriving at the issuer's page is what passes the challenge.   *)
(* decided stands for "the status is final", which for the emulator is     *)
(* scenario # "threeds" or challengeDone.                                  *)
ChallengePage(o) ==
  /\ Known(o)
  /\ order' = [order EXCEPT ![o].challengeDone = TRUE, ![o].decided = @ \/ ~SlowBank]
  /\ UNCHANGED <<pending, ticketName, ticketScenario, tokenTicket, tokenScenario>>

(* The real gateway, which the pages poll "every few seconds until a final *)
(* status": the bank decides some time after the Sale or the challenge.    *)
(* The emulator decides on the spot.                                       *)
BankDecides(o) ==
  /\ SlowBank /\ Known(o) /\ ~order[o].decided
  /\ order[o].scenario = "threeds" => order[o].challengeDone
  /\ order' = [order EXCEPT ![o].decided = TRUE]
  /\ UNCHANGED <<pending, ticketName, ticketScenario, tokenTicket, tokenScenario>>

-----------------------------------------------------------------------------
(* The gateway on its own, called in any order by anybody. *)

GatewayNext ==
  \/ \E s \in Scenarios: SetScenario(s)
  \/ Reset
  \/ \E t \in Tickets: CreateEphemeralTicket(t, IF pending = "no-ticket" THEN None ELSE t)
  \/ \E t \in Tickets, card \in Cards, reply \in TokenReplies: Tokenize(t, card, reply)
  \/ \E k \in Tokens, a \in Amounts, c \in ClientOrders, x \in Details,
        reply \in OrderIds \cup {None}: Sale(k, a, c, x, reply)
  \/ \E o \in OrderIds: ChallengePage(o) \/ BankDecides(o)

GatewaySpec == GatewayInit /\ [][GatewayNext]_gatewayVars

-----------------------------------------------------------------------------
(* Properties. *)

(* state.ts:51, "One tokenization per ephemeral ticket": however tickets   *)
(* and tokens interleave, and across resets, no two tokens were made from  *)
(* the same ticket.                                                        *)
OneTokenPerTicket ==
  \A k1, k2 \in Tokens:
    tokenTicket[k1] # None /\ tokenTicket[k1] = tokenTicket[k2] => k1 = k2

(* scenarios.ts:3, "a flow already in progress cannot be changed out from  *)
(* under itself": an order plays the scenario that was pending when its    *)
(* ticket was minted, whatever was set or reset since.                     *)
ScenarioPinned ==
  \A o \in OrderIds:
    Known(o) => order[o].scenario = ticketName[tokenTicket[order[o].token]]
=============================================================================
