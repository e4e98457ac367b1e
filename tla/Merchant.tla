-------------------------------- MODULE Merchant --------------------------------
(***************************************************************************)
(* The merchant's server, nodejs-express-js/src/server.js and paynet.js,   *)
(* and the two requests a page makes of it.  The server keeps nothing      *)
(* between requests: its state is the handlers that are running, so a      *)
(* crash is a set of requests that fail.  A handler makes one gateway call *)
(* and waits 30 s for it at most; the gateway may do the work after that.  *)
(***************************************************************************)
EXTENDS Domains

CONSTANT Attempts   \* presses of the Pay button

ASSUME AttemptsAssumption == None \notin Attempts

VARIABLES
  payCall,      \* the POST /pay of an attempt
  statusReply   \* the answer to a page's GET /status, None until there is one

merchantVars == <<payCall, statusReply>>

(* token None: not posted.  sale: what became of the gateway call.         *)
(* answer: what the handler has replied to the page.                       *)
PayCalls == [token: Tokens \cup {None}, details: Details \cup {None},
             client: ClientOrders \cup {None},
             sale: {"unsent", "asked", "refused", "made"},
             order: OrderIds \cup {None},
             answer: {"none", "order", "refusal", "failure"}]

NoPayCall == [token |-> None, details |-> None, client |-> None, sale |-> "unsent",
              order |-> None, answer |-> "none"]

Replies == [status: {"none", "processing", "approved", "declined"}, redirect: BOOLEAN]
FailureReply == [status |-> "none", redirect |-> FALSE]

MerchantTypeOK ==
  /\ payCall \in [Attempts -> PayCalls]
  /\ statusReply \in [Docs -> Replies \cup {None}]

MerchantInit ==
  /\ payCall = [i \in Attempts |-> NoPayCall]
  /\ statusReply = [d \in Docs |-> None]

-----------------------------------------------------------------------------
(* POST /pay. *)

PostPay(i, token, details) ==
  /\ payCall[i].token = None
  /\ payCall' = [payCall EXCEPT ![i].token = token, ![i].details = details]
  /\ UNCHANGED statusReply

(* The handler makes up a client order id and calls createSale. *)
HandlePay(i, client) ==
  /\ payCall[i].token # None
  /\ payCall[i].sale = "unsent"
  /\ \A j \in Attempts: payCall[j].client # client
  /\ payCall' = [payCall EXCEPT ![i].client = client, ![i].sale = "asked"]
  /\ UNCHANGED statusReply

(* The gateway has dealt with the Sale, whether anyone still waits or not. *)
SaleDone(i, order) ==
  /\ payCall[i].sale = "asked"
  /\ payCall' = [payCall EXCEPT ![i].sale = IF order = None THEN "refused" ELSE "made",
                                ![i].order = order]
  /\ UNCHANGED statusReply

(* A bug: the client order id is kept in a variable that requests share. *)
AnswerPaySharesClient(i) ==
  /\ payCall[i].sale \in {"refused", "made"}
  /\ payCall[i].answer = "none"
  /\ \E j \in Attempts:
       payCall' = [payCall EXCEPT ![i].client = payCall[j].client, ![i].answer =
         IF payCall[i].sale = "made" THEN "order" ELSE "refusal"]
  /\ UNCHANGED statusReply

(* The reply came in time: {...sale, clientOrderId}, or the gateway's own  *)
(* error-message.                                                          *)
AnswerPay(i) ==
  /\ payCall[i].sale \in {"refused", "made"}
  /\ payCall[i].answer = "none"
  /\ payCall' = [payCall EXCEPT ![i].answer =
       IF payCall[i].sale = "made" THEN "order" ELSE "refusal"]
  /\ UNCHANGED statusReply

(* Bugs: a call that timed out is made again; only a call that came back   *)
(* can fail.                                                               *)
FailPayRetries(i) ==
  /\ payCall[i].sale # "unsent"
  /\ payCall[i].answer = "none"
  /\ payCall' = [payCall EXCEPT ![i].sale = "asked"]
  /\ UNCHANGED statusReply

FailPayWithoutTimeout(i) ==
  /\ payCall[i].sale \in {"refused", "made"}
  /\ payCall[i].answer = "none"
  /\ payCall' = [payCall EXCEPT ![i].answer = "failure"]
  /\ UNCHANGED statusReply

(* The call timed out or its reply was not JSON: 502 with an error. *)
FailPay(i) ==
  /\ payCall[i].sale # "unsent"
  /\ payCall[i].answer = "none"
  /\ payCall' = [payCall EXCEPT ![i].answer = "failure"]
  /\ UNCHANGED statusReply

-----------------------------------------------------------------------------
(* GET /status: the gateway's reply is passed on as it is; a failed call   *)
(* is a 502 without a status.                                              *)

AnswerStatus(d, r) ==
  /\ statusReply[d] = None
  /\ statusReply' = [statusReply EXCEPT ![d] = r]
  /\ UNCHANGED payCall

(* The page has taken the answer, or has given up on it. *)
ForgetStatus(d) ==
  /\ statusReply' = [statusReply EXCEPT ![d] = None]
  /\ UNCHANGED payCall
=============================================================================
