------------------------------ MODULE HostedFields ------------------------------
(***************************************************************************)
(* The Hosted Fields bundle of the emulator: the instance in the merchant  *)
(* page (sdk/hosted-fields.js) and the three card iframes (sdk/field.js),  *)
(* which share nothing but messages.  A message to a document that is not  *)
(* there yet, or not there any more, is lost; one that was posted by a     *)
(* document that is gone is still delivered.                               *)
(*                                                                         *)
(* What the fields hold is left out, and so are the classes the instance   *)
(* paints for focus and content: a tokenization only needs every field to  *)
(* have answered.  What the callbacks of the page do is the business of    *)
(* the module that composes this one.                                      *)
(***************************************************************************)
EXTENDS Naturals, Sequences

CONSTANTS Fields,   \* the containers the markup has: cardNumber, expiryDate, cvv
          Styles    \* style bags the page can send

NoStyle == "none"

VARIABLES
  up,          \* fields whose document is loaded and listens
  worn,        \* the style each document has applied, NoStyle for its own
  inbox,       \* messages posted to each document, in order
  outbox,      \* messages each document has posted to the page, in order
  ready,       \* this.ready: fields that were ever heard to be ready
  bornWith,    \* the style in options.fields, NoStyle before init()
  collecting,  \* this.collecting is set
  gathered,    \* this.values: fields whose value is in
  exchanges    \* tokenize requests the gateway has not answered

sdkVars == <<up, worn, inbox, outbox, ready, bornWith, collecting, gathered, exchanges>>

Collect == "collect"

SdkTypeOK ==
  /\ up \subseteq Fields
  /\ worn \in [Fields -> Styles \cup {NoStyle}]
  /\ inbox \in [Fields -> Seq(Styles \cup {Collect})]
  /\ outbox \in [Fields -> Seq({"ready", "value"})]
  /\ ready \subseteq Fields
  /\ bornWith \in Styles \cup {NoStyle}
  /\ collecting \in BOOLEAN
  /\ gathered \subseteq Fields
  /\ exchanges \in Nat

SdkInit ==
  /\ up = {}
  /\ worn = [f \in Fields |-> NoStyle]
  /\ inbox = [f \in Fields |-> <<>>]
  /\ outbox = [f \in Fields |-> <<>>]
  /\ ready = {}
  /\ bornWith = NoStyle
  /\ collecting = FALSE
  /\ gathered = {}
  /\ exchanges = 0

Mounted == bornWith # NoStyle

(* post(): nothing arrives at a frame whose document does not listen yet. *)
Post(m, to) ==
  inbox' = [f \in Fields |-> IF f \in to \cap up THEN Append(inbox[f], m) ELSE inbox[f]]

-----------------------------------------------------------------------------
(* The documents in the iframes: field.js. *)

(* field.js runs to its end and says "ready". *)
FrameLoads(f) ==
  /\ Mounted
  /\ f \notin up
  /\ up' = up \cup {f}
  /\ outbox' = [outbox EXCEPT ![f] = Append(@, "ready")]
  /\ UNCHANGED <<worn, inbox, ready, bornWith, collecting, gathered, exchanges>>

(* The payer reloads a frame, or the browser does. *)
FrameGoes(f) ==
  /\ f \in up
  /\ up' = up \ {f}
  /\ worn' = [worn EXCEPT ![f] = NoStyle]
  /\ inbox' = [inbox EXCEPT ![f] = <<>>]
  /\ UNCHANGED <<outbox, ready, bornWith, collecting, gathered, exchanges>>

(* Its message handler: applyStyle(), or the value it is asked for. *)
FrameHearsStyles(f) ==   \* a bug: the value is not sent
  /\ inbox[f] # <<>>
  /\ inbox' = [inbox EXCEPT ![f] = Tail(@)]
  /\ worn' = IF Head(inbox[f]) = Collect THEN worn ELSE [worn EXCEPT ![f] = Head(inbox[f])]
  /\ UNCHANGED <<up, outbox, ready, bornWith, collecting, gathered, exchanges>>

FrameHears(f) ==
  /\ inbox[f] # <<>>
  /\ inbox' = [inbox EXCEPT ![f] = Tail(@)]
  /\ IF Head(inbox[f]) = Collect
     THEN outbox' = [outbox EXCEPT ![f] = Append(@, "value")] /\ UNCHANGED worn
     ELSE worn' = [worn EXCEPT ![f] = Head(inbox[f])] /\ UNCHANGED outbox
  /\ UNCHANGED <<up, ready, bornWith, collecting, gathered, exchanges>>

-----------------------------------------------------------------------------
(* The instance in the page: hosted-fields.js. *)

(* init() and mount(): one iframe per container, and the listener. *)
Mount(style) ==
  /\ ~Mounted
  /\ bornWith' = style
  /\ UNCHANGED <<up, worn, inbox, outbox, ready, collecting, gathered, exchanges>>

(* setStyle(), which the page calls for every field in turn. *)
SetStyle(style) ==
  /\ Post(style, Fields)
  /\ UNCHANGED <<up, worn, outbox, ready, bornWith, collecting, gathered, exchanges>>

(* onMessage "ready": the field gets the style it was born with, whatever  *)
(* the page has said since.  allReady() is ready' = Fields.                *)
HearReadyUnstyled(f) ==   \* a bug: the field keeps the style of its document
  /\ outbox[f] # <<>> /\ Head(outbox[f]) = "ready"
  /\ outbox' = [outbox EXCEPT ![f] = Tail(@)]
  /\ ready' = ready \cup {f}
  /\ UNCHANGED <<up, worn, inbox, bornWith, collecting, gathered, exchanges>>

HearReady(f) ==
  /\ outbox[f] # <<>> /\ Head(outbox[f]) = "ready"
  /\ outbox' = [outbox EXCEPT ![f] = Tail(@)]
  /\ ready' = ready \cup {f}
  /\ Post(bornWith, {f})
  /\ UNCHANGED <<up, worn, bornWith, collecting, gathered, exchanges>>

(* tokenize(): a second call takes the place of one that still collects. *)
Tokenize ==
  /\ collecting' = TRUE
  /\ gathered' = {}
  /\ Post(Collect, Fields)
  /\ UNCHANGED <<up, worn, outbox, ready, bornWith, exchanges>>

(* onMessage "value" and finishCollecting(): the last value sends them. *)
HearValueKeepsCollecting(f) ==   \* a bug: this.collecting is not cleared
  /\ outbox[f] # <<>> /\ Head(outbox[f]) = "value"
  /\ outbox' = [outbox EXCEPT ![f] = Tail(@)]
  /\ gathered' = gathered \cup {f}
  /\ exchanges' = IF collecting /\ gathered' = Fields THEN exchanges + 1 ELSE exchanges
  /\ UNCHANGED <<up, worn, inbox, ready, bornWith, collecting>>

HearValue(f) ==
  /\ outbox[f] # <<>> /\ Head(outbox[f]) = "value"
  /\ outbox' = [outbox EXCEPT ![f] = Tail(@)]
  /\ gathered' = gathered \cup {f}
  /\ LET done == collecting /\ gathered' = Fields
     IN  /\ collecting' = (collecting /\ ~done)
         /\ exchanges' = IF done THEN exchanges + 1 ELSE exchanges
  /\ UNCHANGED <<up, worn, inbox, ready, bornWith>>

(* The reply, the error in it or the failed fetch: one callback follows. *)

Settle ==
  /\ exchanges > 0
  /\ exchanges' = exchanges - 1
  /\ UNCHANGED <<up, worn, inbox, outbox, ready, bornWith, collecting, gathered>>
=============================================================================
