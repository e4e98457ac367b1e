----------------------------- MODULE MCPaymentForms -----------------------------
(* Small texts and replies for PaymentForms, every kind the code tells     *)
(* apart once: NameMax is 2 and CardNameMax is 5.                          *)
EXTENDS PaymentForms

Good == <<"a">>
Spaced == <<" ", "a", " ">>
Sharp == <<"sz">>
TooLong == <<"a", "a", "a">>

MCTexts ==
  [firstName |-> {Good, Spaced, TooLong}, lastName |-> {<<"A", ".">>, Sharp},
   cardholderName |-> {<<"a", "a", "a">>, Sharp, <<"1">>},
   email |-> {<<"a", "@", "a", ".", "a">>, <<"a", "@", ".", "a">>}]

MCCodes == {4004, 4001, 5000}

Order == ("paynet-order-id" :> "7") @@ ("clientOrderId" :> "c")
MCSaleReplies ==
  {Order, "error-message" :> "refused", "error-message" :> "", "error" :> "no answer", <<>>}

MCStatuses ==
  {("status" :> "processing") @@ ("redirect-to" :> "https://issuer"),
   ("status" :> "processing") @@ ("amount" :> "10.42"),
   ("status" :> "approved") @@ ("amount" :> "10.42") @@ ("currency" :> "usd")
     @@ ("card-type" :> "VISA") @@ ("last-four-digits" :> "0000") @@ ("order_id" :> "c"),
   ("status" :> "Approved") @@ ("total" :> "10.42") @@ ("currency_code" :> "XTS"),
   ("status" :> "declined") @@ ("error_message" :> "no funds") @@ ("card_brand" :> "VISA"),
   ("status" :> "unknown") @@ ("bank_message" :> "") @@ ("error-message" :> "none"),
   "error" :> "no answer", <<>>}
=============================================================================
