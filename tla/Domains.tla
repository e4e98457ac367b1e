-------------------------------- MODULE Domains --------------------------------
(* The identifiers and values that the browser, the merchant's server and  *)
(* the gateway exchange.  All ids are random and never repeat, except the  *)
(* seven-digit order ids of the emulator (see Gateway).                    *)
CONSTANTS
  Docs,           \* page loads; a reload is a new one
  Tickets,        \* ephemeralTickets
  Tokens,         \* hosted_fields_tokens
  OrderIds,       \* paynet-order-ids
  ClientOrders,   \* client_orderids the server makes up, one per POST /pay
  Details,        \* what the payer's own fields may hold
  ValidDetails,   \* those that customerDetails() accepts
  None            \* an absent value: null, undefined, no entry in a Map

ASSUME DomainsAssumption ==
  /\ ValidDetails \subseteq Details
  /\ ValidDetails # {}
  /\ None \notin Docs \cup Tickets \cup Tokens \cup OrderIds \cup ClientOrders \cup Details

(* An order as a page and a callback name it. *)
OrderRef == [order: OrderIds \cup {None}, client: ClientOrders \cup {None}]
NoOrderRef == [order |-> None, client |-> None]
=============================================================================
