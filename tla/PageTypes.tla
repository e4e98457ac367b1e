------------------------------- MODULE PageTypes -------------------------------
(***************************************************************************)
(* What the three ports of the payment page have in common: the texts the  *)
(* payer types, what JavaScript's strings do with them, and the replies    *)
(* the page hears.                                                         *)
(*                                                                         *)
(* A text is a sequence of character classes: "a" and "A" stand for small  *)
(* and capital Latin letters, "sz" for a small letter whose capital is two *)
(* Latin letters (the German sharp s), "1" for anything else no name has.  *)
(***************************************************************************)
EXTENDS Naturals, SequencesExt

CONSTANTS
  NameMax,       \* NAME_MAX_LENGTH; 50 in the code
  CardNameMax,   \* CARD_NAME_MAX_LENGTH; 128 in the code
  PollsMax       \* MAX_POLLS; 45 in the code

(* A name suggested from two names that fit has to fit as well. *)
ASSUME PageAssumption ==
  /\ {NameMax, CardNameMax, PollsMax} \subseteq Nat \ {0}
  /\ 2 * NameMax + 1 <= CardNameMax

Letters == {"a", "A"}
Space == " "

Names == {"firstName", "lastName"}
FieldIds == Names \cup {"cardholderName", "email"}
EmptyCustomer == [id \in FieldIds |-> <<>>]
NoProblems == [id \in FieldIds |-> "none"]

Trim(s) ==
  LET solid == {i \in DOMAIN s: s[i] # Space}
  IN  IF solid = {} THEN <<>> ELSE SubSeq(s, Min(solid), Max(solid))

(* .replace(/\s+/g, ' '): of the spaces of a run, the first stays. *)
OneSpace(s) ==
  FlattenSeq([i \in DOMAIN s |->
                IF i > 1 /\ s[i] = Space /\ s[i - 1] = Space THEN <<>> ELSE <<s[i]>>])

Capital(c) == IF c = "a" THEN <<"A">> ELSE IF c = "sz" THEN <<"A", "A">> ELSE <<c>>
ToUpperCase(s) == FlattenSeq([i \in DOMAIN s |-> Capital(s[i])])

-----------------------------------------------------------------------------
(* Replies.  A gateway reply is a function from the names of its fields to *)
(* their values; a field that is not in its domain is undefined.           *)

Field(data, key) == IF key \in DOMAIN data THEN data[key] ELSE ""

ErrorData(message) ==
  [key \in {"status", "error-message"} |-> IF key = "status" THEN "error" ELSE message]
Processing == [status |-> "processing"]

(* The words of the code for an error of its own making. *)
NoStatusText == "The server did not return an order status."
TimeoutText == "The bank did not answer in time."
FailedText == "Failed to fetch"
EmptyResultText == "Nothing to show: open this page from a payment."

(* A word in lower and in upper case, of the words the replies hold. *)
Lower(word) == IF word = "Approved" THEN "approved" ELSE IF word = "Error" THEN "error" ELSE word
Upper(word) == IF word = "usd" THEN "USD" ELSE word

(* What sends an error of the form to the payer: the words of ERROR_COPY,  *)
(* or a message that came with a reply.                                    *)
NoError == [kind |-> "none", text |-> "none"]
Copy(kind) == [kind |-> kind, text |-> "copy"]
Said(kind, message) == [kind |-> kind, text |-> IF message = "" THEN "copy" ELSE message]

(* A panel that is not there, and one that is. *)
NoPanel == <<>>

(* The stages of a page whose fields are there: its first stage is "form". *)
UnderWay == {"tokenizing", "paying", "asking", "sleeping"}
Mounted == UnderWay \cup {"form", "over"}
=============================================================================
