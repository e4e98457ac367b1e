------------------------------ MODULE Forms_proofs ------------------------------
(***************************************************************************)
(* The three payment pages side by side, for any texts a payer types, any  *)
(* codes of the SDK and any replies: the three ports show the same and     *)
(* post the same, and the name they suggest for the card is one they       *)
(* accept.                                                                 *)
(***************************************************************************)
EXTENDS PaymentForms, FiniteSetTheorems, WellFoundedInduction, SequenceTheorems, TLAPS

-----------------------------------------------------------------------------
(* The ports have sources of their own.  What they do with a text and what *)
(* they call their errors is one and the same.                             *)

LEMMA OneTrim == ASSUME NEW s PROVE PP!Trim(s) = Trim(s) /\ NP!Trim(s) = Trim(s) /\ GP!Trim(s) = Trim(s)
<1>1. PP!Trim(s) = Trim(s)
  BY DEF PP!Trim, Trim, PP!Space, Space, PP!Min, PP!Max, Min, Max
<1>2. NP!Trim(s) = Trim(s)
  BY DEF NP!Trim, Trim, NP!Space, Space, NP!Min, NP!Max, Min, Max
<1>3. GP!Trim(s) = Trim(s)
  BY DEF GP!Trim, Trim, GP!Space, Space, GP!Min, GP!Max, Min, Max
<1> QED BY <1>1, <1>2, <1>3

LEMMA OneUpperCase ==
  ASSUME NEW s
  PROVE  /\ PP!ToUpperCase(s) = ToUpperCase(s)
         /\ NP!ToUpperCase(s) = ToUpperCase(s)
         /\ GP!ToUpperCase(s) = ToUpperCase(s)
<1>1. PP!ToUpperCase(s) = ToUpperCase(s)
  BY DEF PP!ToUpperCase, ToUpperCase, PP!Capital, Capital, PP!FlattenSeq, FlattenSeq
<1>2. NP!ToUpperCase(s) = ToUpperCase(s)
  BY DEF NP!ToUpperCase, ToUpperCase, NP!Capital, Capital, NP!FlattenSeq, FlattenSeq
<1>3. GP!ToUpperCase(s) = ToUpperCase(s)
  BY DEF GP!ToUpperCase, ToUpperCase, GP!Capital, Capital, GP!FlattenSeq, FlattenSeq
<1> QED BY <1>1, <1>2, <1>3

LEMMA OneSpacing ==
  ASSUME NEW s
  PROVE  PP!OneSpace(s) = OneSpace(s) /\ NP!OneSpace(s) = OneSpace(s) /\ GP!OneSpace(s) = OneSpace(s)
<1>1. PP!OneSpace(s) = OneSpace(s)
  BY DEF PP!OneSpace, OneSpace, PP!Space, Space, PP!FlattenSeq, FlattenSeq
<1>2. NP!OneSpace(s) = OneSpace(s)
  BY DEF NP!OneSpace, OneSpace, NP!Space, Space, NP!FlattenSeq, FlattenSeq
<1>3. GP!OneSpace(s) = OneSpace(s)
  BY DEF GP!OneSpace, OneSpace, GP!Space, Space, GP!FlattenSeq, FlattenSeq
<1> QED BY <1>1, <1>2, <1>3

LEMMA OneProblem ==
  ASSUME NEW id, NEW s
  PROVE  PP!problem(id, s) = NP!problem(id, s) /\ GP!problem(id, s) = NP!problem(id, s)
<1>1. PP!NAME_PATTERN(s) = NP!NAME_PATTERN(s) /\ GP!NAME_PATTERN(s) = NP!NAME_PATTERN(s)
  BY DEF PP!NAME_PATTERN, NP!NAME_PATTERN, GP!NAME_PATTERN, PP!Letters, NP!Letters, GP!Letters,
         PP!Space, NP!Space, GP!Space
<1>2. PP!EMAIL_PATTERN(s) = NP!EMAIL_PATTERN(s)
  BY DEF PP!EMAIL_PATTERN, NP!EMAIL_PATTERN, PP!Space, NP!Space
<1>3. GP!EMAIL_PATTERN(s) = NP!EMAIL_PATTERN(s)
  BY DEF GP!EMAIL_PATTERN, NP!EMAIL_PATTERN, GP!Space, NP!Space
<1>4. PP!CUSTOMER_FIELDS(id, s) = NP!CUSTOMER_FIELDS(id, s)
  BY <1>1, <1>2 DEF PP!CUSTOMER_FIELDS, NP!CUSTOMER_FIELDS, PP!Names, NP!Names
<1>5. GP!CUSTOMER_FIELDS(id, s) = NP!CUSTOMER_FIELDS(id, s)
  BY <1>1, <1>3 DEF GP!CUSTOMER_FIELDS, NP!CUSTOMER_FIELDS, GP!Names, NP!Names
<1> QED BY <1>4, <1>5 DEF PP!problem, NP!problem, GP!problem

LEMMA OneVocabulary ==
  /\ PP!NoError = NoError /\ NP!NoError = NoError
  /\ PP!NoPanel = <<>> /\ NP!NoPanel = <<>>
  /\ PP!Processing = Processing /\ NP!Processing = Processing
  /\ PP!FieldIds = FieldIds /\ NP!FieldIds = FieldIds
  /\ PP!Names = Names /\ NP!Names = Names
  /\ PP!NoProblems = NoProblems /\ NP!NoProblems = NoProblems
  /\ PP!EmptyCustomer = EmptyCustomer /\ NP!EmptyCustomer = EmptyCustomer
  /\ \A kind: PP!Copy(kind) = Copy(kind) /\ NP!Copy(kind) = Copy(kind)
  /\ \A kind, message: /\ PP!Said(kind, message) = Said(kind, message)
                       /\ NP!Said(kind, message) = Said(kind, message)
  /\ \A data, key: PP!Field(data, key) = Field(data, key) /\ NP!Field(data, key) = Field(data, key)
  /\ \A message: PP!ErrorData(message) = ErrorData(message) /\ NP!ErrorData(message) = ErrorData(message)
  /\ PP!TERMINAL_ERRORS = NP!TERMINAL_ERRORS
  /\ PP!FailedText = FailedText /\ NP!FailedText = FailedText
  /\ PP!TimeoutText = TimeoutText /\ NP!TimeoutText = TimeoutText
  /\ PP!NoStatusText = NoStatusText /\ NP!NoStatusText = NoStatusText
<1>1. /\ PP!NoError = NoError /\ NP!NoError = NoError
      /\ PP!NoPanel = <<>> /\ NP!NoPanel = <<>>
      /\ PP!Processing = Processing /\ NP!Processing = Processing
  BY DEF PP!NoError, NP!NoError, NoError, PP!NoPanel, NP!NoPanel, PP!Processing, NP!Processing, Processing
<1>2. /\ PP!FieldIds = FieldIds /\ NP!FieldIds = FieldIds
      /\ PP!Names = Names /\ NP!Names = Names
  BY DEF PP!FieldIds, NP!FieldIds, FieldIds, PP!Names, NP!Names, Names
<1>3. /\ PP!NoProblems = NoProblems /\ NP!NoProblems = NoProblems
      /\ PP!EmptyCustomer = EmptyCustomer /\ NP!EmptyCustomer = EmptyCustomer
  BY <1>2 DEF PP!NoProblems, NP!NoProblems, NoProblems, PP!EmptyCustomer, NP!EmptyCustomer, EmptyCustomer
<1>4. /\ \A kind: PP!Copy(kind) = Copy(kind) /\ NP!Copy(kind) = Copy(kind)
      /\ \A kind, message: /\ PP!Said(kind, message) = Said(kind, message)
                           /\ NP!Said(kind, message) = Said(kind, message)
  BY DEF PP!Copy, NP!Copy, Copy, PP!Said, NP!Said, Said
<1>5. \A data, key: PP!Field(data, key) = Field(data, key) /\ NP!Field(data, key) = Field(data, key)
  BY DEF PP!Field, NP!Field, Field
<1>6. \A message: PP!ErrorData(message) = ErrorData(message) /\ NP!ErrorData(message) = ErrorData(message)
  BY DEF PP!ErrorData, NP!ErrorData, ErrorData
<1>7. /\ PP!TERMINAL_ERRORS = NP!TERMINAL_ERRORS
      /\ PP!FailedText = FailedText /\ NP!FailedText = FailedText
      /\ PP!TimeoutText = TimeoutText /\ NP!TimeoutText = TimeoutText
      /\ PP!NoStatusText = NoStatusText /\ NP!NoStatusText = NoStatusText
  BY DEF PP!TERMINAL_ERRORS, NP!TERMINAL_ERRORS, PP!FailedText, NP!FailedText, FailedText,
         PP!TimeoutText, NP!TimeoutText, TimeoutText, PP!NoStatusText, NP!NoStatusText, NoStatusText
<1> QED BY <1>1, <1>2, <1>3, <1>4, <1>5, <1>6, <1>7

-----------------------------------------------------------------------------
(* What the payer typed, checked: validateCustomer() and customerDetails(). *)

Problems(value) == [id \in FieldIds |-> NP!problem(id, Trim(value[id]))]
Customer(value) ==
  [firstName |-> Trim(value.firstName), lastName |-> Trim(value.lastName),
   email |-> Trim(value.email), cardPrintedName |-> Trim(value.cardholderName)]
Printed(value) == OneSpace(Trim(value.firstName) \o <<Space>> \o Trim(value.lastName))

LEMMA NextChecks ==
  ASSUME NEW value
  PROVE  NP!validateCustomer(value) = [valid |-> Problems(value) = NoProblems,
                                       problems |-> Problems(value), customer |-> Customer(value)]
<1>1. [id \in NP!FieldIds |-> NP!problem(id, NP!Trim(value[id]))] = Problems(value)
  BY OneTrim, OneVocabulary DEF Problems
<1> QED BY <1>1, OneTrim, OneVocabulary DEF NP!validateCustomer, Customer

LEMMA PlainChecks ==
  ASSUME NEW p
  PROVE  PP!customerDetails(p) = [valid |-> Problems(p.value) = NoProblems,
                                  page |-> [p EXCEPT !.hint = Problems(p.value)],
                                  customer |-> Customer(p.value)]
<1>1. [id \in PP!FieldIds |-> PP!problem(id, PP!fieldValue(p, id))] = Problems(p.value)
  BY OneTrim, OneVocabulary, OneProblem DEF Problems, PP!fieldValue
<1> QED BY <1>1, OneTrim, OneVocabulary
        DEF PP!customerDetails, Customer, PP!fieldValue, PP!setFieldHint

LEMMA GoReactChecks ==
  ASSUME NEW value
  PROVE  GP!validateCustomer(value) = NP!validateCustomer(value)
<1>1. [id \in GP!FieldIds |-> GP!problem(id, GP!Trim(value[id]))]
        = [id \in NP!FieldIds |-> NP!problem(id, NP!Trim(value[id]))]
  BY OneTrim, OneProblem DEF GP!FieldIds, NP!FieldIds, GP!Names, NP!Names
<1>2. GP!NoProblems = NP!NoProblems
  BY DEF GP!NoProblems, NP!NoProblems, GP!FieldIds, NP!FieldIds, GP!Names, NP!Names
<1> QED BY <1>1, <1>2, OneTrim DEF NP!validateCustomer, GP!validateCustomer

-----------------------------------------------------------------------------
(* The ports that hold the same values post the same customer. *)

LEMMA OneSale ==
  ASSUME NEW p, NEW n
  PROVE  /\ PP!saleCustomer(p) = Customer(p.value)
         /\ NP!saleCustomer(n) = Customer(n.latest) /\ GP!saleCustomer(n) = NP!saleCustomer(n)
<1>1. PP!saleCustomer(p) = Customer(p.value)
  BY PlainChecks DEF PP!saleCustomer
<1>2. NP!saleCustomer(n) = Customer(n.latest)
  BY NextChecks DEF NP!saleCustomer
<1>3. GP!saleCustomer(n) = NP!saleCustomer(n)
  BY GoReactChecks DEF GP!saleCustomer, NP!saleCustomer
<1> QED BY <1>1, <1>2, <1>3

-----------------------------------------------------------------------------
(* The two React ports are one page: their sources differ, and what they   *)
(* do to a page does not.                                                  *)

LEMMA OneCopy ==
  /\ GP!NoError = NP!NoError /\ GP!FailedText = NP!FailedText
  /\ GP!TimeoutText = NP!TimeoutText /\ GP!NoStatusText = NP!NoStatusText
  /\ GP!FINAL_STATUSES = NP!FINAL_STATUSES
  /\ \A kind: GP!Copy(kind) = NP!Copy(kind)
  /\ \A kind, message: GP!Said(kind, message) = NP!Said(kind, message)
  /\ \A data, key: GP!Field(data, key) = NP!Field(data, key)
  /\ \A message: GP!ErrorData(message) = NP!ErrorData(message)
<1>1. \A kind: GP!Copy(kind) = NP!Copy(kind)
  BY DEF GP!Copy, NP!Copy
<1>2. \A kind, message: GP!Said(kind, message) = NP!Said(kind, message)
  BY DEF GP!Said, NP!Said
<1>3. \A data, key: GP!Field(data, key) = NP!Field(data, key)
  BY DEF GP!Field, NP!Field
<1>4. \A message: GP!ErrorData(message) = NP!ErrorData(message)
  BY DEF GP!ErrorData, NP!ErrorData
<1> QED BY <1>1, <1>2, <1>3, <1>4
        DEF GP!NoError, NP!NoError, GP!FailedText, NP!FailedText, GP!TimeoutText, NP!TimeoutText,
            GP!NoStatusText, NP!NoStatusText, GP!FINAL_STATUSES, NP!FINAL_STATUSES

LEMMA OneHook ==
  ASSUME NEW w, NEW i, NEW data, NEW o
  PROVE  /\ GP!orderEffect(w, o) = NP!orderEffect(w, o)
         /\ GP!statusReplied(w, i, data) = NP!statusReplied(w, i, data)
         /\ GP!statusLost(w, i) = NP!statusLost(w, i)
         /\ GP!timerFired(w, i) = NP!timerFired(w, i)
<1>1. GP!orderEffect(w, o) = NP!orderEffect(w, o)
  BY DEF GP!orderEffect, NP!orderEffect
<1>2. GP!statusReplied(w, i, data) = NP!statusReplied(w, i, data)
  BY OneCopy DEF GP!statusReplied, NP!statusReplied, NP!toIssuer, NP!lastTry, NP!statusMissing
<1>3. GP!statusLost(w, i) = NP!statusLost(w, i)
  BY OneCopy DEF GP!statusLost, NP!statusLost
<1>4. GP!timerFired(w, i) = NP!timerFired(w, i)
  BY DEF GP!timerFired, NP!timerFired
<1> QED BY <1>1, <1>2, <1>3, <1>4

LEMMA OneForm ==
  ASSUME NEW n
  PROVE  /\ GP!scriptFailed(n) = NP!scriptFailed(n)
         /\ GP!onReady(n) = NP!onReady(n)
         /\ GP!handleSubmit(n) = NP!handleSubmit(n)
         /\ GP!sendTokenToServer(n) = NP!sendTokenToServer(n)
         /\ GP!saleLost(n) = NP!saleLost(n)
<1>1. \A error: GP!showFormError(n, error) = NP!showFormError(n, error)
  BY DEF GP!showFormError, NP!showFormError
<1>2. GP!handleSubmit(n) = NP!handleSubmit(n)
  BY GoReactChecks, OneCopy DEF GP!handleSubmit, NP!handleSubmit
<1> QED BY <1>1, <1>2, OneCopy
        DEF GP!scriptFailed, NP!scriptFailed, GP!onReady, NP!onReady, GP!sendTokenToServer,
            NP!sendTokenToServer, GP!postSale, GP!saleLost, NP!saleLost

LEMMA OneLoading ==
  ASSUME NEW n, NEW config
  PROVE  GP!load(n, config) = NP!load(n, IF config = "lost" THEN "none" ELSE config)
<1>1. \A m, error: GP!showFormError(m, error) = NP!showFormError(m, error)
  BY DEF GP!showFormError, NP!showFormError
<1>2. \A m, ticket: GP!sdkEffect(m, ticket) = NP!sdkEffect(m, ticket)
  BY <1>1, OneCopy DEF GP!sdkEffect, NP!sdkEffect
<1> QED BY <1>2 DEF GP!load, NP!load, GP!checkoutConfig

LEMMA OneKeyboard ==
  ASSUME NEW n, NEW id, NEW text
  PROVE  GP!typed(n, id, text) = NP!typed(n, id, text) /\ GP!filledIn(n, id, text) = NP!filledIn(n, id, text)
<1>1. \A v: GP!cardPrintedName(v) = NP!cardPrintedName(v)
  BY OneTrim, OneSpacing DEF GP!cardPrintedName, NP!cardPrintedName, GP!Space, NP!Space
<1>2. GP!editName(n, id, text) = NP!editName(n, id, text)
  BY <1>1, OneUpperCase DEF GP!editName, NP!editName
<1>3. GP!editCardholder(n, text) = NP!editCardholder(n, text)
  BY OneUpperCase DEF GP!editCardholder, NP!editCardholder
<1>4. GP!editEmail(n, text) = NP!editEmail(n, text)
  BY DEF GP!editEmail, NP!editEmail
<1> QED BY <1>2, <1>3, <1>4 
        DEF GP!typed, NP!typed, GP!filledIn, NP!filledIn, GP!onChange, NP!onChange, GP!rendered,
            NP!rendered, GP!Names, NP!Names

LEMMA OneAnswer ==
  ASSUME NEW n, NEW code, NEW message, NEW sale
  PROVE  /\ GP!showError(n, code, message) = NP!showError(n, code, message)
         /\ GP!saleReplied(n, sale) = NP!saleReplied(n, sale)
<1>1. GP!showError(n, code, message) = NP!showError(n, code, message)
  BY DEF GP!showError, NP!showError, GP!showFormError, NP!showFormError, GP!Copy, NP!Copy, GP!Said, NP!Said
<1>2. GP!saleReplied(n, sale) = NP!saleReplied(n, sale)
  BY DEF GP!saleReplied, NP!saleReplied, GP!showFormError, NP!showFormError, GP!Said, NP!Said,
         GP!Field, NP!Field, GP!followOrder, NP!followOrder, GP!orderEffect, NP!orderEffect
<1> QED BY <1>1, <1>2

LEMMA OnePanel == ASSUME NEW data PROVE GP!StatusPanel(data) = NP!StatusPanel(data)
<1>1. GP!STATUS_ROWS(data) = NP!STATUS_ROWS(data)
  BY DEF GP!STATUS_ROWS, NP!STATUS_ROWS, GP!statusAmount, NP!statusAmount, GP!statusCard, NP!statusCard,
         GP!statusPick, NP!statusPick, GP!Word, NP!Word, GP!Upper, NP!Upper, GP!Field, NP!Field,
         GP!Min, NP!Min
<1>2. \A rows: SelectSeq(rows, GP!HasValue) = SelectSeq(rows, NP!HasValue)
  BY DEF GP!HasValue, NP!HasValue
<1> QED BY <1>1, <1>2 DEF GP!StatusPanel, NP!StatusPanel, GP!Lower, NP!Lower,
                          GP!STATUS_COPY, NP!STATUS_COPY, GP!FINAL_STATUSES, NP!FINAL_STATUSES

LEMMA OneView == ASSUME NEW n PROVE GP!view(n) = NP!view(n) /\ GP!stands(n) = NP!stands(n)
<1>1. GP!terminal(n) = NP!terminal(n) /\ GP!TERMINAL_ERRORS = NP!TERMINAL_ERRORS
  BY DEF GP!terminal, NP!terminal, GP!TERMINAL_ERRORS, NP!TERMINAL_ERRORS
<1>2. GP!label(n) = NP!label(n) /\ GP!disabled(n) = NP!disabled(n)
  BY <1>1 DEF GP!label, NP!label, GP!disabled, NP!disabled
<1>3. GP!panel(n) = NP!panel(n)
  BY OnePanel DEF GP!panel, NP!panel, GP!NoOrder, NP!NoOrder, GP!NoPanel, NP!NoPanel,
                  GP!Processing, NP!Processing
<1>4. GP!stands(n) = NP!stands(n)
  BY DEF GP!stands, NP!stands
<1> QED BY <1>2, <1>3, <1>4 DEF GP!view, NP!view

LEMMA OneStart == GP!CheckoutForm = NP!CheckoutForm
<1>1. GP!EmptyCustomer = NP!EmptyCustomer /\ GP!NoProblems = NP!NoProblems
  BY DEF GP!EmptyCustomer, NP!EmptyCustomer, GP!NoProblems, NP!NoProblems, GP!FieldIds, NP!FieldIds,
         GP!Names, NP!Names
<1>2. GP!NoWatch = NP!NoWatch /\ GP!NoOrder = NP!NoOrder
  BY DEF GP!NoWatch, NP!NoWatch, GP!NoOrder, NP!NoOrder
<1> QED BY <1>1, <1>2, OneCopy DEF GP!CheckoutForm, NP!CheckoutForm

(* The panel of the plain page, for data with a status or none: only an    *)
(* empty status is taken for two different words.                          *)
LEMMA PlainPanel ==
  ASSUME NEW data, Field(data, "status") # "" \/ "status" \notin DOMAIN data
  PROVE  PP!shown(data) = NP!StatusPanel(data)
<1>1. PP!STATUS_ROWS(data) = NP!STATUS_ROWS(data)
  BY DEF PP!STATUS_ROWS, NP!STATUS_ROWS, PP!statusAmount, NP!statusAmount, PP!statusCard, NP!statusCard,
         PP!statusPick, NP!statusPick, PP!Word, NP!Word, PP!Upper, NP!Upper, PP!Field, NP!Field,
         PP!Min, NP!Min
<1>2. \A rows: SelectSeq(rows, PP!HasValue) = SelectSeq(rows, NP!HasValue)
  BY DEF PP!HasValue, NP!HasValue
<1>3. (IF PP!Field(data, "status") = "" THEN "processing" ELSE data["status"])
        = IF "status" \in DOMAIN data THEN data["status"] ELSE "processing"
  BY DEF PP!Field, Field
<1> QED BY <1>1, <1>2, <1>3 DEF PP!shown, NP!StatusPanel, PP!Lower, NP!Lower,
                                PP!STATUS_COPY, NP!STATUS_COPY, PP!FINAL_STATUSES, NP!FINAL_STATUSES

(* Following an order: the state of the hook, with the one run of its      *)
(* effect that the form needs.                                             *)
Yes == TRUE   \* by name, as the provers want it in a record

Hook(polled, redirected, left, run) ==
  [polled |-> polled, redirected |-> redirected, left |-> left, runs |-> <<run>>]
Run(attempts, at) == [active |-> Yes, attempts |-> attempts, at |-> at]

LEMMA RunFields ==
  ASSUME NEW attempts, NEW at
  PROVE  /\ Run(attempts, at).active = Yes
         /\ Run(attempts, at).attempts = attempts
         /\ Run(attempts, at).at = at
BY DEF Run

LEMMA HookFields ==
  ASSUME NEW polled, NEW redirected, NEW left, NEW run
  PROVE  /\ Hook(polled, redirected, left, run).polled = polled
         /\ Hook(polled, redirected, left, run).redirected = redirected
         /\ Hook(polled, redirected, left, run).left = left
         /\ Hook(polled, redirected, left, run).runs = <<run>>
BY DEF Hook

LEMMA HookSays ==
  ASSUME NEW polled, NEW redirected, NEW left, NEW run, NEW said
  PROVE  [Hook(polled, redirected, left, run) EXCEPT !.polled = said]
           = Hook(said, redirected, left, run)
BY DEF Hook

(* What each of its events makes of it. *)
Heard(data, redirected, attempts) ==
  LET status == Field(data, "status")
      message == IF Field(data, "error") = "" THEN NoStatusText ELSE data["error"]
      over == Run(attempts, "over")
  IN  IF status = "" THEN Hook(<<ErrorData(message)>>, redirected, 0, over)
      ELSE IF Field(data, "redirect-to") # "" /\ ~redirected THEN Hook(<<data>>, Yes, 1, over)
      ELSE IF status \in NP!FINAL_STATUSES THEN Hook(<<data>>, redirected, 0, over)
      ELSE IF attempts >= PollsMax THEN Hook(<<ErrorData(TimeoutText)>>, redirected, 0, over)
      ELSE Hook(<<data>>, redirected, 0, Run(attempts, "sleeping"))

LEMMA HookHears ==
  ASSUME NEW polled, NEW redirected, NEW attempts, NEW data
  PROVE  NP!statusReplied(Hook(polled, redirected, 0, Run(attempts, "asking")), 1, data)
           = Heard(data, redirected, attempts)
<1> DEFINE run == Run(attempts, "asking")
           h == Hook(polled, redirected, 0, run)
           over == Run(attempts, "over")
           done == [h EXCEPT !.runs[1].at = "over"]
           leaves == [done EXCEPT !.polled = <<data>>, !.redirected = TRUE, !.left = @ + 1]
           waits == [h EXCEPT !.polled = <<data>>, !.runs[1].at = "sleeping"]
           status == NP!Field(data, "status")
<1>1. done = Hook(polled, redirected, 0, over)
  <2>1. done = Hook(polled, redirected, 0, [run EXCEPT !.at = "over"])
    <3> HIDE DEF run
    <3> QED BY DEF Hook
  <2>2. [run EXCEPT !.at = "over"] = over
    BY DEF Run
  <2> HIDE DEF done, run, over
  <2> QED BY <2>1, <2>2
<1>2. \A said: [done EXCEPT !.polled = said] = Hook(said, redirected, 0, over)
  <2> HIDE DEF done, over
  <2> QED BY <1>1, HookSays
<1>3. leaves = Hook(<<data>>, Yes, 1, over)
  <2>1. leaves = [Hook(polled, redirected, 0, over) EXCEPT !.polled = <<data>>, !.redirected = Yes, !.left = @ + 1]
    <3> HIDE DEF done, over
    <3> QED BY <1>1 DEF Yes
  <2> HIDE DEF over
  <2>2. 0 + 1 = 1
    OBVIOUS
  <2>3. [Hook(polled, redirected, 0, over) EXCEPT !.polled = <<data>>, !.redirected = Yes, !.left = @ + 1]
          = Hook(<<data>>, Yes, 0 + 1, over)
    <3>1. [Hook(polled, redirected, 0, over) EXCEPT !.polled = <<data>>] = Hook(<<data>>, redirected, 0, over)
      BY HookSays
    <3>2. [Hook(<<data>>, redirected, 0, over) EXCEPT !.redirected = Yes] = Hook(<<data>>, Yes, 0, over)
      BY DEF Hook
    <3>3. [Hook(<<data>>, Yes, 0, over) EXCEPT !.left = @ + 1] = Hook(<<data>>, Yes, 0 + 1, over)
      BY DEF Hook
    <3> QED BY <3>1, <3>2, <3>3
  <2> HIDE DEF leaves
  <2> QED BY <2>1, <2>2, <2>3
<1>4. waits = Hook(<<data>>, redirected, 0, Run(attempts, "sleeping"))
  <2>1. waits = [Hook(<<data>>, redirected, 0, run) EXCEPT !.runs[1].at = "sleeping"]
    <3> HIDE DEF run
    <3>1. [h EXCEPT !.polled = <<data>>] = Hook(<<data>>, redirected, 0, run)
      BY HookSays
    <3> HIDE DEF h
    <3> QED BY <3>1
  <2>2. waits = Hook(<<data>>, redirected, 0, [run EXCEPT !.at = "sleeping"])
    <3>1. [Hook(<<data>>, redirected, 0, run) EXCEPT !.runs[1].at = "sleeping"]
            = Hook(<<data>>, redirected, 0, [run EXCEPT !.at = "sleeping"])
      <4> HIDE DEF run
      <4> QED BY DEF Hook
    <3> HIDE DEF waits
    <3> QED BY <2>1, <3>1
  <2>3. [run EXCEPT !.at = "sleeping"] = Run(attempts, "sleeping")
    BY DEF Run
  <2> HIDE DEF waits, run
  <2> QED BY <2>2, <2>3
<1>5. h.runs[1] = run /\ h.redirected = redirected
  <2> HIDE DEF run
  <2> QED BY HookFields
<1>6. run.active = Yes /\ run.attempts = attempts
  BY RunFields
<1>7. NP!statusReplied(h, 1, data) =
        IF ~h.runs[1].active THEN done
        ELSE IF status = "" THEN NP!statusMissing(done, data)
        ELSE IF NP!toIssuer(h, data) THEN leaves
        ELSE IF status \in NP!FINAL_STATUSES THEN [done EXCEPT !.polled = <<data>>]
        ELSE IF NP!lastTry(h.runs[1]) THEN [done EXCEPT !.polled = <<NP!ErrorData(NP!TimeoutText)>>]
        ELSE waits
  BY DEF NP!statusReplied
<1> HIDE DEF done, leaves, waits, h, run, over, status
<1>8. NP!statusReplied(h, 1, data) = Heard(data, redirected, attempts)
  BY <1>2, <1>3, <1>4, <1>5, <1>6, <1>7, OneVocabulary
  DEF Heard, Yes, NP!statusMissing, NP!toIssuer, NP!lastTry, status, over
<1> QED BY <1>8 DEF h, run

LEMMA HookLoses ==
  ASSUME NEW polled, NEW redirected, NEW attempts
  PROVE  NP!statusLost(Hook(polled, redirected, 0, Run(attempts, "asking")), 1)
             = Hook(<<NP!ErrorData(NP!FailedText)>>, redirected, 0, Run(attempts, "over"))
<1> DEFINE run == Run(attempts, "asking")
           h == Hook(polled, redirected, 0, run)
           over == Run(attempts, "over")
           done == [h EXCEPT !.runs[1].at = "over"]
<1>1. done = Hook(polled, redirected, 0, over)
  <2>1. done = Hook(polled, redirected, 0, [run EXCEPT !.at = "over"])
    <3> HIDE DEF run
    <3> QED BY DEF Hook
  <2>2. [run EXCEPT !.at = "over"] = over
    BY DEF Run
  <2> HIDE DEF done, run, over
  <2> QED BY <2>1, <2>2
<1>2. \A said: [done EXCEPT !.polled = said] = Hook(said, redirected, 0, over)
  <2> HIDE DEF done, over
  <2> QED BY <1>1, HookSays
<1>3. h.runs[1] = run
  <2> HIDE DEF run
  <2> QED BY HookFields
<1>4. run.active = Yes
  BY RunFields
<1>5. NP!statusLost(h, 1) =
        IF h.runs[1].active THEN [done EXCEPT !.polled = <<NP!ErrorData(NP!FailedText)>>] ELSE done
  BY DEF NP!statusLost
<1>6. NP!statusLost(h, 1) = Hook(<<NP!ErrorData(NP!FailedText)>>, redirected, 0, over)
  <2> HIDE DEF done, h, run, over
  <2> QED BY <1>2, <1>3, <1>4, <1>5 DEF Yes
<1> QED BY <1>6

LEMMA HookWakes ==
  ASSUME NEW polled, NEW redirected, NEW attempts
  PROVE  NP!timerFired(Hook(polled, redirected, 0, Run(attempts, "sleeping")), 1)
           = Hook(polled, redirected, 0, Run(attempts + 1, "asking"))
<1> DEFINE run == Run(attempts, "sleeping")
           h == Hook(polled, redirected, 0, run)
           wakes == [run EXCEPT !.at = "asking", !.attempts = @ + 1]
<1>1. NP!timerFired(h, 1) = Hook(polled, redirected, 0, wakes)
  <2>1. h.runs = <<run>>
    <3> HIDE DEF run
    <3> QED BY HookFields
  <2>2. NP!timerFired(h, 1) = [h EXCEPT !.runs = [<<run>> EXCEPT ![1].at = "asking", ![1].attempts = @ + 1]]
    <3> HIDE DEF run
    <3> QED BY <2>1 DEF NP!timerFired, Hook
  <2>3. [<<run>> EXCEPT ![1].at = "asking", ![1].attempts = @ + 1] = <<wakes>>
    <3> HIDE DEF run
    <3> QED OBVIOUS
  <2> HIDE DEF run
  <2> QED BY <2>2, <2>3 DEF Hook
<1>2. wakes = Run(attempts + 1, "asking")
  <2>1. run = [active |-> Yes, attempts |-> attempts, at |-> "sleeping"]
    BY DEF Run
  <2>2. PICK more : more = attempts + 1
    OBVIOUS
  <2>3. PICK awake : awake = [run EXCEPT !.at = "asking", !.attempts = more]
    OBVIOUS
  <2>4. wakes = awake
    <3>1. run.attempts = attempts
      BY <2>1
    <3> HIDE DEF run
    <3> QED BY <2>2, <2>3, <3>1
  <2> HIDE DEF run, wakes
  <2>5. awake = [active |-> awake.active, attempts |-> awake.attempts, at |-> awake.at]
    BY <2>1, <2>3
  <2>6. awake.active = Yes /\ awake.attempts = more /\ awake.at = "asking"
    BY <2>1, <2>3
  <2> QED BY <2>2, <2>4, <2>5, <2>6 DEF Run
<1> QED BY <1>1, <1>2

-----------------------------------------------------------------------------
(* The invariant.  The React pages are one; the plain page `p` and a React *)
(* page `n` are at the same stage, unless its settings were lost.          *)

IsPlain(p) ==
  p = [value |-> p.value, hint |-> p.hint, touched |-> p.touched, label |-> p.label,
       disabled |-> p.disabled, error |-> p.error, panel |-> p.panel, at |-> p.at,
       attempts |-> p.attempts, redirected |-> p.redirected]
IsReact(n) ==
  n = [value |-> n.value, latest |-> n.latest, problems |-> n.problems, touched |-> n.touched, ready |-> n.ready,
       formError |-> n.formError, inFlight |-> n.inFlight, order |-> n.order,
       started |-> n.started, watch |-> n.watch, at |-> n.at]

(* A payer's own fields, with the same words about them. *)
SameFields(p, n, l) ==
  /\ p.value = [id \in FieldIds |-> p.value[id]]
  /\ p.value = n.value /\ n.latest = n.value /\ p.touched = n.touched /\ p.error = n.formError
  /\ l \/ p.hint = n.problems

Unpaid(p, n) ==
  /\ n.order = <<>> /\ n.watch = NP!NoWatch /\ n.at = p.at
  /\ p.attempts = 0 /\ p.redirected = FALSE

Loading(p, n) ==
  /\ p.at \in {"new", "script"} /\ Unpaid(p, n)
  /\ n.ready = FALSE /\ n.inFlight = FALSE /\ n.formError = NoError
  /\ p.at = "new" => n.started = FALSE
  /\ p.label = "preparing" /\ p.disabled = TRUE /\ p.panel = <<>>

Unavailable(p, n) ==
  /\ p.at = "unusable" /\ Unpaid(p, n)
  /\ n.ready = FALSE /\ n.inFlight = FALSE /\ n.formError = Copy("unavailable")
  /\ p.label = "reload" /\ p.disabled = TRUE /\ p.panel = <<>>

Dead(error) == error.kind \in DOMAIN NP!TERMINAL_ERRORS

Filling(p, n) ==
  /\ p.at = "form" /\ Unpaid(p, n)
  /\ n.ready = TRUE /\ n.inFlight = FALSE
  /\ p.disabled = Dead(n.formError)
  /\ p.label = IF Dead(n.formError) THEN NP!TERMINAL_ERRORS[n.formError.kind] ELSE "pay"
  /\ p.panel = <<>>

InFlight(p, n) ==
  /\ n.ready = TRUE /\ n.inFlight = TRUE /\ n.formError = NoError
  /\ p.label = "processing" /\ p.disabled = TRUE

(* What is tokenized for was checked, until a field is edited. *)
Paying(p, n, l) ==
  /\ p.at \in {"tokenizing", "paying"} /\ Unpaid(p, n) /\ InFlight(p, n)
  /\ p.panel = <<NP!StatusPanel(Processing)>>
  /\ p.at = "tokenizing" => l \/ Problems(n.value) = n.problems

(* One run of the effect is all the form needs, and counts as the loop of  *)
(* the plain page does.                                                    *)
Waiting(p, n) ==
  /\ n.at = "order" /\ n.order # <<>> /\ InFlight(p, n)
  /\ n.watch = Hook(n.watch.polled, p.redirected, n.watch.left,
                    Run(p.attempts, n.watch.runs[1].at))
  /\ n.watch.left \in Nat
  /\ p.at = IF n.watch.left > 0 THEN "sent" ELSE n.watch.runs[1].at
  /\ p.at \in {"asking", "sleeping", "over", "sent"}
  /\ p.panel = <<NP!StatusPanel(IF n.watch.polled = <<>> THEN Processing ELSE n.watch.polled[1])>>

Together(p, n, l) ==
  /\ IsPlain(p) /\ IsReact(n) /\ SameFields(p, n, l)
  /\ Loading(p, n) \/ Unavailable(p, n) \/ Filling(p, n) \/ Paying(p, n, l) \/ Waiting(p, n)

WithoutSettings(p, n) == p.at = "unusable" /\ p.label = "preparing" /\ NP!stands(n) = "unusable"

(* The plain page, `q`, is what it were had no field been loaded again,    *)
(* `p`, or that with a live button.                                        *)
Livened(p, q) ==
  /\ IsPlain(p) /\ IsPlain(q) /\ q.disabled = FALSE /\ q.label = "pay"
  /\ q.value = p.value /\ q.hint = p.hint /\ q.touched = p.touched /\ q.error = p.error
  /\ q.panel = p.panel /\ q.at = p.at /\ q.attempts = p.attempts /\ q.redirected = p.redirected
Early == {"new", "script", "unusable"}
Wears(p, q, r) == q = p \/ (r /\ p.at \notin Early /\ Livened(p, q))

SideBySide(q, n, l, r) ==
  WithoutSettings(q, n) \/ \E p: Together(p, n, l) /\ Wears(p, q, r)

FormsInv ==
  /\ goreact = next
  /\ sent[2] = sent[3]
  /\ silent \/ apart \/ (sent[1] = sent[2] /\ SideBySide(plain, next, late, reloaded))

LEMMA StageAt ==
  ASSUME NEW p, NEW n, NEW l, Together(p, n, l)
  PROVE  /\ p.at \in {"new", "script"} => Loading(p, n)
         /\ p.at = "form" => Filling(p, n)
         /\ p.at \in {"tokenizing", "paying"} => Paying(p, n, l)
         /\ p.at \in {"asking", "sleeping", "sent", "over"} => Waiting(p, n)
         /\ Waiting(p, n) => p.at \in {"asking", "sleeping", "sent", "over"}
BY DEF Together, Loading, Unavailable, Filling, Paying, Waiting

LEMMA LooksTheSame ==
  ASSUME NEW p, NEW n, NEW l, Together(p, n, l)
  PROVE  /\ p.at = NP!stands(n) /\ p.label = NP!label(n)
         /\ p.disabled = NP!disabled(n) /\ p.panel = NP!panel(n)
<1> USE OneVocabulary DEF NP!stands, NP!label, NP!disabled, NP!panel, NP!terminal, NP!NoOrder
<1>1. /\ ~(NoError.kind \in DOMAIN NP!TERMINAL_ERRORS)
      /\ Copy("unavailable").kind \in DOMAIN NP!TERMINAL_ERRORS
      /\ NP!TERMINAL_ERRORS[Copy("unavailable").kind] = "reload"
  BY DEF NoError, Copy, NP!TERMINAL_ERRORS
<1>2. CASE Loading(p, n)
  BY <1>1, <1>2 DEF Loading, Unpaid
<1>3. CASE Unavailable(p, n)
  BY <1>1, <1>3 DEF Unavailable, Unpaid
<1>4. CASE Filling(p, n)
  <2>1. p.at = NP!stands(n) /\ p.panel = NP!panel(n) /\ p.label = NP!label(n)
    BY <1>1, <1>4 DEF Filling, Unpaid, Dead
  <2>2. p.disabled = NP!disabled(n)
    BY <1>4 DEF Filling, Dead
  <2> QED BY <2>1, <2>2
<1>5. CASE Paying(p, n, l)
  BY <1>1, <1>5 DEF Paying, Unpaid, InFlight
<1>6. CASE Waiting(p, n)
  <2>1. n.watch.runs # <<>> /\ Len(n.watch.runs) = 1
    <3>1. PICK run : n.watch.runs = <<run>>
      BY <1>6, HookFields DEF Waiting
    <3> QED BY <3>1
  <2>2. p.at = NP!stands(n)
    BY <1>6, <2>1 DEF Waiting
  <2>3. p.panel = NP!panel(n)
    BY <1>6 DEF Waiting
  <2>4. p.label = NP!label(n) /\ p.disabled = NP!disabled(n)
    BY <1>1, <1>6 DEF Waiting, InFlight
  <2> QED BY <2>2, <2>3, <2>4
<1> QED BY <1>2, <1>3, <1>4, <1>5, <1>6 DEF Together

-----------------------------------------------------------------------------
(* One event, and what the plain page and a React page make of it. *)

LEMMA LoadKeeps ==
  ASSUME NEW p, NEW n, NEW l, Together(p, n, l), p.at = "new",
         NEW config \in {"ticket", "none", "lost"}
  PROVE  LET q == PP!load(p, config)
             m == NP!load(n, IF config = "lost" THEN "none" ELSE config)
         IN  WithoutSettings(q, m) \/ Together(q, m, l)
<1> DEFINE q == PP!load(p, config)
           m == NP!load(n, IF config = "lost" THEN "none" ELSE config)
<1>1. Loading(p, n) /\ IsPlain(p) /\ IsReact(n) /\ SameFields(p, n, l)
  BY StageAt DEF Together
<1>2. n.started = FALSE
  BY <1>1 DEF Loading
<1>3. CASE config = "ticket"
  <2>1. q = [p EXCEPT !.at = "script"]
    BY <1>3 DEF PP!load
  <2>2. m = [n EXCEPT !.started = TRUE, !.at = "script"]
    BY <1>1, <1>2, <1>3 DEF NP!load, NP!sdkEffect, IsReact
  <2>3. IsPlain(q) /\ IsReact(m) /\ SameFields(q, m, l)
    BY <1>1, <2>1, <2>2 DEF IsPlain, IsReact, SameFields
  <2>4. Loading(q, m)
    BY <1>1, <2>1, <2>2 DEF IsPlain, IsReact, Loading, Unpaid
  <2> QED BY <2>3, <2>4 DEF Together
<1>4. CASE config # "ticket"
  <2> DEFINE error == Copy("unavailable")
  <2>1. m = [n EXCEPT !.started = TRUE, !.formError = error, !.inFlight = FALSE, !.at = "unusable"]
    <3>1. NP!sdkEffect(n, FALSE)
            = [n EXCEPT !.started = TRUE, !.formError = error, !.inFlight = FALSE, !.at = "unusable"]
      BY <1>1, <1>2, OneVocabulary DEF NP!sdkEffect, NP!showFormError, IsReact
    <3>2. NP!sdkEffect(n, FALSE).started = TRUE
      BY <1>1, <3>1 DEF IsReact
    <3>3. NP!sdkEffect(NP!sdkEffect(n, FALSE), FALSE) = NP!sdkEffect(n, FALSE)
      BY <3>2 DEF NP!sdkEffect
    <3> QED BY <1>4, <3>1, <3>3 DEF NP!load
  <2>2. CASE config = "none"
    <3>1. q = [p EXCEPT !.error = error, !.disabled = TRUE, !.label = "reload", !.at = "unusable"]
      BY <1>1, <2>2, OneVocabulary
      DEF PP!load, PP!showFormError, IsPlain, Copy, NP!TERMINAL_ERRORS
    <3>2. IsPlain(q) /\ IsReact(m) /\ SameFields(q, m, l)
      <4> HIDE DEF q, m, error
      <4> QED BY <1>1, <2>1, <3>1 DEF IsPlain, IsReact, SameFields
    <3>3. Unavailable(q, m)
      <4> HIDE DEF q, m
      <4> QED BY <1>1, <2>1, <3>1 DEF IsPlain, IsReact, Loading, Unavailable, Unpaid
    <3> QED BY <3>2, <3>3 DEF Together
  <2>3. CASE config = "lost"
    <3>1. q = [p EXCEPT !.at = "unusable"]
      BY <2>3 DEF PP!load
    <3>2. m.at = "unusable"
      BY <1>1, <2>1 DEF IsReact
    <3>3. WithoutSettings(q, m)
      BY <1>1, <3>1, <3>2 DEF IsPlain, Loading, WithoutSettings, NP!stands
    <3> QED BY <3>3
  <2> QED BY <1>4, <2>2, <2>3
<1> QED BY <1>3, <1>4

LEMMA ScriptFailureKeeps ==
  ASSUME NEW p, NEW n, NEW l, Together(p, n, l), p.at = "script"
  PROVE  Together(PP!scriptFailed(p), NP!scriptFailed(n), l)
<1> DEFINE q == PP!scriptFailed(p)
           m == NP!scriptFailed(n)
           error == Copy("unavailable")
<1>1. Loading(p, n) /\ IsPlain(p) /\ IsReact(n) /\ SameFields(p, n, l)
  BY StageAt DEF Together
<1>2. q = [p EXCEPT !.error = error, !.disabled = TRUE, !.label = "reload", !.at = "unusable"]
  BY <1>1, OneVocabulary DEF PP!scriptFailed, PP!showFormError, IsPlain, Copy, NP!TERMINAL_ERRORS
<1>3. m = [n EXCEPT !.formError = error, !.inFlight = FALSE, !.at = "unusable"]
  BY <1>1, OneVocabulary DEF NP!scriptFailed, NP!showFormError, IsReact
<1> HIDE DEF q, m, error
<1>4. IsPlain(q) /\ IsReact(m) /\ SameFields(q, m, l)
  BY <1>1, <1>2, <1>3 DEF IsPlain, IsReact, SameFields
<1>5. Unavailable(q, m)
  BY <1>1, <1>2, <1>3 DEF IsPlain, IsReact, Loading, Unavailable, Unpaid, error
<1>6. Together(q, m, l)
  BY <1>4, <1>5 DEF Together
<1> QED BY <1>6 DEF q, m

LEMMA ReadyKeeps ==
  ASSUME NEW p, NEW n, NEW l, Together(p, n, l), p.at = "script"
  PROVE  Together(PP!onReady(p), NP!onReady(n), l)
<1> DEFINE q == PP!onReady(p)
           m == NP!onReady(n)
<1>1. Loading(p, n) /\ IsPlain(p) /\ IsReact(n) /\ SameFields(p, n, l)
  BY StageAt DEF Together
<1>2. q = [p EXCEPT !.disabled = FALSE, !.label = "pay", !.at = "form"]
  BY <1>1 DEF PP!onReady, PP!setFormLoading, IsPlain
<1>3. m = [n EXCEPT !.ready = TRUE, !.at = "form"]
  BY <1>1 DEF NP!onReady, Loading, Unpaid
<1>4. IsPlain(q) /\ IsReact(m) /\ SameFields(q, m, l)
  BY <1>1, <1>2, <1>3 DEF IsPlain, IsReact, SameFields
<1>5. ~Dead(NoError)
  BY DEF Dead, NoError, NP!TERMINAL_ERRORS
<1>6. m.formError = NoError /\ q.disabled = FALSE /\ q.label = "pay"
  BY <1>1, <1>2, <1>3 DEF IsPlain, IsReact, Loading
<1>7. Unpaid(q, m) /\ m.ready = TRUE /\ m.inFlight = FALSE /\ q.panel = <<>> /\ q.at = "form"
  BY <1>1, <1>2, <1>3 DEF IsPlain, IsReact, Loading, Unpaid
<1>8. Filling(q, m)
  <2> HIDE DEF q, m
  <2>1. Dead(m.formError) = FALSE
    BY <1>5, <1>6 DEF Dead
  <2> QED BY <1>6, <1>7, <2>1 DEF Filling
<1> QED BY <1>4, <1>8 DEF Together

(* A value typed into a field comes out of each page as it went in. *)
Entered(p, id, text) ==
  CASE id = "cardholderName" -> [p.value EXCEPT ![id] = ToUpperCase(text)]
    [] id \in Names /\ ~p.touched ->
         LET value == [p.value EXCEPT ![id] = text]
         IN  [value EXCEPT !["cardholderName"] = ToUpperCase(Printed(value))]
    [] id = "email" \/ (id \in Names /\ p.touched) -> [p.value EXCEPT ![id] = text]
Touches(p, id) == IF id = "cardholderName" THEN TRUE ELSE p.touched

LEMMA EnteredFills ==
  ASSUME NEW p, NEW id \in FieldIds, NEW text, p.value = [f \in FieldIds |-> p.value[f]]
  PROVE  Entered(p, id, text) = [f \in FieldIds |-> Entered(p, id, text)[f]]
<1> DEFINE value == [p.value EXCEPT ![id] = text]
<1>1. PICK other :
        \/ Entered(p, id, text) = [p.value EXCEPT ![id] = other]
        \/ Entered(p, id, text) = [value EXCEPT !["cardholderName"] = other]
  <2>1. CASE id = "cardholderName"
    BY <2>1 DEF Entered, Names
  <2>2. CASE id \in Names /\ ~p.touched
    BY <2>2 DEF Entered, Names
  <2>3. CASE id = "email" \/ (id \in Names /\ p.touched)
    BY <2>3 DEF Entered, Names
  <2> QED BY <2>1, <2>2, <2>3 DEF FieldIds
<1> QED BY <1>1

LEMMA PlainTyped ==
  ASSUME NEW p, NEW id \in FieldIds, NEW text,
         IsPlain(p), p.value = [f \in FieldIds |-> p.value[f]]
  PROVE  PP!typed(p, id, text) = [p EXCEPT !.value = Entered(p, id, text), !.touched = Touches(p, id)]
<1> DEFINE q == [p EXCEPT !.value[id] = text]
           value == [p.value EXCEPT ![id] = text]
<1>1. q = [p EXCEPT !.value = value]
  BY DEF IsPlain
<1>2. q.value = value /\ q.touched = p.touched
  BY <1>1 DEF IsPlain
<1>3. CASE id = "cardholderName"
  <2>1. PP!typed(p, id, text)
          = [[p EXCEPT !.value = value, !.touched = TRUE] EXCEPT !.value["cardholderName"] = ToUpperCase(@)]
    <3>1. [q EXCEPT !.touched = TRUE] = [p EXCEPT !.value = value, !.touched = TRUE]
      BY <1>1 DEF IsPlain
    <3>2. PP!typed(p, id, text) = PP!upperCaseCardholderName([q EXCEPT !.touched = TRUE])
      BY <1>3, OneVocabulary DEF PP!typed, Names
    <3> QED BY <3>1, <3>2, OneUpperCase DEF PP!upperCaseCardholderName
  <2>2. [p EXCEPT !.value = value, !.touched = TRUE].value = value
    BY DEF IsPlain
  <2>3. value[id] = text
    BY DEF FieldIds, Names
  <2>4. PP!typed(p, id, text)
          = [[p EXCEPT !.value = value, !.touched = TRUE]
               EXCEPT !.value = [value EXCEPT !["cardholderName"] = ToUpperCase(text)]]
    <3> HIDE DEF value
    <3> QED BY <1>3, <2>1, <2>2, <2>3
  <2>5. [value EXCEPT !["cardholderName"] = ToUpperCase(text)] = Entered(p, id, text)
    BY <1>3 DEF Entered, Names
  <2>6. Touches(p, id) = TRUE
    BY <1>3 DEF Touches
  <2> HIDE DEF value
  <2> QED BY <2>4, <2>5, <2>6 DEF IsPlain
<1>4. CASE id \in Names
  <2>1. id # "cardholderName" /\ id # "email" /\ Touches(p, id) = p.touched
    BY <1>4 DEF Names, Touches
  <2>2. PP!typed(p, id, text) = PP!syncCardholderName(q)
    BY <1>4, <2>1, OneVocabulary DEF PP!typed
  <2>3. PP!cardPrintedName(q) = Printed(value)
    BY <1>2, OneTrim, OneSpacing DEF PP!cardPrintedName, PP!fieldValue, Printed, PP!Space, Space
  <2>4. CASE p.touched
    <3>1. PP!syncCardholderName(q) = q /\ Entered(p, id, text) = value
      BY <1>2, <1>4, <2>1, <2>4 DEF PP!syncCardholderName, Entered
    <3> HIDE DEF value
    <3> QED BY <1>1, <2>1, <2>2, <3>1 DEF IsPlain
  <2>5. CASE ~p.touched
    <3> DEFINE printed == [value EXCEPT !["cardholderName"] = ToUpperCase(Printed(value))]
    <3>1. Entered(p, id, text) = printed
      BY <1>4, <2>1, <2>5 DEF Entered
    <3>2. PP!syncCardholderName(q) = [q EXCEPT !.value["cardholderName"] = ToUpperCase(Printed(value))]
      BY <1>2, <2>3, <2>5, OneUpperCase DEF PP!syncCardholderName, PP!syncAlways
    <3>3. PP!syncCardholderName(q) = [p EXCEPT !.value = printed]
      <4> HIDE DEF value
      <4> QED BY <1>1, <1>2, <3>2 DEF IsPlain
    <3> HIDE DEF printed
    <3> QED BY <2>1, <2>2, <3>1, <3>3 DEF IsPlain
  <2> QED BY <2>4, <2>5
<1>5. CASE id = "email"
  <2>1. PP!typed(p, id, text) = q
    BY <1>5, OneVocabulary DEF PP!typed, Names
  <2>2. Entered(p, id, text) = value /\ Touches(p, id) = p.touched
    BY <1>5 DEF Entered, Touches, Names
  <2> HIDE DEF value
  <2> QED BY <1>1, <2>1, <2>2 DEF IsPlain
<1> QED BY <1>3, <1>4, <1>5 DEF FieldIds

LEMMA NextTyped ==
  ASSUME NEW n, NEW id \in FieldIds, NEW text,
         IsReact(n), n.value = [f \in FieldIds |-> n.value[f]]
  PROVE  NP!typed(n, id, text) = [n EXCEPT !.value = Entered(n, id, text),
                                           !.latest = Entered(n, id, text), !.touched = Touches(n, id)]
<1> DEFINE value == [n.value EXCEPT ![id] = text]
           m == NP!onChange(n, id, text)
           entered == Entered(n, id, text)
           touches == Touches(n, id)
<1>1. ASSUME id = "cardholderName" PROVE m = [n EXCEPT !.value = entered, !.touched = touches]
  <2>1. m = [n EXCEPT !.touched = TRUE, !.value.cardholderName = ToUpperCase(text)]
    BY <1>1, OneUpperCase, OneVocabulary DEF NP!onChange, NP!editCardholder, Names
  <2>2. entered = [n.value EXCEPT !["cardholderName"] = ToUpperCase(text)]
    BY <1>1 DEF Entered, Names
  <2>3. touches = TRUE
    BY <1>1 DEF Touches
  <2> QED BY <2>1, <2>2, <2>3 DEF IsReact
<1>2. ASSUME id \in Names PROVE m = [n EXCEPT !.value = entered, !.touched = touches]
  <2>1. id # "cardholderName" /\ id # "email" /\ touches = n.touched
    BY <1>2 DEF Names, Touches
  <2>2. m = NP!editName(n, id, text)
    BY <1>2, <2>1, OneVocabulary DEF NP!onChange
  <2>3. NP!cardPrintedName(value) = Printed(value)
    BY OneTrim, OneSpacing DEF NP!cardPrintedName, Printed, NP!Space, Space
  <2>4. NP!editName(n, id, text) = [n EXCEPT !.value = entered]
    BY <1>2, <2>1, <2>3, OneUpperCase DEF NP!editName, Entered
  <2> QED BY <2>1, <2>2, <2>4 DEF IsReact
<1>3. ASSUME id = "email" PROVE m = [n EXCEPT !.value = entered, !.touched = touches]
  <2>1. m = [n EXCEPT !.value.email = text]
    BY <1>3, OneVocabulary DEF NP!onChange, NP!editEmail, Names
  <2>2. entered = [n.value EXCEPT !["email"] = text] /\ touches = n.touched
    BY <1>3 DEF Entered, Touches, Names
  <2> QED BY <2>1, <2>2 DEF IsReact
<1>4. m = [n EXCEPT !.value = entered, !.touched = touches]
  <2>1. id = "cardholderName" \/ id \in Names \/ id = "email"
    BY DEF FieldIds
  <2> HIDE DEF m, entered, touches
  <2> QED BY <1>1, <1>2, <1>3, <2>1
<1>5. NP!typed(n, id, text) = [m EXCEPT !.latest = m.value]
  BY DEF NP!typed, NP!rendered
<1> HIDE DEF m, entered, touches
<1>6. m.value = entered
  BY <1>4 DEF IsReact
<1>7. [m EXCEPT !.latest = m.value] = [n EXCEPT !.value = entered, !.latest = entered, !.touched = touches]
  BY <1>4, <1>6 DEF IsReact
<1> QED BY <1>5, <1>7 DEF entered, touches

(* An edit leaves everything else alone; it is late while a payment is     *)
(* under way.                                                              *)
LEMMA TypingKeeps ==
  ASSUME NEW p, NEW n, NEW l, NEW k, Together(p, n, l), NEW id \in FieldIds, NEW text,
         l => k, p.at \in {"tokenizing", "paying"} => k
  PROVE  Together(PP!typed(p, id, text), NP!typed(n, id, text), k)
<1> DEFINE q == PP!typed(p, id, text)
           m == NP!typed(n, id, text)
           entered == Entered(p, id, text)
           touches == Touches(p, id)
<1>1. IsPlain(p) /\ IsReact(n) /\ SameFields(p, n, l)
  BY DEF Together
<1>2. Entered(n, id, text) = entered /\ Touches(n, id) = touches
  BY <1>1 DEF SameFields, Entered, Touches
<1>3. q = [p EXCEPT !.value = entered, !.touched = touches]
  BY <1>1, PlainTyped DEF SameFields
<1>4. m = [n EXCEPT !.value = entered, !.latest = entered, !.touched = touches]
  <2>1. n.value = [f \in FieldIds |-> n.value[f]]
    BY <1>1 DEF SameFields
  <2>2. m = [n EXCEPT !.value = Entered(n, id, text), !.latest = Entered(n, id, text),
                      !.touched = Touches(n, id)]
    BY <1>1, <2>1, NextTyped
  <2> QED BY <1>2, <2>2
<1>5. entered = [f \in FieldIds |-> entered[f]]
  BY <1>1, EnteredFills DEF SameFields
<1> SUFFICES Together(q, m, k)
  OBVIOUS
<1> HIDE DEF q, m, entered, touches
<1>6. IsPlain(q) /\ IsReact(m)
  BY <1>1, <1>3, <1>4 DEF IsPlain, IsReact
<1>7. /\ q.value = entered /\ q.touched = touches /\ q.label = p.label /\ q.disabled = p.disabled
      /\ q.hint = p.hint /\ q.error = p.error /\ q.panel = p.panel /\ q.at = p.at
      /\ q.attempts = p.attempts /\ q.redirected = p.redirected
  BY <1>1, <1>3 DEF IsPlain
<1>8. /\ m.value = entered /\ m.latest = entered /\ m.touched = touches
      /\ m.problems = n.problems /\ m.ready = n.ready /\ m.formError = n.formError /\ m.inFlight = n.inFlight /\ m.order = n.order
      /\ m.started = n.started /\ m.watch = n.watch /\ m.at = n.at
  BY <1>1, <1>4 DEF IsReact
<1>9. SameFields(q, m, k)
  BY <1>1, <1>5, <1>7, <1>8 DEF SameFields
<1>10. CASE Loading(p, n)
  <2>1. Loading(q, m)
    BY <1>7, <1>8, <1>10 DEF Loading, Unpaid
  <2> QED BY <1>6, <1>9, <2>1 DEF Together
<1>11. CASE Unavailable(p, n)
  <2>1. Unavailable(q, m)
    BY <1>7, <1>8, <1>11 DEF Unavailable, Unpaid
  <2> QED BY <1>6, <1>9, <2>1 DEF Together
<1>12. CASE Filling(p, n)
  <2>1. Filling(q, m)
    BY <1>7, <1>8, <1>12 DEF Filling, Unpaid
  <2> QED BY <1>6, <1>9, <2>1 DEF Together
<1>13. CASE Paying(p, n, l)
  <2>1. k
    BY <1>13 DEF Paying
  <2>2. Paying(q, m, k)
    BY <1>7, <1>8, <1>13, <2>1 DEF Paying, Unpaid, InFlight
  <2> QED BY <1>6, <1>9, <2>2 DEF Together
<1>14. CASE Waiting(p, n)
  <2>1. Waiting(q, m)
    BY <1>7, <1>8, <1>14 DEF Waiting, InFlight
  <2> QED BY <1>6, <1>9, <2>1 DEF Together
<1> QED BY <1>10, <1>11, <1>12, <1>13, <1>14 DEF Together

LEMMA PressKeeps ==
  ASSUME NEW p, NEW n, NEW l, Together(p, n, l), p.at = "form"
  PROVE  Together(PP!submit(p), NP!handleSubmit(n), FALSE)
<1> DEFINE q == PP!submit(p)
           m == NP!handleSubmit(n)
           problems == Problems(p.value)
<1> SUFFICES Together(q, m, FALSE)
  OBVIOUS
<1>1. Filling(p, n) /\ IsPlain(p) /\ IsReact(n) /\ SameFields(p, n, l)
  BY StageAt DEF Together
<1>2. n.value = p.value /\ n.latest = p.value /\ Problems(n.value) = problems
  BY <1>1 DEF SameFields
<1>3. CASE problems = NoProblems
  <2>1. q = [p EXCEPT !.hint = problems, !.error = NoError, !.disabled = TRUE,
                      !.label = "processing", !.panel = <<PP!shown(Processing)>>, !.at = "tokenizing"]
    <3>1. PICK o : o = PP!setPayInFlight([p EXCEPT !.hint = problems])
      OBVIOUS
    <3>2. o = [p EXCEPT !.hint = problems, !.error = NoError, !.disabled = TRUE,
                        !.label = "processing", !.panel = <<PP!shown(Processing)>>]
      BY <1>1, <3>1, OneVocabulary
      DEF PP!setPayInFlight, PP!showStatus, PP!clearFormError, IsPlain
    <3>3. q = [o EXCEPT !.at = IF @ \in PP!UnderWay THEN "twice" ELSE "tokenizing"]
      BY <1>3, <3>1, PlainChecks DEF PP!submit
    <3>4. o.at = "form" /\ "form" \notin PP!UnderWay
      BY <1>1, <3>2 DEF Filling, IsPlain, PP!UnderWay
    <3>5. q = [o EXCEPT !.at = "tokenizing"]
      BY <3>3, <3>4
    <3> HIDE DEF q, problems
    <3> QED BY <1>1, <3>2, <3>5 DEF IsPlain
  <2>2. m = [n EXCEPT !.problems = problems, !.formError = NoError, !.inFlight = TRUE,
                      !.at = "tokenizing"]
    BY <1>2, <1>3, NextChecks, OneVocabulary DEF NP!handleSubmit
  <2>3. PP!shown(Processing) = NP!StatusPanel(Processing)
    BY PlainPanel DEF Processing, Field
  <2> HIDE DEF q, m, problems
  <2>4. /\ q.value = p.value /\ q.touched = p.touched /\ q.label = "processing" /\ q.disabled = TRUE
        /\ q.hint = problems /\ q.error = NoError /\ q.panel = <<NP!StatusPanel(Processing)>>
        /\ q.at = "tokenizing" /\ q.attempts = p.attempts /\ q.redirected = p.redirected
    BY <1>1, <2>1, <2>3 DEF IsPlain
  <2>5. /\ m.value = n.value /\ m.latest = n.latest /\ m.touched = n.touched /\ m.problems = problems /\ m.ready = n.ready
        /\ m.formError = NoError /\ m.inFlight = TRUE /\ m.order = n.order
        /\ m.watch = n.watch /\ m.at = "tokenizing"
    BY <1>1, <2>2 DEF IsReact
  <2>6. IsPlain(q) /\ IsReact(m)
    BY <1>1, <2>1, <2>2 DEF IsPlain, IsReact
  <2>7. SameFields(q, m, FALSE)
    BY <1>1, <2>4, <2>5 DEF SameFields
  <2>8. Paying(q, m, FALSE)
    BY <1>1, <1>2, <2>4, <2>5 DEF Filling, Paying, Unpaid, InFlight
  <2> QED BY <2>6, <2>7, <2>8 DEF Together
<1>4. CASE problems # NoProblems
  <2>1. q = [p EXCEPT !.hint = problems]
    BY <1>4, PlainChecks DEF PP!submit
  <2>2. m = [n EXCEPT !.problems = problems]
    BY <1>2, <1>4, NextChecks, OneVocabulary DEF NP!handleSubmit
  <2> HIDE DEF q, m, problems
  <2>3. /\ q.value = p.value /\ q.touched = p.touched /\ q.label = p.label /\ q.disabled = p.disabled
        /\ q.hint = problems /\ q.error = p.error /\ q.panel = p.panel /\ q.at = p.at
        /\ q.attempts = p.attempts /\ q.redirected = p.redirected
    BY <1>1, <2>1 DEF IsPlain
  <2>4. /\ m.value = n.value /\ m.latest = n.latest /\ m.touched = n.touched /\ m.problems = problems /\ m.ready = n.ready
        /\ m.formError = n.formError /\ m.inFlight = n.inFlight /\ m.order = n.order
        /\ m.watch = n.watch /\ m.at = n.at
    BY <1>1, <2>2 DEF IsReact
  <2>5. IsPlain(q) /\ IsReact(m)
    BY <1>1, <2>1, <2>2 DEF IsPlain, IsReact
  <2>6. SameFields(q, m, FALSE)
    BY <1>1, <2>3, <2>4 DEF SameFields
  <2>7. Filling(q, m)
    BY <1>1, <2>3, <2>4 DEF Filling, Unpaid
  <2> QED BY <2>5, <2>6, <2>7 DEF Together
<1> QED BY <1>3, <1>4

LEMMA TokenKeeps ==
  ASSUME NEW p, NEW n, NEW l, Together(p, n, l), p.at = "tokenizing"
  PROVE  Together(PP!sendTokenToServer(p), NP!sendTokenToServer(n), l)
<1> DEFINE q == PP!sendTokenToServer(p)
           m == NP!sendTokenToServer(n)
<1>1. Paying(p, n, l) /\ IsPlain(p) /\ IsReact(n) /\ SameFields(p, n, l)
  BY StageAt DEF Together
<1>2. q = [p EXCEPT !.hint = Problems(p.value), !.at = "paying"]
  BY PlainChecks DEF PP!sendTokenToServer, IsPlain
<1>3. m = [n EXCEPT !.at = "paying"]
  BY DEF NP!sendTokenToServer
<1>4. IsPlain(q) /\ IsReact(m)
  BY <1>1, <1>2, <1>3 DEF IsPlain, IsReact
<1>5. SameFields(q, m, l)
  <2>1. l \/ Problems(p.value) = n.problems
    BY <1>1 DEF Paying, SameFields
  <2> QED BY <1>1, <1>2, <1>3, <2>1 DEF IsPlain, IsReact, SameFields
<1>6. Paying(q, m, l)
  BY <1>1, <1>2, <1>3 DEF IsPlain, IsReact, Paying, Unpaid, InFlight
<1> QED BY <1>4, <1>5, <1>6 DEF Together

(* A payment that came to nothing: the form is live again, unless its      *)
(* ticket is gone.                                                         *)
LEMMA FailureKeeps ==
  ASSUME NEW p, NEW n, NEW l, Together(p, n, l), p.at \in {"tokenizing", "paying"}, NEW error
  PROVE  Together([PP!hideStatusPanel(PP!showFormError(p, error)) EXCEPT !.at = "form"],
                  [NP!showFormError(n, error) EXCEPT !.at = "form"], l)
<1> DEFINE q == [PP!hideStatusPanel(PP!showFormError(p, error)) EXCEPT !.at = "form"]
           m == [NP!showFormError(n, error) EXCEPT !.at = "form"]
           label == IF Dead(error) THEN NP!TERMINAL_ERRORS[error.kind] ELSE "pay"
<1> SUFFICES Together(q, m, l)
  OBVIOUS
<1>1. Paying(p, n, l) /\ IsPlain(p) /\ IsReact(n) /\ SameFields(p, n, l)
  BY StageAt DEF Together
<1>2. q = [p EXCEPT !.error = error, !.disabled = Dead(error), !.label = label, !.panel = <<>>,
                    !.at = "form"]
  BY <1>1, OneVocabulary DEF PP!hideStatusPanel, PP!showFormError, IsPlain, Dead
<1>3. m = [n EXCEPT !.formError = error, !.inFlight = FALSE, !.at = "form"]
  BY <1>1 DEF NP!showFormError, IsReact
<1> HIDE DEF q, m, label
<1>4. IsPlain(q) /\ IsReact(m)
  BY <1>1, <1>2, <1>3 DEF IsPlain, IsReact
<1>5. /\ q.value = p.value /\ q.touched = p.touched /\ q.hint = p.hint /\ q.error = error
      /\ q.disabled = Dead(error) /\ q.label = label /\ q.panel = <<>> /\ q.at = "form"
      /\ q.attempts = p.attempts /\ q.redirected = p.redirected
  BY <1>1, <1>2 DEF IsPlain
<1>6. /\ m.value = n.value /\ m.latest = n.latest /\ m.touched = n.touched /\ m.problems = n.problems
      /\ m.ready = n.ready /\ m.formError = error /\ m.inFlight = FALSE /\ m.order = n.order /\ m.watch = n.watch
      /\ m.at = "form"
  BY <1>1, <1>3 DEF IsReact
<1>7. SameFields(q, m, l)
  BY <1>1, <1>5, <1>6 DEF SameFields
<1>8. Filling(q, m)
  BY <1>1, <1>5, <1>6 DEF Paying, InFlight, Filling, Unpaid, label
<1> QED BY <1>4, <1>7, <1>8 DEF Together

LEMMA ErrorKeeps ==
  ASSUME NEW p, NEW n, NEW l, Together(p, n, l), p.at = "tokenizing", NEW code, NEW message
  PROVE  Together(PP!showError(p, code, message), NP!showError(n, code, message), l)
<1> DEFINE spent == code \in 4000..4999
           kind == IF code = 4004 THEN "rejected" ELSE IF spent THEN "spent" ELSE "retry"
           error == IF spent THEN Copy(kind) ELSE Said(kind, message)
<1>1. PP!showError(p, code, message)
        = [PP!hideStatusPanel(PP!showFormError(p, error)) EXCEPT !.at = "form"]
  BY DEF PP!showError, PP!Copy, Copy, PP!Said, Said
<1>2. NP!showError(n, code, message) = [NP!showFormError(n, error) EXCEPT !.at = "form"]
  BY DEF NP!showError, NP!Copy, Copy, NP!Said, Said
<1> HIDE DEF error
<1> QED BY <1>1, <1>2, FailureKeeps

LEMMA SaleLossKeeps ==
  ASSUME NEW p, NEW n, NEW l, Together(p, n, l), p.at = "paying"
  PROVE  Together(PP!saleLost(p), NP!saleLost(n), l)
BY FailureKeeps, OneVocabulary DEF PP!saleLost, NP!saleLost

LEMMA SaleKeeps ==
  ASSUME NEW p, NEW n, NEW l, Together(p, n, l), p.at = "paying", NEW sale \in SaleReplies
  PROVE  Together(PP!saleReplied(p, sale), NP!saleReplied(n, sale), l)
<1> DEFINE q == PP!saleReplied(p, sale)
           m == NP!saleReplied(n, sale)
<1> SUFFICES Together(q, m, l)
  OBVIOUS
<1>1. Paying(p, n, l) /\ IsPlain(p) /\ IsReact(n) /\ SameFields(p, n, l)
  BY StageAt DEF Together
<1>2. CASE Field(sale, "paynet-order-id") # ""
  <2> DEFINE order == [basePath |-> "/demo", orderId |-> sale["paynet-order-id"],
                       clientOrderId |-> sale["clientOrderId"], redirected |-> FALSE]
             watch == [polled |-> <<>>, redirected |-> FALSE, left |-> 0,
                       runs |-> <<[active |-> TRUE, attempts |-> 1, at |-> "asking"]>>]
  <2>1. sale["paynet-order-id"] # "" /\ sale["clientOrderId"] # ""
    BY <1>2, FormsAssumption DEF Field
  <2>2. q = [p EXCEPT !.at = "asking", !.attempts = 1]
    <3>1. q = PP!pollStatus(PP!newOrder(p))
      BY <1>2, OneVocabulary DEF PP!saleReplied
    <3>2. p.attempts = 0 /\ p.redirected = FALSE
      BY <1>1 DEF Paying, Unpaid
    <3>3. PP!newOrder(p) = p
      <4>1. PICK o : o = [p EXCEPT !.attempts = 0, !.redirected = FALSE]
        OBVIOUS
      <4>2. IsPlain(o)
        BY <1>1, <4>1 DEF IsPlain
      <4>3. /\ o.value = p.value /\ o.hint = p.hint /\ o.touched = p.touched /\ o.label = p.label
            /\ o.disabled = p.disabled /\ o.error = p.error /\ o.panel = p.panel /\ o.at = p.at
            /\ o.attempts = p.attempts /\ o.redirected = p.redirected
        BY <1>1, <3>2, <4>1 DEF IsPlain
      <4>4. o = p
        BY <1>1, <4>2, <4>3 DEF IsPlain
      <4> QED BY <4>1, <4>4 DEF PP!newOrder
    <3>4. q = [p EXCEPT !.at = "asking", !.attempts = p.attempts + 1]
      BY <3>1, <3>3 DEF PP!pollStatus
    <3>5. p.attempts + 1 = 1
      BY <3>2
    <3> QED BY <3>4, <3>5
  <2>3. NP!orderEffect(NP!NoWatch, order) = watch
    <3> DEFINE run == [active |-> TRUE, attempts |-> 1, at |-> "asking"]
    <3>1. /\ order.basePath = "/demo" /\ order.orderId = sale["paynet-order-id"]
          /\ order.clientOrderId = sale["clientOrderId"] /\ order.redirected = FALSE
      OBVIOUS
    <3> HIDE DEF order
    <3>2. Append(<<>>, run) = <<run>>
      <4> HIDE DEF run
      <4> QED OBVIOUS
    <3>3. NP!orderEffect(NP!NoWatch, order)
            = [NP!NoWatch EXCEPT !.redirected = FALSE, !.runs = Append(@, run)]
      BY <2>1, <3>1 DEF NP!orderEffect
    <3> QED BY <3>2, <3>3 DEF NP!NoWatch
  <2>4. m = NP!followOrder(n, order)
    BY <1>2, OneVocabulary DEF NP!saleReplied
  <2> HIDE DEF order
  <2>5. m = [n EXCEPT !.order = <<order>>, !.watch = watch, !.at = "order"]
    BY <1>1, <2>3, <2>4 DEF NP!followOrder, Paying, Unpaid
  <2> HIDE DEF q, m, watch
  <2>6. IsPlain(q) /\ IsReact(m) /\ SameFields(q, m, l)
    BY <1>1, <2>2, <2>5 DEF IsPlain, IsReact, SameFields
  <2>7. /\ q.label = p.label /\ q.disabled = p.disabled /\ q.panel = p.panel /\ q.at = "asking"
        /\ q.attempts = 1 /\ q.redirected = p.redirected
    BY <1>1, <2>2 DEF IsPlain
  <2>8. /\ m.ready = n.ready /\ m.formError = n.formError /\ m.inFlight = n.inFlight
        /\ m.order = <<order>> /\ m.watch = watch /\ m.at = "order"
    BY <1>1, <2>5 DEF IsReact
  <2>9. Waiting(q, m)
    <3>1. InFlight(q, m) /\ m.order # <<>>
      BY <1>1, <2>7, <2>8 DEF Paying, InFlight
    <3>2. /\ m.watch.polled = <<>> /\ m.watch.redirected = FALSE /\ m.watch.left = 0
          /\ m.watch.runs[1] = [active |-> TRUE, attempts |-> 1, at |-> "asking"]
          /\ m.watch = [polled |-> m.watch.polled, redirected |-> m.watch.redirected,
                        left |-> m.watch.left, runs |-> <<m.watch.runs[1]>>]
      BY <2>8 DEF watch
    <3>3. q.panel = <<NP!StatusPanel(Processing)>> /\ q.redirected = FALSE
      BY <1>1, <2>7 DEF Paying, Unpaid
    <3>4. m.watch.runs[1] = Run(1, "asking")
      BY <3>2 DEF Run, Yes
    <3>5. m.watch = Hook(m.watch.polled, q.redirected, m.watch.left,
                         Run(q.attempts, m.watch.runs[1].at))
      <4>1. m.watch = Hook(m.watch.polled, m.watch.redirected, m.watch.left, m.watch.runs[1])
        BY <3>2 DEF Hook
      <4>2. m.watch.redirected = q.redirected
        BY <3>2, <3>3
      <4>3. m.watch.runs[1] = Run(q.attempts, m.watch.runs[1].at)
        BY <2>7, <3>4, RunFields
      <4> QED BY <4>1, <4>2, <4>3
    <3>6. q.at = IF m.watch.left > 0 THEN "sent" ELSE m.watch.runs[1].at
      BY <2>7, <3>2
    <3>7. q.panel = <<NP!StatusPanel(IF m.watch.polled = <<>> THEN Processing ELSE m.watch.polled[1])>>
      BY <3>2, <3>3
    <3>8. m.at = "order" /\ m.watch.left \in Nat /\ q.at \in {"asking", "sleeping", "over", "sent"}
      BY <2>7, <2>8, <3>2
    <3> QED BY <3>1, <3>5, <3>6, <3>7, <3>8 DEF Waiting
  <2> QED BY <2>6, <2>9 DEF Together
<1>3. CASE Field(sale, "paynet-order-id") = ""
  <2> DEFINE key == IF "error-message" \in DOMAIN sale THEN "error-message" ELSE "error"
             error == Said("retry", Field(sale, key))
  <2>1. Field(sale, key) = IF Field(sale, "error-message") # "" THEN sale["error-message"]
                                                                ELSE Field(sale, "error")
    BY FormsAssumption DEF Field
  <2>2. q = [PP!hideStatusPanel(PP!showFormError(p, error)) EXCEPT !.at = "form"]
    BY <1>3, <2>1, OneVocabulary DEF PP!saleReplied
  <2>3. m = [NP!showFormError(n, error) EXCEPT !.at = "form"]
    BY <1>3, OneVocabulary DEF NP!saleReplied
  <2> HIDE DEF error
  <2> QED BY <2>2, <2>3, FailureKeeps
<1> QED BY <1>2, <1>3

LEMMA WatchKeeps ==
  ASSUME NEW p, NEW n, NEW l, Together(p, n, l), Waiting(p, n),
         NEW polled, NEW panel, NEW redirected, NEW left, NEW attempts, NEW at, NEW to
  PROVE  /\ left \in Nat
         /\ at = IF left > 0 THEN "sent" ELSE to
         /\ at \in {"asking", "sleeping", "over", "sent"}
         /\ panel = <<NP!StatusPanel(IF polled = <<>> THEN Processing ELSE polled[1])>>
         => Together([p EXCEPT !.panel = panel, !.redirected = redirected, !.at = at,
                               !.attempts = attempts],
                     [n EXCEPT !.watch = Hook(polled, redirected, left, Run(attempts, to))], l)
<1> DEFINE run == Run(attempts, to)
           watch == Hook(polled, redirected, left, run)
           q == [p EXCEPT !.panel = panel, !.redirected = redirected, !.at = at, !.attempts = attempts]
           m == [n EXCEPT !.watch = watch]
<1>1. IsPlain(p) /\ IsReact(n) /\ SameFields(p, n, l)
  BY DEF Together
<1>2. run.attempts = attempts /\ run.at = to
  BY RunFields
<1>3. /\ watch.polled = polled /\ watch.left = left /\ watch.runs = <<run>> /\ watch.runs[1] = run
  <2> HIDE DEF run
  <2> QED BY HookFields
<1>4. watch = Hook(polled, redirected, left, Run(attempts, to))
  OBVIOUS
<1> HIDE DEF watch, run
<1>5. IsPlain(q)
  <2>1. PICK r : r = q
    OBVIOUS
  <2>2. r = [value |-> r.value, hint |-> r.hint, touched |-> r.touched, label |-> r.label,
             disabled |-> r.disabled, error |-> r.error, panel |-> r.panel, at |-> r.at,
             attempts |-> r.attempts, redirected |-> r.redirected]
    BY <1>1, <2>1 DEF IsPlain
  <2> HIDE DEF q
  <2> QED BY <2>1, <2>2 DEF IsPlain
<1>6. IsReact(m)
  BY <1>1 DEF IsReact
<1>7. /\ q.value = p.value /\ q.touched = p.touched /\ q.error = p.error /\ q.hint = p.hint
      /\ q.label = p.label /\ q.disabled = p.disabled /\ q.panel = panel /\ q.at = at
      /\ q.attempts = attempts /\ q.redirected = redirected
  BY <1>1 DEF IsPlain
<1>8. /\ m.value = n.value /\ m.latest = n.latest /\ m.touched = n.touched
      /\ m.problems = n.problems /\ m.ready = n.ready /\ m.formError = n.formError /\ m.inFlight = n.inFlight
      /\ m.order = n.order /\ m.watch = watch /\ m.at = n.at
  BY <1>1 DEF IsReact
<1> HIDE DEF q, m
<1>9. InFlight(q, m) /\ m.at = "order" /\ m.order # <<>>
  BY <1>7, <1>8 DEF Waiting, InFlight
<1>10. m.watch = Hook(m.watch.polled, q.redirected, m.watch.left,
                      Run(q.attempts, m.watch.runs[1].at))
  BY <1>2, <1>3, <1>4, <1>7, <1>8
<1>11. SameFields(q, m, l)
  BY <1>1, <1>7, <1>8 DEF SameFields
<1>12. ASSUME left \in Nat, at = IF left > 0 THEN "sent" ELSE to,
              at \in {"asking", "sleeping", "over", "sent"},
              panel = <<NP!StatusPanel(IF polled = <<>> THEN Processing ELSE polled[1])>>
       PROVE  Waiting(q, m)
  <2>1. m.watch.left = left /\ m.watch.polled = polled
    BY <1>3, <1>8
  <2>2. m.watch.runs[1].at = to
    BY <1>2, <1>3, <1>8, <1>12
  <2> QED BY <1>7, <1>9, <1>10, <1>12, <2>1, <2>2 DEF Waiting
<1>13. ASSUME Waiting(q, m) PROVE Together(q, m, l)
  BY <1>5, <1>6, <1>11, <1>13 DEF Together
<1> QED BY <1>12, <1>13 DEF q, m, watch, run

(* The same for a reply that is shown. *)
LEMMA HeardKeeps ==
  ASSUME NEW p, NEW n, NEW l, Together(p, n, l), Waiting(p, n),
         NEW data, NEW redirected, NEW left, NEW at, NEW to
  PROVE  /\ left \in Nat
         /\ at = IF left > 0 THEN "sent" ELSE to
         /\ at \in {"asking", "sleeping", "over", "sent"}
         => Together([p EXCEPT !.panel = <<NP!StatusPanel(data)>>, !.redirected = redirected,
                               !.at = at, !.attempts = p.attempts],
                     [n EXCEPT !.watch = Hook(<<data>>, redirected, left, Run(p.attempts, to))], l)
<1>1. <<data>> # <<>> /\ <<data>>[1] = data
  OBVIOUS
<1>2. <<NP!StatusPanel(data)>>
        = <<NP!StatusPanel(IF <<data>> = <<>> THEN Processing ELSE <<data>>[1])>>
  BY <1>1
<1> QED BY <1>2, WatchKeeps

(* What the hook works on. *)
LEMMA HookIs ==
  ASSUME NEW p, NEW n, Waiting(p, n), p.at \in {"asking", "sleeping"}
  PROVE  \E polled:
           /\ polled = n.watch.polled
           /\ n.watch = Hook(polled, p.redirected, 0, Run(p.attempts, p.at))
<1>1. n.watch.left = 0 /\ n.watch.runs[1].at = p.at
  BY DEF Waiting
<1> WITNESS n.watch.polled
<1> QED BY <1>1 DEF Waiting

(* Where a reply of the server leaves the two. *)
LEMMA Endings ==
  /\ 0 \in Nat /\ 1 \in Nat
  /\ \A to: to = IF 0 > 0 THEN "sent" ELSE to
  /\ "sent" = IF 1 > 0 THEN "sent" ELSE "over"
OBVIOUS

LEMMA StatusLossKeeps ==
  ASSUME NEW p, NEW n, NEW l, Together(p, n, l), p.at = "asking"
  PROVE  Together(PP!statusLost(p), [n EXCEPT !.watch = NP!statusLost(@, Len(@.runs))], l)
<1> DEFINE said == ErrorData(FailedText)
           m == [n EXCEPT !.watch = NP!statusLost(@, Len(@.runs))]
<1>1. Waiting(p, n) /\ IsPlain(p)
  BY StageAt DEF Together
<1>2. PICK polled :
        n.watch = Hook(polled, p.redirected, 0, Run(p.attempts, "asking"))
  BY <1>1, HookIs
<1>3. Len(n.watch.runs) = 1
  <2>1. PICK run : n.watch.runs = <<run>>
    BY <1>2, HookFields
  <2> QED BY <2>1
<1>4. PP!shown(said) = NP!StatusPanel(said)
  <2>1. Field(said, "status") # ""
    BY DEF ErrorData, Field
  <2> QED BY <2>1, PlainPanel
<1>5. PP!statusLost(p) = [p EXCEPT !.panel = <<NP!StatusPanel(said)>>, !.redirected = p.redirected,
                                   !.at = "over", !.attempts = p.attempts]
  <2>1. PP!statusLost(p) = [PP!showStatus(p, said) EXCEPT !.at = "over"]
    BY OneVocabulary DEF PP!statusLost
  <2> HIDE DEF said
  <2> QED BY <1>1, <1>4, <2>1 DEF PP!showStatus, IsPlain
<1>6. NP!statusLost(n.watch, 1) = Hook(<<said>>, p.redirected, 0, Run(p.attempts, "over"))
  <2>1. NP!statusLost(Hook(polled, p.redirected, 0, Run(p.attempts, "asking")), 1)
            = Hook(<<NP!ErrorData(NP!FailedText)>>, p.redirected, 0, Run(p.attempts, "over"))
    BY HookLoses
  <2>2. NP!ErrorData(NP!FailedText) = said
    BY OneVocabulary
  <2> HIDE DEF said
  <2> QED BY <1>2, <2>1, <2>2
<1>7. m = [n EXCEPT !.watch = Hook(<<said>>, p.redirected, 0, Run(p.attempts, "over"))]
  BY <1>3, <1>6
<1> HIDE DEF said, m
<1>8. Together([p EXCEPT !.panel = <<NP!StatusPanel(said)>>, !.redirected = p.redirected,
                         !.at = "over", !.attempts = p.attempts],
               [n EXCEPT !.watch = Hook(<<said>>, p.redirected, 0, Run(p.attempts, "over"))], l)
  BY <1>1, <1>2, HeardKeeps, Endings
<1> QED BY <1>5, <1>7, <1>8 DEF m

LEMMA TimerKeeps ==
  ASSUME NEW p, NEW n, NEW l, Together(p, n, l), p.at = "sleeping"
  PROVE  Together(PP!timerFired(p), [n EXCEPT !.watch = NP!timerFired(@, Len(@.runs))], l)
<1> DEFINE m == [n EXCEPT !.watch = NP!timerFired(@, Len(@.runs))]
<1>1. Waiting(p, n) /\ IsPlain(p)
  BY StageAt DEF Together
<1>2. PICK polled :
        /\ polled = n.watch.polled
        /\ n.watch = Hook(polled, p.redirected, 0, Run(p.attempts, "sleeping"))
  BY <1>1, HookIs
<1>3. Len(n.watch.runs) = 1
  <2>1. PICK run : n.watch.runs = <<run>>
    BY <1>2, HookFields
  <2> QED BY <2>1
<1>4. PP!timerFired(p) = [p EXCEPT !.panel = p.panel, !.redirected = p.redirected,
                                   !.at = "asking", !.attempts = p.attempts + 1]
  BY <1>1 DEF PP!timerFired, PP!pollStatus, IsPlain
<1>5. NP!timerFired(n.watch, 1) = Hook(polled, p.redirected, 0, Run(p.attempts + 1, "asking"))
  BY <1>2, HookWakes
<1>6. m = [n EXCEPT !.watch = Hook(polled, p.redirected, 0, Run(p.attempts + 1, "asking"))]
  BY <1>3, <1>5
<1>7. p.panel = <<NP!StatusPanel(IF polled = <<>> THEN Processing ELSE polled[1])>>
  BY <1>1, <1>2 DEF Waiting
<1> HIDE DEF m
<1>8. Together([p EXCEPT !.panel = p.panel, !.redirected = p.redirected, !.at = "asking",
                         !.attempts = p.attempts + 1],
               [n EXCEPT !.watch = Hook(polled, p.redirected, 0,
                                        Run(p.attempts + 1, "asking"))], l)
  BY <1>1, <1>2, <1>7, WatchKeeps, Endings
<1> QED BY <1>4, <1>6, <1>8 DEF m

LEMMA StatusKeeps ==
  ASSUME NEW p, NEW n, NEW l, Together(p, n, l), p.at = "asking", NEW data
  PROVE  Together(PP!statusReplied(p, data),
                  [n EXCEPT !.watch = NP!statusReplied(@, Len(@.runs), data)], l)
<1> DEFINE q == PP!statusReplied(p, data)
           m == [n EXCEPT !.watch = NP!statusReplied(@, Len(@.runs), data)]
           status == Field(data, "status")
           sends == Field(data, "redirect-to") # "" /\ ~p.redirected
           message == IF Field(data, "error") = "" THEN NoStatusText ELSE data["error"]
<1>1. Waiting(p, n) /\ IsPlain(p)
  BY StageAt DEF Together
<1>2. PICK polled :
        n.watch = Hook(polled, p.redirected, 0, Run(p.attempts, "asking"))
  BY <1>1, HookIs
<1>3. Len(n.watch.runs) = 1
  <2>1. PICK run : n.watch.runs = <<run>>
    BY <1>2, HookFields
  <2> QED BY <2>1
<1> DEFINE heard(said, redirected, left, to) == Hook(<<said>>, redirected, left, Run(p.attempts, to))
           goes(said, redirected, at) ==
             [p EXCEPT !.panel = <<NP!StatusPanel(said)>>, !.redirected = redirected, !.at = at,
                       !.attempts = p.attempts]
           replied == NP!statusReplied(n.watch, 1, data)
<1>4. replied = IF status = "" THEN heard(ErrorData(message), p.redirected, 0, "over")
                ELSE IF sends THEN heard(data, Yes, 1, "over")
                ELSE IF status \in NP!FINAL_STATUSES THEN heard(data, p.redirected, 0, "over")
                ELSE IF p.attempts >= PollsMax
                     THEN heard(ErrorData(TimeoutText), p.redirected, 0, "over")
                ELSE heard(data, p.redirected, 0, "sleeping")
  <2>1. replied = Heard(data, p.redirected, p.attempts)
    BY <1>2, HookHears
  <2> HIDE DEF replied
  <2> QED BY <2>1 DEF Heard
<1>5. m = [n EXCEPT !.watch = replied]
  BY <1>3
<1>6. \A said, at: [p EXCEPT !.panel = <<NP!StatusPanel(said)>>, !.at = at] = goes(said, p.redirected, at)
  BY <1>1 DEF IsPlain
<1>7. \A said: PP!shown(ErrorData(said)) = NP!StatusPanel(ErrorData(said))
  <2>1. \A said: Field(ErrorData(said), "status") = "error"
    BY DEF ErrorData, Field
  <2> QED BY <2>1, PlainPanel
<1>8. status # "" => PP!shown(data) = NP!StatusPanel(data)
  BY PlainPanel
<1>9. \A said, at: [[p EXCEPT !.panel = said] EXCEPT !.at = at] = [p EXCEPT !.panel = said, !.at = at]
  BY <1>1 DEF IsPlain
<1>10. \A said, to: to \in {"over", "sleeping"} =>
         Together(goes(said, p.redirected, to),
                  [n EXCEPT !.watch = heard(said, p.redirected, 0, to)], l)
  BY <1>1, <1>2, HeardKeeps, Endings
<1>11. Together(goes(data, Yes, "sent"), [n EXCEPT !.watch = heard(data, Yes, 1, "over")], l)
  BY <1>1, <1>2, HeardKeeps, Endings
<1>12. CASE status = ""
  <2>1. q = [PP!showStatus(p, ErrorData(message)) EXCEPT !.at = "over"]
    BY <1>12, OneVocabulary DEF PP!statusReplied
  <2> HIDE DEF message
  <2>2. q = goes(ErrorData(message), p.redirected, "over")
    BY <1>6, <1>7, <1>9, <2>1 DEF PP!showStatus
  <2> HIDE DEF q, m, heard, goes, replied
  <2> QED BY <1>4, <1>5, <1>10, <1>12, <2>2 DEF q, m
<1>13. CASE status # "" /\ sends
  <2>1. q = [PP!showStatus(p, data) EXCEPT !.redirected = Yes, !.at = "sent"]
    BY <1>13, OneVocabulary DEF Yes, PP!statusReplied
  <2>2. q = goes(data, Yes, "sent")
    BY <1>1, <1>8, <1>13, <2>1 DEF PP!showStatus, IsPlain
  <2> HIDE DEF q, m, heard, goes, replied
  <2> QED BY <1>4, <1>5, <1>11, <1>13, <2>2 DEF q, m
<1>14. CASE status # "" /\ ~sends /\ status \in NP!FINAL_STATUSES
  <2>1. q = [PP!showStatus(p, data) EXCEPT !.at = "over"]
    BY <1>14, OneVocabulary DEF PP!statusReplied, PP!FINAL_STATUSES, NP!FINAL_STATUSES
  <2>2. q = goes(data, p.redirected, "over")
    BY <1>6, <1>8, <1>9, <1>14, <2>1 DEF PP!showStatus
  <2> HIDE DEF q, m, heard, goes, replied
  <2> QED BY <1>4, <1>5, <1>10, <1>14, <2>2 DEF q, m
<1>15. CASE status # "" /\ ~sends /\ status \notin NP!FINAL_STATUSES /\ p.attempts >= PollsMax
  <2>1. q = [PP!showStatus(p, ErrorData(TimeoutText)) EXCEPT !.at = "over"]
    BY <1>15, OneVocabulary DEF PP!statusReplied, PP!FINAL_STATUSES, NP!FINAL_STATUSES
  <2>2. q = goes(ErrorData(TimeoutText), p.redirected, "over")
    BY <1>6, <1>7, <1>9, <2>1 DEF PP!showStatus
  <2> HIDE DEF q, m, heard, goes, replied
  <2> QED BY <1>4, <1>5, <1>10, <1>15, <2>2 DEF q, m
<1>16. CASE status # "" /\ ~sends /\ status \notin NP!FINAL_STATUSES /\ ~(p.attempts >= PollsMax)
  <2>1. q = [PP!showStatus(p, data) EXCEPT !.at = "sleeping"]
    BY <1>16, OneVocabulary DEF PP!statusReplied, PP!FINAL_STATUSES, NP!FINAL_STATUSES
  <2>2. q = goes(data, p.redirected, "sleeping")
    BY <1>6, <1>8, <1>9, <1>16, <2>1 DEF PP!showStatus
  <2> HIDE DEF q, m, heard, goes, replied
  <2> QED BY <1>4, <1>5, <1>10, <1>16, <2>2 DEF q, m
<1> QED BY <1>12, <1>13, <1>14, <1>15, <1>16

-----------------------------------------------------------------------------
(* A button that a field has made live stays so until an event sets it.    *)

LEMMA LivenedSets ==
  ASSUME NEW p, NEW q, Livened(p, q)
  PROVE  /\ \A x: Livened([p EXCEPT !.at = x], [q EXCEPT !.at = x])
         /\ \A x: Livened([p EXCEPT !.hint = x], [q EXCEPT !.hint = x])
         /\ \A x: Livened([p EXCEPT !.panel = x], [q EXCEPT !.panel = x])
         /\ \A x: Livened([p EXCEPT !.redirected = x], [q EXCEPT !.redirected = x])
         /\ \A x, y: Livened([p EXCEPT !.at = x, !.attempts = y], [q EXCEPT !.at = x, !.attempts = y])
         /\ \A x, y: Livened([p EXCEPT !.value = x, !.touched = y],
                              [q EXCEPT !.value = x, !.touched = y])
<1>1. ASSUME NEW x PROVE Livened([p EXCEPT !.at = x], [q EXCEPT !.at = x])
  <2>1. PICK a : a = [p EXCEPT !.at = x]
    OBVIOUS
  <2>2. PICK b : b = [q EXCEPT !.at = x]
    OBVIOUS
  <2>3. IsPlain(a)
    BY <2>1 DEF Livened, IsPlain
  <2>4. IsPlain(b)
    BY <2>2 DEF Livened, IsPlain
  <2>5. /\ b.disabled = FALSE /\ b.label = "pay"
        /\ b.value = a.value /\ b.hint = a.hint /\ b.touched = a.touched /\ b.error = a.error
        /\ b.panel = a.panel /\ b.at = a.at /\ b.attempts = a.attempts /\ b.redirected = a.redirected
    BY <2>1, <2>2 DEF Livened, IsPlain
  <2> QED BY <2>1, <2>2, <2>3, <2>4, <2>5 DEF Livened
<1>2. ASSUME NEW x PROVE Livened([p EXCEPT !.hint = x], [q EXCEPT !.hint = x])
  <2>1. PICK a : a = [p EXCEPT !.hint = x]
    OBVIOUS
  <2>2. PICK b : b = [q EXCEPT !.hint = x]
    OBVIOUS
  <2>3. IsPlain(a)
    BY <2>1 DEF Livened, IsPlain
  <2>4. IsPlain(b)
    BY <2>2 DEF Livened, IsPlain
  <2>5. /\ b.disabled = FALSE /\ b.label = "pay"
        /\ b.value = a.value /\ b.hint = a.hint /\ b.touched = a.touched /\ b.error = a.error
        /\ b.panel = a.panel /\ b.at = a.at /\ b.attempts = a.attempts /\ b.redirected = a.redirected
    BY <2>1, <2>2 DEF Livened, IsPlain
  <2> QED BY <2>1, <2>2, <2>3, <2>4, <2>5 DEF Livened
<1>3. ASSUME NEW x PROVE Livened([p EXCEPT !.panel = x], [q EXCEPT !.panel = x])
  <2>1. PICK a : a = [p EXCEPT !.panel = x]
    OBVIOUS
  <2>2. PICK b : b = [q EXCEPT !.panel = x]
    OBVIOUS
  <2>3. IsPlain(a)
    BY <2>1 DEF Livened, IsPlain
  <2>4. IsPlain(b)
    BY <2>2 DEF Livened, IsPlain
  <2>5. /\ b.disabled = FALSE /\ b.label = "pay"
        /\ b.value = a.value /\ b.hint = a.hint /\ b.touched = a.touched /\ b.error = a.error
        /\ b.panel = a.panel /\ b.at = a.at /\ b.attempts = a.attempts /\ b.redirected = a.redirected
    BY <2>1, <2>2 DEF Livened, IsPlain
  <2> QED BY <2>1, <2>2, <2>3, <2>4, <2>5 DEF Livened
<1>4. ASSUME NEW x PROVE Livened([p EXCEPT !.redirected = x], [q EXCEPT !.redirected = x])
  <2>1. PICK a : a = [p EXCEPT !.redirected = x]
    OBVIOUS
  <2>2. PICK b : b = [q EXCEPT !.redirected = x]
    OBVIOUS
  <2>3. IsPlain(a)
    BY <2>1 DEF Livened, IsPlain
  <2>4. IsPlain(b)
    BY <2>2 DEF Livened, IsPlain
  <2>5. /\ b.disabled = FALSE /\ b.label = "pay"
        /\ b.value = a.value /\ b.hint = a.hint /\ b.touched = a.touched /\ b.error = a.error
        /\ b.panel = a.panel /\ b.at = a.at /\ b.attempts = a.attempts /\ b.redirected = a.redirected
    BY <2>1, <2>2 DEF Livened, IsPlain
  <2> QED BY <2>1, <2>2, <2>3, <2>4, <2>5 DEF Livened
<1>5. ASSUME NEW x, NEW y PROVE Livened([p EXCEPT !.at = x, !.attempts = y], [q EXCEPT !.at = x, !.attempts = y])
  <2>1. PICK a : a = [p EXCEPT !.at = x, !.attempts = y]
    OBVIOUS
  <2>2. PICK b : b = [q EXCEPT !.at = x, !.attempts = y]
    OBVIOUS
  <2>3. IsPlain(a)
    BY <2>1 DEF Livened, IsPlain
  <2>4. IsPlain(b)
    BY <2>2 DEF Livened, IsPlain
  <2>5. /\ b.disabled = FALSE /\ b.label = "pay"
        /\ b.value = a.value /\ b.hint = a.hint /\ b.touched = a.touched /\ b.error = a.error
        /\ b.panel = a.panel /\ b.at = a.at /\ b.attempts = a.attempts /\ b.redirected = a.redirected
    BY <2>1, <2>2 DEF Livened, IsPlain
  <2> QED BY <2>1, <2>2, <2>3, <2>4, <2>5 DEF Livened
<1>6. ASSUME NEW x, NEW y PROVE Livened([p EXCEPT !.value = x, !.touched = y], [q EXCEPT !.value = x, !.touched = y])
  <2>1. PICK a : a = [p EXCEPT !.value = x, !.touched = y]
    OBVIOUS
  <2>2. PICK b : b = [q EXCEPT !.value = x, !.touched = y]
    OBVIOUS
  <2>3. IsPlain(a)
    BY <2>1 DEF Livened, IsPlain
  <2>4. IsPlain(b)
    BY <2>2 DEF Livened, IsPlain
  <2>5. /\ b.disabled = FALSE /\ b.label = "pay"
        /\ b.value = a.value /\ b.hint = a.hint /\ b.touched = a.touched /\ b.error = a.error
        /\ b.panel = a.panel /\ b.at = a.at /\ b.attempts = a.attempts /\ b.redirected = a.redirected
    BY <2>1, <2>2 DEF Livened, IsPlain
  <2> QED BY <2>1, <2>2, <2>3, <2>4, <2>5 DEF Livened
<1> QED BY <1>1, <1>2, <1>3, <1>4, <1>5, <1>6

LEMMA LivenedHelpers ==
  ASSUME NEW p, NEW q, Livened(p, q)
  PROVE  /\ \A data: Livened(PP!showStatus(p, data), PP!showStatus(q, data))
         /\ Livened(PP!pollStatus(p), PP!pollStatus(q)) /\ PP!pollStatus(p).at = "asking"
         /\ Livened(PP!newOrder(p), PP!newOrder(q))
         /\ Livened(PP!customerDetails(p).page, PP!customerDetails(q).page)
         /\ \A error: PP!showFormError(q, error) = PP!showFormError(p, error)
<1>1. /\ q.value = p.value /\ q.attempts = p.attempts /\ IsPlain(p) /\ IsPlain(q)
  BY DEF Livened
<1>2. \A data: Livened(PP!showStatus(p, data), PP!showStatus(q, data))
  BY LivenedSets DEF PP!showStatus
<1>3. Livened(PP!pollStatus(p), PP!pollStatus(q))
  BY <1>1, LivenedSets DEF PP!pollStatus
<1>4. PP!pollStatus(p).at = "asking"
  BY <1>1 DEF PP!pollStatus, IsPlain
<1>5. Livened(PP!newOrder(p), PP!newOrder(q))
  <2>1. PICK a : a = PP!newOrder(p)
    OBVIOUS
  <2>2. PICK b : b = PP!newOrder(q)
    OBVIOUS
  <2>3. IsPlain(a)
    BY <1>1, <2>1 DEF PP!newOrder, IsPlain
  <2>4. IsPlain(b)
    BY <1>1, <2>2 DEF PP!newOrder, IsPlain
  <2>5. /\ b.disabled = FALSE /\ b.label = "pay"
        /\ b.value = a.value /\ b.hint = a.hint /\ b.touched = a.touched /\ b.error = a.error
        /\ b.panel = a.panel /\ b.at = a.at /\ b.attempts = a.attempts /\ b.redirected = a.redirected
    BY <2>1, <2>2 DEF PP!newOrder, Livened, IsPlain
  <2> QED BY <2>1, <2>2, <2>3, <2>4, <2>5 DEF Livened
<1>6. Livened(PP!customerDetails(p).page, PP!customerDetails(q).page)
  <2>1. PICK x : x = Problems(p.value)
    OBVIOUS
  <2>2. PP!customerDetails(p).page = [p EXCEPT !.hint = x]
    BY <2>1, PlainChecks
  <2>3. PP!customerDetails(q).page = [q EXCEPT !.hint = x]
    BY <1>1, <2>1, PlainChecks
  <2>4. Livened([p EXCEPT !.hint = x], [q EXCEPT !.hint = x])
    BY LivenedSets
  <2> QED BY <2>2, <2>3, <2>4
<1>7. \A error: PP!showFormError(q, error) = PP!showFormError(p, error)
  BY DEF PP!showFormError, Livened, IsPlain
<1> QED BY <1>2, <1>3, <1>4, <1>5, <1>6, <1>7

LEMMA LivenedTyped ==
  ASSUME NEW p, NEW q, Livened(p, q), NEW id \in FieldIds, NEW text,
         p.value = [f \in FieldIds |-> p.value[f]]
  PROVE  Livened(PP!typed(p, id, text), PP!typed(q, id, text)) /\ PP!typed(p, id, text).at = p.at
<1>1. /\ q.value = p.value /\ q.touched = p.touched /\ IsPlain(p) /\ IsPlain(q)
      /\ q.value = [f \in FieldIds |-> q.value[f]]
  BY DEF Livened
<1>2. PICK entered, touches: entered = Entered(p, id, text) /\ touches = Touches(p, id)
  OBVIOUS
<1>3. Entered(q, id, text) = entered /\ Touches(q, id) = touches
  BY <1>1, <1>2 DEF Entered, Touches
<1>4. PP!typed(q, id, text) = [q EXCEPT !.value = entered, !.touched = touches]
  <2>1. PP!typed(q, id, text) = [q EXCEPT !.value = Entered(q, id, text), !.touched = Touches(q, id)]
    BY <1>1, PlainTyped
  <2> QED BY <1>3, <2>1
<1>5. PP!typed(p, id, text) = [p EXCEPT !.value = entered, !.touched = touches]
  <2>1. PP!typed(p, id, text) = [p EXCEPT !.value = Entered(p, id, text), !.touched = Touches(p, id)]
    BY <1>1, PlainTyped
  <2> QED BY <1>2, <2>1
<1>6. [p EXCEPT !.value = entered, !.touched = touches].at = p.at
  BY <1>1 DEF IsPlain
<1>7. Livened([p EXCEPT !.value = entered, !.touched = touches],
              [q EXCEPT !.value = entered, !.touched = touches])
  BY LivenedSets
<1> QED BY <1>4, <1>5, <1>6, <1>7

(* A field that is ready for the first time, and again. *)
LEMMA ReadyRevives ==
  ASSUME NEW p, IsPlain(p), p.at # "script", NEW q, q = p \/ Livened(p, q)
  PROVE  Livened(p, PP!onReady(q))
<1>1. IsPlain(q) /\ q.at = p.at
  BY DEF Livened
<1>2. PICK o : o = PP!onReady(q)
  OBVIOUS
<1>3. o = [q EXCEPT !.disabled = FALSE, !.label = "pay", !.at = q.at]
  BY <1>1, <1>2 DEF PP!onReady, PP!setFormLoading, IsPlain
<1>4. IsPlain(o)
  BY <1>1, <1>3 DEF IsPlain
<1>5. /\ o.disabled = FALSE /\ o.label = "pay" /\ o.value = q.value /\ o.hint = q.hint
      /\ o.touched = q.touched /\ o.error = q.error /\ o.panel = q.panel /\ o.at = q.at
      /\ o.attempts = q.attempts /\ o.redirected = q.redirected
  BY <1>1, <1>3 DEF IsPlain
<1> QED BY <1>1, <1>2, <1>4, <1>5 DEF Livened

LEMMA LivenedPays ==
  ASSUME NEW p, NEW q, Livened(p, q)
  PROVE  /\ Livened(PP!sendTokenToServer(p), PP!sendTokenToServer(q))
         /\ PP!sendTokenToServer(p).at = "paying"
         /\ \A code, message: PP!showError(q, code, message) = PP!showError(p, code, message)
         /\ PP!saleLost(q) = PP!saleLost(p)
<1>1. PICK a : a = PP!customerDetails(p).page
  OBVIOUS
<1>2. PICK b : b = PP!customerDetails(q).page
  OBVIOUS
<1>3. Livened(a, b)
  BY <1>1, <1>2, LivenedHelpers
<1>4. Livened([a EXCEPT !.at = "paying"], [b EXCEPT !.at = "paying"])
  BY <1>3, LivenedSets
<1>5. Livened(PP!sendTokenToServer(p), PP!sendTokenToServer(q))
  BY <1>1, <1>2, <1>4 DEF PP!sendTokenToServer
<1>6. PP!sendTokenToServer(p).at = "paying"
  <2>1. [a EXCEPT !.at = "paying"].at = "paying"
    BY <1>3 DEF Livened, IsPlain
  <2> QED BY <1>1, <2>1 DEF PP!sendTokenToServer
<1>7. ASSUME NEW code, NEW message PROVE PP!showError(q, code, message) = PP!showError(p, code, message)
  <2> DEFINE spentTicket == code \in 4000..4999
             kind == IF code = 4004 THEN "rejected" ELSE IF spentTicket THEN "spent" ELSE "retry"
             error == IF spentTicket THEN PP!Copy(kind) ELSE PP!Said(kind, message)
  <2>1. /\ PP!showError(p, code, message) =
              [PP!hideStatusPanel(PP!showFormError(p, error)) EXCEPT !.at = "form"]
        /\ PP!showError(q, code, message) =
              [PP!hideStatusPanel(PP!showFormError(q, error)) EXCEPT !.at = "form"]
    BY DEF PP!showError
  <2> HIDE DEF error
  <2>2. PP!showFormError(q, error) = PP!showFormError(p, error)
    BY LivenedHelpers
  <2> QED BY <2>1, <2>2
<1>8. PP!saleLost(q) = PP!saleLost(p)
  BY LivenedHelpers DEF PP!saleLost
<1> QED BY <1>5, <1>6, <1>7, <1>8

LEMMA LivenedSale ==
  ASSUME NEW p, NEW q, Livened(p, q), NEW sale
  PROVE  \/ PP!saleReplied(q, sale) = PP!saleReplied(p, sale)
         \/ /\ Livened(PP!saleReplied(p, sale), PP!saleReplied(q, sale))
            /\ PP!saleReplied(p, sale).at = "asking"
<1>1. CASE PP!Field(sale, "paynet-order-id") # ""
  <2>1. PICK a : a = PP!newOrder(p)
    OBVIOUS
  <2>2. PICK b : b = PP!newOrder(q)
    OBVIOUS
  <2>3. Livened(a, b)
    BY <2>1, <2>2, LivenedHelpers
  <2>4. Livened(PP!pollStatus(a), PP!pollStatus(b)) /\ PP!pollStatus(a).at = "asking"
    BY <2>3, LivenedHelpers
  <2>5. PP!saleReplied(p, sale) = PP!pollStatus(a) /\ PP!saleReplied(q, sale) = PP!pollStatus(b)
    BY <1>1, <2>1, <2>2 DEF PP!saleReplied
  <2> QED BY <2>4, <2>5
<1>2. CASE PP!Field(sale, "paynet-order-id") = ""
  <2> DEFINE message == IF PP!Field(sale, "error-message") # "" THEN sale["error-message"]
                                                                ELSE PP!Field(sale, "error")
             error == PP!Said("retry", message)
  <2>1. /\ PP!saleReplied(p, sale) =
              [PP!hideStatusPanel(PP!showFormError(p, error)) EXCEPT !.at = "form"]
        /\ PP!saleReplied(q, sale) =
              [PP!hideStatusPanel(PP!showFormError(q, error)) EXCEPT !.at = "form"]
    BY <1>2 DEF PP!saleReplied
  <2> HIDE DEF error
  <2>2. PP!showFormError(q, error) = PP!showFormError(p, error)
    BY LivenedHelpers
  <2> QED BY <2>1, <2>2
<1> QED BY <1>1, <1>2

LEMMA LivenedPolls ==
  ASSUME NEW p, NEW q, Livened(p, q), NEW data
  PROVE  /\ Livened(PP!statusReplied(p, data), PP!statusReplied(q, data))
         /\ PP!statusReplied(p, data).at \in {"sent", "over", "sleeping"}
         /\ Livened(PP!statusLost(p), PP!statusLost(q)) /\ PP!statusLost(p).at = "over"
         /\ Livened(PP!timerFired(p), PP!timerFired(q)) /\ PP!timerFired(p).at = "asking"
<1> DEFINE ends(o, said, to) == [PP!showStatus(o, said) EXCEPT !.at = to]
           sends(o) == [PP!showStatus(o, data) EXCEPT !.redirected = TRUE, !.at = "sent"]
<1>1. ASSUME NEW said, NEW to
      PROVE  Livened(ends(p, said, to), ends(q, said, to)) /\ ends(p, said, to).at = to
  <2>1. PICK a : a = PP!showStatus(p, said)
    OBVIOUS
  <2>2. PICK b : b = PP!showStatus(q, said)
    OBVIOUS
  <2>3. Livened(a, b)
    BY <2>1, <2>2, LivenedHelpers
  <2>4. Livened([a EXCEPT !.at = to], [b EXCEPT !.at = to])
    BY <2>3, LivenedSets
  <2>5. [a EXCEPT !.at = to].at = to
    BY <2>3 DEF Livened, IsPlain
  <2> QED BY <2>1, <2>2, <2>4, <2>5
<1>2. Livened(sends(p), sends(q)) /\ sends(p).at = "sent"
  <2>1. PICK a : a = PP!showStatus(p, data)
    OBVIOUS
  <2>2. PICK b : b = PP!showStatus(q, data)
    OBVIOUS
  <2>3. Livened(a, b)
    BY <2>1, <2>2, LivenedHelpers
  <2>4. PICK c : c = [a EXCEPT !.redirected = TRUE]
    OBVIOUS
  <2>5. PICK d : d = [b EXCEPT !.redirected = TRUE]
    OBVIOUS
  <2>6. Livened(c, d)
    BY <2>3, <2>4, <2>5, LivenedSets
  <2>7. Livened([c EXCEPT !.at = "sent"], [d EXCEPT !.at = "sent"])
    BY <2>6, LivenedSets
  <2>8. [c EXCEPT !.at = "sent"].at = "sent"
    BY <2>6 DEF Livened, IsPlain
  <2>9. sends(p) = [c EXCEPT !.at = "sent"] /\ sends(q) = [d EXCEPT !.at = "sent"]
    BY <2>1, <2>2, <2>4, <2>5
  <2> QED BY <2>7, <2>8, <2>9
<1>3. PICK status, noStatus, redirects, done :
        \A o: o.redirected = p.redirected /\ o.attempts = p.attempts =>
          PP!statusReplied(o, data) =
            IF status THEN ends(o, noStatus, "over")
            ELSE IF redirects THEN sends(o)
            ELSE IF done THEN ends(o, data, "over")
            ELSE IF p.attempts >= PollsMax THEN ends(o, PP!ErrorData(PP!TimeoutText), "over")
            ELSE ends(o, data, "sleeping")
  <2> DEFINE message == IF PP!Field(data, "error") = "" THEN PP!NoStatusText ELSE data["error"]
  <2> WITNESS PP!Field(data, "status") = "", PP!ErrorData(message),
              PP!Field(data, "redirect-to") # "" /\ ~p.redirected,
              PP!Field(data, "status") \in PP!FINAL_STATUSES
  <2> QED BY DEF PP!statusReplied
<1>4. q.redirected = p.redirected /\ q.attempts = p.attempts
  BY DEF Livened
<1> HIDE DEF ends, sends
<1>5. /\ Livened(PP!statusReplied(p, data), PP!statusReplied(q, data))
      /\ PP!statusReplied(p, data).at \in {"sent", "over", "sleeping"}
  <2>1. PICK a : a = PP!statusReplied(p, data)
    OBVIOUS
  <2>2. PICK b : b = PP!statusReplied(q, data)
    OBVIOUS
  <2>3. a = IF status THEN ends(p, noStatus, "over")
            ELSE IF redirects THEN sends(p)
            ELSE IF done THEN ends(p, data, "over")
            ELSE IF p.attempts >= PollsMax THEN ends(p, PP!ErrorData(PP!TimeoutText), "over")
            ELSE ends(p, data, "sleeping")
    BY <1>3, <2>1
  <2>4. b = IF status THEN ends(q, noStatus, "over")
            ELSE IF redirects THEN sends(q)
            ELSE IF done THEN ends(q, data, "over")
            ELSE IF p.attempts >= PollsMax THEN ends(q, PP!ErrorData(PP!TimeoutText), "over")
            ELSE ends(q, data, "sleeping")
    BY <1>3, <1>4, <2>2
  <2>5. Livened(a, b) /\ a.at \in {"sent", "over", "sleeping"}
    BY <1>1, <1>2, <2>3, <2>4
  <2> QED BY <2>1, <2>2, <2>5
<1>6. Livened(PP!statusLost(p), PP!statusLost(q)) /\ PP!statusLost(p).at = "over"
  BY <1>1 DEF PP!statusLost, ends
<1>7. Livened(PP!timerFired(p), PP!timerFired(q)) /\ PP!timerFired(p).at = "asking"
  BY LivenedHelpers DEF PP!timerFired
<1> QED BY <1>5, <1>6, <1>7

-----------------------------------------------------------------------------
(* One event reaches the pages that wait for it: both React pages or none, *)
(* and the plain page with them.                                           *)

LEMMA AtIs ==
  ASSUME NEW S
  PROVE  /\ 1 \in At(S) <=> plain.at \in S
         /\ 2 \in At(S) <=> NP!stands(next) \in S
         /\ 3 \in At(S) <=> GP!stands(goreact) \in S
         /\ At(S) \subseteq {1, 2, 3}
<1>1. DOMAIN Stands = 1..3
  BY DEF Stands
<1>2. /\ Stands[1] = plain.at /\ Stands[2] = NP!stands(next) /\ Stands[3] = GP!stands(goreact)
  BY DEF Stands
<1> QED BY <1>1, <1>2 DEF At

LEMMA ReactPagesWait ==
  ASSUME goreact = next, NEW S
  PROVE  2 \in At(S) <=> 3 \in At(S)
BY AtIs, OneView

LEMMA AllWait ==
  ASSUME NEW p, Together(p, next, late), plain.at = p.at, goreact = next, NEW S, At(S) # {}
  PROVE  1 \in At(S) /\ 2 \in At(S) /\ 3 \in At(S) /\ p.at \in S
<1>1. p.at = NP!stands(next) /\ GP!stands(goreact) = NP!stands(next)
  BY LooksTheSame, OneView
<1>2. PICK i \in {1, 2, 3} : i \in At(S)
  BY AtIs
<1> QED BY <1>1, <1>2, AtIs

LEMMA NoneWaits ==
  ASSUME WithoutSettings(plain, next), goreact = next, NEW S, "unusable" \notin S
  PROVE  At(S) = {}
<1>1. plain.at = "unusable" /\ NP!stands(next) = "unusable" /\ GP!stands(goreact) = "unusable"
  BY OneView DEF WithoutSettings
<1> QED BY <1>1, AtIs

LEMMA CanPressIs ==
  /\ 1 \in CanPress <=> 1 \in At(Mounted) /\ ~plain.disabled
  /\ 2 \in CanPress <=> 2 \in At(Mounted) /\ ~NP!disabled(next)
  /\ 3 \in CanPress <=> 3 \in At(Mounted) /\ ~GP!disabled(goreact)
  /\ CanPress \subseteq {1, 2, 3}
<1>1. DOMAIN Views = 1..3
  BY DEF Views
<1>2. Views[1] = PP!view(plain) /\ Views[2] = NP!view(next) /\ Views[3] = GP!view(goreact)
  BY DEF Views
<1>3. /\ Views[1].disabled = plain.disabled /\ Views[2].disabled = NP!disabled(next)
      /\ Views[3].disabled = GP!disabled(goreact)
  BY <1>2 DEF PP!view, NP!view, GP!view
<1> QED BY <1>1, <1>3, AtIs DEF CanPress

(* The React pages do the same. *)
LEMMA ReactPagesMove == ASSUME goreact = next, [FormsNext]_vars PROVE goreact' = next'
<1>1. ASSUME NEW config, Load(config) PROVE goreact' = next'
  BY <1>1, ReactPagesWait, OneLoading DEF Load, Each
<1>2. CASE BundleFails
  BY <1>2, ReactPagesWait, OneForm DEF BundleFails, Each
<1>3. CASE FieldsReady
  BY <1>3, ReactPagesWait, OneForm DEF FieldsReady, Each
<1>4. ASSUME NEW id, NEW text, Type(id, text) PROVE goreact' = next'
  BY <1>4, ReactPagesWait, OneKeyboard DEF Type, Each, Editable
<1>5. ASSUME NEW id, NEW text, FillIn(id, text) PROVE goreact' = next'
  BY <1>5, ReactPagesWait, OneKeyboard DEF FillIn, Each, Editable
<1>6. CASE Press
  <2>1. NP!disabled(next) = GP!disabled(goreact)
    <3>1. /\ NP!view(next).disabled = NP!disabled(next) /\ GP!view(next).disabled = GP!disabled(next)
      BY DEF NP!view, GP!view
    <3> QED BY <3>1, OneView
  <2>2. 2 \in CanPress <=> 3 \in CanPress
    BY <2>1, CanPressIs, ReactPagesWait
  <2> QED BY <1>6, <2>2, OneForm DEF Press, Each
<1>7. CASE TokenArrives
  BY <1>7, ReactPagesWait, OneForm DEF TokenArrives, Each, Tokenizing
<1>8. ASSUME NEW code, NEW message, TokenFails(code, message) PROVE goreact' = next'
  BY <1>8, ReactPagesWait, OneAnswer DEF TokenFails, Each, Tokenizing
<1>9. ASSUME NEW sale, SaleReplied(sale) PROVE goreact' = next'
  BY <1>9, ReactPagesWait, OneAnswer DEF SaleReplied, Each
<1>10. CASE SaleLost
  BY <1>10, ReactPagesWait, OneForm DEF SaleLost, Each
<1>11. ASSUME NEW data, StatusReplied(data) PROVE goreact' = next'
  BY <1>11, ReactPagesWait, OneHook DEF StatusReplied, Each
<1>12. CASE StatusLost
  BY <1>12, ReactPagesWait, OneHook DEF StatusLost, Each
<1>13. CASE TimerFires
  BY <1>13, ReactPagesWait, OneHook DEF TimerFires, Each
<1>14. CASE UNCHANGED vars
  BY <1>14 DEF vars
<1> QED BY <1>1, <1>2, <1>3, <1>4, <1>5, <1>6, <1>7, <1>8, <1>9, <1>10, <1>11, <1>12, <1>13, <1>14
        DEF FormsNext

(* What is posted: by both React pages or none, and the same. *)
LEMMA ReactPagesPost == ASSUME goreact = next, sent[2] = sent[3], [FormsNext]_vars PROVE sent'[2] = sent'[3]
<1>1. CASE sent' = sent
  BY <1>1
<1>2. CASE TokenArrives
  <2>1. /\ sent'[2] = IF 2 \in Tokenizing THEN <<NP!saleCustomer(next)>> ELSE sent[2]
        /\ sent'[3] = IF 3 \in Tokenizing THEN <<GP!saleCustomer(goreact)>> ELSE sent[3]
    BY <1>2 DEF TokenArrives
  <2>2. 2 \in Tokenizing <=> 3 \in Tokenizing
    BY ReactPagesWait DEF Tokenizing
  <2>3. GP!saleCustomer(goreact) = NP!saleCustomer(next)
    BY OneSale
  <2> QED BY <2>1, <2>2, <2>3
<1>3. sent' = sent \/ TokenArrives
  BY DEF FormsNext, vars, Quiet, Edited, Load, BundleFails, FieldsReady, Type, FillIn, Press,
         TokenFails, SaleReplied, SaleLost, StatusReplied, StatusLost, TimerFires
<1> QED BY <1>1, <1>2, <1>3

(* The three pages post the same customer while they are together. *)
LEMMA AllPost ==
  ASSUME goreact = next, NEW p, Together(p, next, late), Wears(p, plain, reloaded),
         sent[1] = sent[2], [FormsNext]_vars
  PROVE  sent'[1] = sent'[2]
<1>1. CASE sent' = sent
  BY <1>1
<1>2. CASE TokenArrives
  <2>1. plain.at = p.at /\ plain.value = p.value
    BY DEF Wears, Livened
  <2>2. 1 \in Tokenizing /\ 2 \in Tokenizing
    BY <1>2, <2>1, AllWait DEF TokenArrives, Each, Tokenizing
  <2>3. sent'[1] = <<PP!saleCustomer(plain)>> /\ sent'[2] = <<NP!saleCustomer(next)>>
    BY <1>2, <2>2 DEF TokenArrives
  <2>4. next.latest = p.value
    BY DEF Together, SameFields
  <2>5. PP!saleCustomer(plain) = Customer(p.value) /\ NP!saleCustomer(next) = Customer(p.value)
    BY <2>1, <2>4, OneSale
  <2> QED BY <2>3, <2>5
<1>3. sent' = sent \/ TokenArrives
  BY DEF FormsNext, vars, Quiet, Edited, Load, BundleFails, FieldsReady, Type, FillIn, Press,
         TokenFails, SaleReplied, SaleLost, StatusReplied, StatusLost, TimerFires
<1> QED BY <1>1, <1>2, <1>3

(* A field that is ready again: the React pages take no notice. *)
LEMMA ReadyAgainKeeps ==
  ASSUME NEW p, NEW n, NEW l, Together(p, n, l), p.at \in Mounted
  PROVE  NP!onReady(n) = n
<1>1. n.ready = TRUE /\ n.at # "script" /\ IsReact(n)
  <2>1. Filling(p, n) \/ Paying(p, n, l) \/ Waiting(p, n)
    BY DEF Together, Loading, Unavailable, Mounted, UnderWay
  <2>2. CASE Filling(p, n)
    BY <2>2 DEF Filling, Unpaid, Together
  <2>3. CASE Paying(p, n, l)
    BY <2>3 DEF Paying, InFlight, Unpaid, Together
  <2>4. CASE Waiting(p, n)
    BY <2>4 DEF Waiting, InFlight, Together
  <2> QED BY <2>1, <2>2, <2>3, <2>4
<1>2. NP!onReady(n) = [n EXCEPT !.ready = n.ready, !.at = n.at]
  BY <1>1 DEF NP!onReady
<1> QED BY <1>1, <1>2 DEF IsReact

(* Only a page whose form is live lets all three be pressed. *)
LEMMA PressedTogether ==
  ASSUME NEW p, NEW n, NEW l, Together(p, n, l), ~NP!disabled(n), p.at \in Mounted
  PROVE  p.at = "form" /\ p.disabled = FALSE /\ p.label = "pay"
<1>1. p.disabled = NP!disabled(n)
  BY LooksTheSame
<1>2. CASE Filling(p, n)
  <2>1. ~Dead(n.formError)
    BY <1>1, <1>2 DEF Filling
  <2>2. p.at = "form" /\ p.label = "pay" /\ p.disabled = Dead(n.formError)
    BY <1>2, <2>1 DEF Filling
  <2>3. p.disabled = FALSE
    <3>1. Dead(n.formError) = FALSE
      BY <2>1 DEF Dead
    <3> QED BY <2>2, <3>1
  <2> QED BY <2>2, <2>3
<1>3. CASE Paying(p, n, l) \/ Waiting(p, n)
  BY <1>1, <1>3 DEF Paying, Waiting, InFlight
<1> QED BY <1>2, <1>3 DEF Together, Loading, Unavailable, Mounted, UnderWay

(* Pages that are together stay so, unless a field is filled in silently,  *)
(* a revived button is pressed or the settings are lost.                   *)
LEMMA PagesStay ==
  ASSUME goreact = next, NEW p, Together(p, next, late), Wears(p, plain, reloaded), [FormsNext]_vars
  PROVE  silent' \/ apart' \/ SideBySide(plain', next', late', reloaded')
<1> DEFINE Stay == silent' \/ apart' \/ SideBySide(plain', next', late', reloaded')
<1> SUFFICES Stay
  OBVIOUS
<1>1. plain.at = p.at /\ IsPlain(p) /\ p.value = [f \in FieldIds |-> p.value[f]]
  BY DEF Wears, Livened, Together, SameFields
<1>2. ASSUME NEW o, Together(o, next', late'), plain' = o PROVE Stay
  BY <1>2 DEF SideBySide, Wears
<1>3. ASSUME NEW o, Together(o, next', late'), Livened(o, plain'), o.at \notin Early, reloaded' PROVE Stay
  BY <1>3 DEF SideBySide, Wears
<1>4. plain = p \/ (reloaded /\ Livened(p, plain) /\ p.at \notin Early)
  BY DEF Wears
<1>5. /\ "paying" \notin Early /\ "asking" \notin Early /\ "over" \notin Early
      /\ "sent" \notin Early /\ "sleeping" \notin Early
      /\ "new" \in Early /\ "script" \in Early /\ \A at \in Mounted: at \notin Early
  BY DEF Early, Mounted, UnderWay
<1> HIDE DEF Stay
<1>6. ASSUME NEW config \in {"ticket", "none", "lost"}, Load(config) PROVE Stay
  <2>1. 1 \in At({"new"}) /\ 2 \in At({"new"}) /\ p.at = "new"
    BY <1>1, <1>6, AllWait DEF Load, Each
  <2>2. plain = p
    BY <1>4, <1>5, <2>1
  <2>3. /\ plain' = PP!load(p, config) /\ late' = late
        /\ next' = NP!load(next, IF config = "lost" THEN "none" ELSE config)
    BY <1>6, <2>1, <2>2 DEF Load, Each, Quiet
  <2>4. WithoutSettings(plain', next') \/ Together(plain', next', late')
    BY <2>1, <2>3, LoadKeeps
  <2>5. CASE WithoutSettings(plain', next')
    BY <2>5 DEF SideBySide, Stay
  <2> QED BY <1>2, <2>4, <2>5
<1>7. CASE BundleFails
  <2>1. 1 \in At({"script"}) /\ 2 \in At({"script"}) /\ p.at = "script"
    BY <1>1, <1>7, AllWait DEF BundleFails, Each
  <2>2. plain = p
    BY <1>4, <1>5, <2>1
  <2>3. plain' = PP!scriptFailed(p) /\ next' = NP!scriptFailed(next) /\ late' = late
    BY <1>7, <2>1, <2>2 DEF BundleFails, Each, Quiet
  <2> QED BY <1>2, <2>1, <2>3, ScriptFailureKeeps
<1>8. CASE FieldsReady
  <2>1. /\ 1 \in At({"script"} \cup Mounted) /\ 2 \in At({"script"} \cup Mounted)
        /\ p.at \in {"script"} \cup Mounted
    BY <1>1, <1>8, AllWait DEF FieldsReady, Each
  <2>2. plain' = PP!onReady(plain) /\ next' = NP!onReady(next) /\ late' = late
    BY <1>8, <2>1 DEF FieldsReady, Each
  <2>3. CASE p.at = "script"
    <3>1. plain = p
      BY <1>4, <1>5, <2>3
    <3> QED BY <1>2, <2>2, <2>3, <3>1, ReadyKeeps
  <2>4. CASE p.at \in Mounted
    <3>1. 1 \in At(Mounted)
      BY <1>1, <2>4, AtIs
    <3>2. reloaded'
      BY <1>8, <3>1 DEF FieldsReady
    <3>3. next' = next
      BY <2>2, <2>4, ReadyAgainKeeps
    <3>4. p.at # "script"
      BY <1>5, <2>4
    <3>5. Livened(p, plain')
      BY <1>1, <1>4, <2>2, <3>4, ReadyRevives
    <3> QED BY <1>3, <1>5, <2>2, <2>4, <3>2, <3>3, <3>5
  <2> QED BY <2>1, <2>3, <2>4
<1>9. ASSUME NEW id \in FieldIds, NEW text, Type(id, text) PROVE Stay
  <2>1. 1 \in Editable /\ 2 \in Editable
    BY <1>1, <1>9, AllWait DEF Type, Each, Editable
  <2>2. plain' = PP!typed(plain, id, text) /\ next' = NP!typed(next, id, text)
    BY <1>9, <2>1 DEF Type, Each
  <2>3. late' = (late \/ At({"tokenizing", "paying"}) # {}) /\ reloaded' = reloaded
    BY <1>9 DEF Type, Edited
  <2>4. p.at \in {"tokenizing", "paying"} => At({"tokenizing", "paying"}) # {}
    BY <1>1, AtIs
  <2>5. (late => late') /\ (p.at \in {"tokenizing", "paying"} => late')
    BY <2>3, <2>4
  <2>6. Together(PP!typed(p, id, text), next', late')
    <3>1. PICK k : k = late'
      OBVIOUS
    <3>2. (late => k) /\ (p.at \in {"tokenizing", "paying"} => k)
      BY <2>5, <3>1
    <3>3. Together(PP!typed(p, id, text), NP!typed(next, id, text), k)
      BY <1>9, <3>2, TypingKeeps
    <3> QED BY <2>2, <3>1, <3>3
  <2>7. CASE plain = p
    BY <1>2, <2>2, <2>6, <2>7
  <2>8. CASE reloaded /\ Livened(p, plain) /\ p.at \notin Early
    <3>1. Livened(PP!typed(p, id, text), plain') /\ PP!typed(p, id, text).at = p.at
      BY <1>1, <2>2, <2>8, LivenedTyped
    <3> QED BY <1>3, <2>3, <2>6, <2>8, <3>1
  <2> QED BY <1>4, <2>7, <2>8
<1>10. ASSUME NEW id, NEW text, FillIn(id, text) PROVE Stay
  BY <1>10 DEF FillIn, Stay
<1>11. CASE Press
  <2>1. DOMAIN Views = 1..3
    BY DEF Views
  <2>2. CASE 2 \notin CanPress
    <3>1. CanPress # DOMAIN Views
      BY <2>1, <2>2
    <3>2. apart'
      BY <1>11, <3>1 DEF Press
    <3> QED BY <3>2 DEF Stay
  <2>3. CASE 2 \in CanPress
    <3>1. 2 \in At(Mounted) /\ ~NP!disabled(next)
      BY <2>3, CanPressIs
    <3>2. 1 \in At(Mounted) /\ p.at \in Mounted
      BY <1>1, <3>1, AllWait
    <3>3. p.at = "form" /\ p.disabled = FALSE /\ p.label = "pay"
      BY <3>1, <3>2, PressedTogether
    <3>4. plain = p
      <4>1. CASE Livened(p, plain)
        BY <3>3, <4>1 DEF Livened, IsPlain
      <4> QED BY <1>4, <4>1
    <3>5. 1 \in CanPress
      BY <3>2, <3>3, <3>4, CanPressIs
    <3>6. plain' = PP!submit(p) /\ next' = NP!handleSubmit(next) /\ late' = FALSE
      BY <1>11, <2>3, <3>4, <3>5 DEF Press, Each
    <3> QED BY <1>2, <3>3, <3>6, PressKeeps
  <2> QED BY <2>2, <2>3
<1>12. CASE TokenArrives
  <2>1. 1 \in Tokenizing /\ 2 \in Tokenizing /\ p.at = "tokenizing"
    BY <1>1, <1>12, AllWait DEF TokenArrives, Each, Tokenizing
  <2>2. /\ plain' = PP!sendTokenToServer(plain) /\ next' = NP!sendTokenToServer(next)
        /\ late' = late /\ reloaded' = reloaded
    BY <1>12, <2>1 DEF TokenArrives, Each
  <2>3. Together(PP!sendTokenToServer(p), next', late')
    BY <2>1, <2>2, TokenKeeps
  <2>4. CASE plain = p
    BY <1>2, <2>2, <2>3, <2>4
  <2>5. CASE reloaded /\ Livened(p, plain)
    <3>1. Livened(PP!sendTokenToServer(p), plain') /\ PP!sendTokenToServer(p).at = "paying"
      BY <2>2, <2>5, LivenedPays
    <3> QED BY <1>3, <1>5, <2>2, <2>3, <2>5, <3>1
  <2> QED BY <1>4, <2>4, <2>5
<1>13. ASSUME NEW code, NEW message, TokenFails(code, message) PROVE Stay
  <2>1. 1 \in Tokenizing /\ 2 \in Tokenizing /\ p.at = "tokenizing"
    BY <1>1, <1>13, AllWait DEF TokenFails, Each, Tokenizing
  <2>2. /\ plain' = PP!showError(plain, code, message) /\ next' = NP!showError(next, code, message)
        /\ late' = late
    BY <1>13, <2>1 DEF TokenFails, Each, Quiet
  <2>3. plain' = PP!showError(p, code, message)
    <3>1. CASE plain = p
      BY <2>2, <3>1
    <3>2. CASE Livened(p, plain)
      <4>1. \A c, m: PP!showError(plain, c, m) = PP!showError(p, c, m)
        BY <3>2, LivenedPays
      <4> QED BY <2>2, <4>1
    <3> QED BY <1>4, <3>1, <3>2
  <2>4. Together(PP!showError(p, code, message), next', late')
    BY <2>1, <2>2, ErrorKeeps
  <2> QED BY <1>2, <2>3, <2>4
<1>14. ASSUME NEW sale \in SaleReplies, SaleReplied(sale) PROVE Stay
  <2>1. 1 \in At({"paying"}) /\ 2 \in At({"paying"}) /\ p.at = "paying"
    BY <1>1, <1>14, AllWait DEF SaleReplied, Each
  <2>2. /\ plain' = PP!saleReplied(plain, sale) /\ next' = NP!saleReplied(next, sale)
        /\ late' = late /\ reloaded' = reloaded
    BY <1>14, <2>1 DEF SaleReplied, Each, Quiet
  <2>3. Together(PP!saleReplied(p, sale), next', late')
    BY <2>1, <2>2, SaleKeeps
  <2>4. CASE plain' = PP!saleReplied(p, sale)
    BY <1>2, <2>3, <2>4
  <2>5. CASE /\ reloaded /\ Livened(PP!saleReplied(p, sale), plain')
             /\ PP!saleReplied(p, sale).at = "asking"
    BY <1>3, <1>5, <2>2, <2>3, <2>5
  <2> QED BY <1>4, <2>2, <2>4, <2>5, LivenedSale
<1>15. CASE SaleLost
  <2>1. 1 \in At({"paying"}) /\ 2 \in At({"paying"}) /\ p.at = "paying"
    BY <1>1, <1>15, AllWait DEF SaleLost, Each
  <2>2. plain' = PP!saleLost(plain) /\ next' = NP!saleLost(next) /\ late' = late
    BY <1>15, <2>1 DEF SaleLost, Each, Quiet
  <2>3. plain' = PP!saleLost(p)
    BY <1>4, <2>2, LivenedPays
  <2> QED BY <1>2, <2>1, <2>2, <2>3, SaleLossKeeps
<1>16. ASSUME NEW data, StatusReplied(data) PROVE Stay
  <2>1. 1 \in At({"asking"}) /\ 2 \in At({"asking"}) /\ p.at = "asking"
    BY <1>1, <1>16, AllWait DEF StatusReplied, Each
  <2>2. /\ plain' = PP!statusReplied(plain, data) /\ late' = late /\ reloaded' = reloaded
        /\ next' = [next EXCEPT !.watch = NP!statusReplied(@, Len(@.runs), data)]
    BY <1>16, <2>1 DEF StatusReplied, Each, Quiet
  <2>3. Together(PP!statusReplied(p, data), next', late')
    BY <2>1, <2>2, StatusKeeps
  <2>4. CASE plain = p
    BY <1>2, <2>2, <2>3, <2>4
  <2>5. CASE reloaded /\ Livened(p, plain)
    <3>1. /\ Livened(PP!statusReplied(p, data), plain')
          /\ PP!statusReplied(p, data).at \in {"sent", "over", "sleeping"}
      BY <2>2, <2>5, LivenedPolls
    <3> QED BY <1>3, <1>5, <2>2, <2>3, <2>5, <3>1
  <2> QED BY <1>4, <2>4, <2>5
<1>17. CASE StatusLost
  <2>1. 1 \in At({"asking"}) /\ 2 \in At({"asking"}) /\ p.at = "asking"
    BY <1>1, <1>17, AllWait DEF StatusLost, Each
  <2>2. /\ plain' = PP!statusLost(plain) /\ late' = late /\ reloaded' = reloaded
        /\ next' = [next EXCEPT !.watch = NP!statusLost(@, Len(@.runs))]
    BY <1>17, <2>1 DEF StatusLost, Each, Quiet
  <2>3. Together(PP!statusLost(p), next', late')
    BY <2>1, <2>2, StatusLossKeeps
  <2>4. CASE plain = p
    BY <1>2, <2>2, <2>3, <2>4
  <2>5. CASE reloaded /\ Livened(p, plain)
    <3>1. Livened(PP!statusLost(p), plain') /\ PP!statusLost(p).at = "over"
      BY <2>2, <2>5, LivenedPolls
    <3> QED BY <1>3, <1>5, <2>2, <2>3, <2>5, <3>1
  <2> QED BY <1>4, <2>4, <2>5
<1>18. CASE TimerFires
  <2>1. 1 \in At({"sleeping"}) /\ 2 \in At({"sleeping"}) /\ p.at = "sleeping"
    BY <1>1, <1>18, AllWait DEF TimerFires, Each
  <2>2. /\ plain' = PP!timerFired(plain) /\ late' = late /\ reloaded' = reloaded
        /\ next' = [next EXCEPT !.watch = NP!timerFired(@, Len(@.runs))]
    BY <1>18, <2>1 DEF TimerFires, Each, Quiet
  <2>3. Together(PP!timerFired(p), next', late')
    BY <2>1, <2>2, TimerKeeps
  <2>4. CASE plain = p
    BY <1>2, <2>2, <2>3, <2>4
  <2>5. CASE reloaded /\ Livened(p, plain)
    <3>1. Livened(PP!timerFired(p), plain') /\ PP!timerFired(p).at = "asking"
      BY <2>2, <2>5, LivenedPolls
    <3> QED BY <1>3, <1>5, <2>2, <2>3, <2>5, <3>1
  <2> QED BY <1>4, <2>4, <2>5
<1>19. CASE UNCHANGED vars
  <2>1. plain' = plain /\ next' = next /\ late' = late /\ reloaded' = reloaded
    BY <1>19 DEF vars
  <2> QED BY <2>1 DEF SideBySide, Stay
<1> QED BY <1>6, <1>7, <1>8, <1>9, <1>10, <1>11, <1>12, <1>13, <1>14, <1>15, <1>16, <1>17, <1>18, <1>19
        DEF FormsNext

(* Without its settings a page waits for nothing. *)
LEMMA NothingHappens ==
  ASSUME goreact = next, WithoutSettings(plain, next), [FormsNext]_vars
  PROVE  UNCHANGED vars
<1>1. \A S: "unusable" \notin S => At(S) = {}
  BY NoneWaits
<1>2. /\ At({"new"}) = {} /\ At({"script"}) = {} /\ At({"paying"}) = {}
      /\ At({"asking"}) = {} /\ At({"sleeping"}) = {} /\ At({"tokenizing"}) = {}
  BY <1>1
<1>3. At(Mounted) = {} /\ At({"script"} \cup Mounted) = {}
  <2>1. "unusable" \notin Mounted /\ "unusable" \notin {"script"} \cup Mounted
    BY DEF Mounted, UnderWay
  <2> QED BY <1>1, <2>1
<1>4. Editable = {} /\ CanPress = {} /\ Tokenizing = {}
  BY <1>2, <1>3 DEF Editable, CanPress, Tokenizing
<1> QED BY <1>2, <1>3, <1>4
        DEF FormsNext, Each, Load, BundleFails, FieldsReady, Type, FillIn, Press, TokenArrives,
            TokenFails, SaleReplied, SaleLost, StatusReplied, StatusLost, TimerFires

LEMMA FormsStart == FormsInit => FormsInv
<1> SUFFICES ASSUME FormsInit PROVE FormsInv
  OBVIOUS
<1>1. goreact = next
  BY OneStart DEF FormsInit
<1>2. plain = PP!markup /\ next = NP!CheckoutForm /\ late = FALSE
  BY DEF FormsInit
<1>3. IsPlain(plain)
  BY <1>2 DEF IsPlain, PP!markup
<1>4. IsReact(next)
  BY <1>2 DEF IsReact, NP!CheckoutForm
<1>5. SameFields(plain, next, late)
  <2>1. EmptyCustomer = [id \in FieldIds |-> EmptyCustomer[id]]
    BY DEF EmptyCustomer
  <2> QED BY <1>2, <2>1, OneVocabulary DEF SameFields, PP!markup, NP!CheckoutForm
<1>6. Loading(plain, next)
  BY <1>2, OneVocabulary DEF Loading, Unpaid, PP!markup, NP!CheckoutForm, NP!NoOrder
<1>7. sent[1] = sent[2] /\ sent[2] = sent[3]
  BY DEF FormsInit
<1> QED BY <1>1, <1>3, <1>4, <1>5, <1>6, <1>7 DEF FormsInv, SideBySide, Wears, Together

LEMMA FormsStay == FormsInv /\ [FormsNext]_vars => FormsInv'
<1> SUFFICES ASSUME FormsInv, [FormsNext]_vars PROVE FormsInv'
  OBVIOUS
<1>1. goreact' = next'
  BY ReactPagesMove DEF FormsInv
<1>2. sent'[2] = sent'[3]
  BY ReactPagesPost DEF FormsInv
<1>3. silent' \/ apart' \/ (sent'[1] = sent'[2] /\ SideBySide(plain', next', late', reloaded'))
  <2>1. CASE silent \/ apart
    <3>1. silent => silent'
      BY DEF FormsNext, vars, Quiet, Edited, Load, BundleFails, FieldsReady, Type, FillIn, Press,
             TokenArrives, TokenFails, SaleReplied, SaleLost, StatusReplied, StatusLost, TimerFires
    <3>2. apart => apart'
      BY DEF FormsNext, vars, Quiet, Edited, Load, BundleFails, FieldsReady, Type, FillIn, Press,
             TokenArrives, TokenFails, SaleReplied, SaleLost, StatusReplied, StatusLost, TimerFires
    <3> QED BY <2>1, <3>1, <3>2
  <2>2. CASE sent[1] = sent[2] /\ WithoutSettings(plain, next)
    <3>1. UNCHANGED vars
      BY <2>2, NothingHappens DEF FormsInv
    <3>2. plain' = plain /\ next' = next /\ sent' = sent
      BY <3>1 DEF vars
    <3> QED BY <2>2, <3>2 DEF SideBySide
  <2>3. ASSUME NEW p, Together(p, next, late), Wears(p, plain, reloaded), sent[1] = sent[2]
        PROVE  silent' \/ apart' \/ (sent'[1] = sent'[2] /\ SideBySide(plain', next', late', reloaded'))
    BY <2>3, PagesStay, AllPost DEF FormsInv
  <2> QED BY <2>1, <2>2, <2>3 DEF FormsInv, SideBySide
<1> QED BY <1>1, <1>2, <1>3 DEF FormsInv

(* Pages that are together look the same, but for a revived button. *)
LEMMA TogetherReadsTheSame == FormsInv => SamePage
<1> SUFFICES ASSUME FormsInv, ~silent, ~apart, ~ConfigLost PROVE \A v \in ReactViews: Read(v) = Read(PlainView)
  BY DEF SamePage, FormsInv
<1> SUFFICES ASSUME NEW v \in ReactViews PROVE Read(v) = Read(PlainView)
  OBVIOUS
<1>1. v = NP!view(next) /\ PlainView = PP!view(plain)
  BY OneView DEF FormsInv, ReactViews, PlainView, Views
<1>2. PICK p : Together(p, next, late) /\ Wears(p, plain, reloaded)
  <2>1. PP!view(plain).at = plain.at /\ PP!view(plain).label = plain.label
    BY DEF PP!view
  <2> QED BY <1>1, <2>1 DEF FormsInv, SideBySide, WithoutSettings, ConfigLost
<1>3. /\ NP!stands(next) = p.at /\ NP!label(next) = p.label
      /\ NP!disabled(next) = p.disabled /\ NP!panel(next) = p.panel
  BY <1>2, LooksTheSame
<1>4. p.value = next.value /\ p.error = next.formError /\ (late \/ p.hint = next.problems)
  BY <1>2 DEF Together, SameFields
<1>5. /\ plain.value = p.value /\ plain.hint = p.hint /\ plain.error = p.error
      /\ plain.panel = p.panel /\ plain.at = p.at
  BY <1>2 DEF Wears, Livened
<1>6. Revived \/ (plain.label = p.label /\ plain.disabled = p.disabled)
  <2>1. PlainView.label = plain.label /\ PlainView.disabled = plain.disabled
    BY <1>1 DEF PP!view
  <2> QED BY <1>2, <2>1 DEF Wears, Livened, Revived
<1> HIDE DEF Revived
<1>7. PICK h, d, l : h = NoProblems /\ d = FALSE /\ l = "pay"
  OBVIOUS
<1>8. ASSUME NEW value, NEW hint, NEW label, NEW disabled, NEW error, NEW panel, NEW at
      PROVE  Read([value |-> value, hint |-> hint, label |-> label, disabled |-> disabled,
                   error |-> error, panel |-> panel, at |-> at])
               = [value |-> value, hint |-> IF late THEN h ELSE hint,
                  label |-> IF Revived THEN l ELSE label,
                  disabled |-> IF Revived THEN d ELSE disabled, error |-> error, panel |-> panel, at |-> at]
  <2>1. PICK u : u = [value |-> value, hint |-> hint, label |-> label, disabled |-> disabled,
                      error |-> error, panel |-> panel, at |-> at]
    OBVIOUS
  <2>2. PICK a : a = IF late THEN h ELSE hint
    OBVIOUS
  <2>3. PICK b : b = IF Revived THEN d ELSE disabled
    OBVIOUS
  <2>4. PICK c : c = IF Revived THEN l ELSE label
    OBVIOUS
  <2>5. u.hint = hint /\ u.disabled = disabled /\ u.label = label
    BY <2>1
  <2>6. Read(u) = [u EXCEPT !.hint = IF late THEN NoProblems ELSE u.hint,
                            !.disabled = IF Revived THEN FALSE ELSE u.disabled,
                            !.label = IF Revived THEN "pay" ELSE u.label]
    BY <2>1 DEF Read
  <2>7. Read(u) = [u EXCEPT !.hint = a, !.disabled = b, !.label = c]
    BY <1>7, <2>2, <2>3, <2>4, <2>5, <2>6
  <2>8. [u EXCEPT !.hint = a, !.disabled = b, !.label = c]
          = [value |-> value, hint |-> a, label |-> c, disabled |-> b,
             error |-> error, panel |-> panel, at |-> at]
    <3>1. PICK x : x = [u EXCEPT !.hint = a]
      OBVIOUS
    <3>2. x = [value |-> value, hint |-> a, label |-> label, disabled |-> disabled,
               error |-> error, panel |-> panel, at |-> at]
      BY <2>1, <3>1
    <3>3. PICK y : y = [x EXCEPT !.disabled = b]
      OBVIOUS
    <3>4. y = [value |-> value, hint |-> a, label |-> label, disabled |-> b,
               error |-> error, panel |-> panel, at |-> at]
      BY <3>2, <3>3
    <3>5. [y EXCEPT !.label = c] = [value |-> value, hint |-> a, label |-> c, disabled |-> b,
                                    error |-> error, panel |-> panel, at |-> at]
      BY <3>4
    <3>6. [u EXCEPT !.hint = a, !.disabled = b, !.label = c] = [y EXCEPT !.label = c]
      BY <3>1, <3>3
    <3> QED BY <3>5, <3>6
  <2> QED BY <2>1, <2>2, <2>3, <2>4, <2>7, <2>8
<1>9. Read(v) = [value |-> next.value, hint |-> IF late THEN h ELSE next.problems,
                 label |-> IF Revived THEN l ELSE p.label,
                 disabled |-> IF Revived THEN d ELSE p.disabled, error |-> next.formError,
                 panel |-> p.panel, at |-> p.at]
  BY <1>1, <1>3, <1>8 DEF NP!view
<1>10. Read(PlainView) = [value |-> plain.value, hint |-> IF late THEN h ELSE plain.hint,
                          label |-> IF Revived THEN l ELSE plain.label,
                          disabled |-> IF Revived THEN d ELSE plain.disabled, error |-> plain.error,
                          panel |-> plain.panel, at |-> plain.at]
  BY <1>1, <1>8 DEF PP!view
<1> QED BY <1>4, <1>5, <1>6, <1>9, <1>10

(* checkout-form.tsx:58 and :79: for any texts, codes and replies the      *)
(* three pages stand at the same step with the same values, error, panel   *)
(* and button, and post the same customer, but for the hints of a field    *)
(* edited under a payment and the button of a plain page whose field was   *)
(* loaded again - as long as every edit announces itself, the settings     *)
(* have loaded and the payer has not pressed such a button.                *)
THEOREM ThreePagesReadTheSame == FormsSpec => []SamePage
<1>1. FormsInit => FormsInv
  BY FormsStart
<1>2. FormsInv /\ [FormsNext]_vars => FormsInv'
  BY FormsStay
<1>3. FormsInv => SamePage
  BY TogetherReadsTheSame
<1> QED BY <1>1, <1>2, <1>3, PTL DEF FormsSpec

-----------------------------------------------------------------------------
(* The suggested name.  It is made of texts of any length, so the proof    *)
(* counts; as in the end-to-end suite it counts by the least number that   *)
(* fails, the induction theorems of the library being out of reach here.   *)

LEMMA LeastIsThere ==
  ASSUME NEW S \in SUBSET Nat, S # {}
  PROVE  \E x \in S: \A y \in S: x <= y
<1> DEFINE Below == {1..i: i \in S}
<1>1. Below \subseteq FiniteSubsetsOf(Nat) /\ Below # {}
  <2>1. ASSUME NEW i \in S PROVE IsFiniteSet(1..i) /\ 1..i \subseteq Nat
    BY FS_Interval
  <2> QED BY <2>1 DEF FiniteSubsetsOf
<1>2. PICK U \in Below: \A V \in Below: ~(<<V, U>> \in StrictSubsetOrdering(Nat))
  <2>1. IsWellFoundedOn(StrictSubsetOrdering(Nat), FiniteSubsetsOf(Nat))
    BY FS_StrictSubsetOrderingWellFounded
  <2> HIDE DEF Below
  <2> QED BY <1>1, <2>1, WFMin
<1>3. PICK x \in S: U = 1..x
  OBVIOUS
<1>4. ASSUME NEW y \in S, y < x PROVE FALSE
  <2>1. 1..y \in SUBSET Nat /\ 1..x \in SUBSET Nat
    OBVIOUS
  <2>2. x \in 1..x /\ x \notin 1..y /\ 1..y \subseteq 1..x
    BY <1>4
  <2>3. <<1..y, 1..x>> \in StrictSubsetOrdering(Nat)
    BY <2>1, <2>2 DEF StrictSubsetOrdering
  <2> QED BY <1>2, <1>3, <2>3
<1>5. ASSUME NEW y \in S PROVE x <= y
  BY <1>4
<1> QED BY <1>5

(* The first and the last of some places. *)
LEMMA EndsAreThere ==
  ASSUME NEW m \in Nat, NEW S \in SUBSET (1..m), S # {}
  PROVE  Min(S) \in S /\ Max(S) \in S /\ \A x \in S: Min(S) <= x /\ x <= Max(S)
<1>1. \E x \in S: \A y \in S: x <= y
  BY LeastIsThere
<1>2. \E x \in S: \A y \in S: x >= y
  <2> DEFINE Rest == {m - x: x \in S}
  <2>1. Rest \in SUBSET Nat /\ Rest # {}
    <3>1. \A x \in S: m - x \in Nat
      OBVIOUS
    <3>2. \E x \in S: m - x \in Rest
      OBVIOUS
    <3> QED BY <3>1, <3>2
  <2>2. PICK r \in Rest: \A q \in Rest: r <= q
    <3> HIDE DEF Rest
    <3> QED BY <2>1, LeastIsThere
  <2>3. PICK x \in S: r = m - x
    BY <2>2
  <2>4. ASSUME NEW y \in S PROVE x >= y
    <3>1. m - x <= m - y
      BY <2>2, <2>3
    <3> QED BY <3>1
  <2> QED BY <2>4
<1>3. Min(S) \in S /\ \A x \in S: Min(S) <= x
  BY <1>1 DEF Min
<1>4. Max(S) \in S /\ \A x \in S: Max(S) >= x
  BY <1>2 DEF Max
<1> QED BY <1>3, <1>4

LEMMA Counting ==
  ASSUME NEW S, 0 \in S, \A n \in Nat: n \in S => n + 1 \in S
  PROVE  \A n \in Nat: n \in S
<1> SUFFICES ASSUME Nat \ S # {} PROVE FALSE
  OBVIOUS
<1>1. PICK least \in Nat \ S: \A n \in Nat \ S: least <= n
  BY LeastIsThere
<1>2. least # 0 /\ least - 1 \in Nat /\ ~(least <= least - 1)
  OBVIOUS
<1>3. least - 1 \in S
  BY <1>1, <1>2
<1>4. (least - 1) + 1 = least
  OBVIOUS
<1> QED BY <1>2, <1>3, <1>4

(* A function on lo..n may be defined by recursion, in one way only.       *)
Iterates(f, lo, n, first, step) ==
  f[lo] = first /\ \A i \in lo..n: i # lo => f[i] = step[<<i, f[i - 1]>>]
GoOnAlike(f, g, lo, n) ==
  f[lo] = g[lo] /\ \A i \in lo..n: i # lo /\ f[i - 1] = g[i - 1] => f[i] = g[i]
Alike(f, g, lo, n) == \A i \in lo..n: f[i] = g[i]

LEMMA Recursion ==
  ASSUME NEW V, NEW lo \in Nat, NEW n \in Nat, lo <= n, NEW first \in V,
         NEW step \in [(lo..n) \X V -> V]
  PROVE  \E f \in [lo..n -> V]: Iterates(f, lo, n, first, step)
<1> DEFINE Solves(f, m) == Iterates(f, lo, m, first, step)
           Solved == {k \in Nat: lo + k <= n => \E f \in [lo..(lo + k) -> V]: Solves(f, lo + k)}
<1>1. 0 \in Solved
  <2> DEFINE f == [i \in lo..lo |-> first]
  <2>1. lo + 0 = lo /\ lo..lo = {lo}
    OBVIOUS
  <2>2. f \in [lo..lo -> V] /\ Solves(f, lo)
    BY <2>1 DEF Iterates
  <2> QED BY <2>1, <2>2
<1>2. ASSUME NEW k \in Nat, k \in Solved PROVE k + 1 \in Solved
  <2> SUFFICES ASSUME lo + (k + 1) <= n
               PROVE  \E g \in [lo..(lo + (k + 1)) -> V]: Solves(g, lo + (k + 1))
    OBVIOUS
  <2>1. PICK f \in [lo..(lo + k) -> V]: Solves(f, lo + k)
    BY <1>2
  <2> DEFINE m == lo + (k + 1)
             g == [i \in lo..m |-> IF i = m THEN step[<<m, f[lo + k]>>] ELSE f[i]]
  <2>2. m \in lo..n /\ m \in lo..m /\ m - 1 = lo + k /\ lo + k \in lo..(lo + k) /\ m # lo
    OBVIOUS
  <2>3. g[m] \in V /\ g[m] = step[<<m, g[m - 1]>>]
    <3>1. f[lo + k] \in V /\ g[m - 1] = f[lo + k] /\ g[m] = step[<<m, f[lo + k]>>]
      BY <2>2
    <3>2. <<m, f[lo + k]>> \in (lo..n) \X V
      BY <2>2, <3>1
    <3>3. step[<<m, f[lo + k]>>] \in V
      <4> HIDE DEF m
      <4> QED BY <3>2
    <3> QED BY <3>1, <3>3
  <2>4. ASSUME NEW i \in lo..m, i # m
        PROVE  g[i] \in V /\ (i # lo => g[i] = step[<<i, g[i - 1]>>])
    <3>1. i \in lo..(lo + k) /\ g[i] = f[i]
      BY <2>4
    <3>2. i # lo => i - 1 \in lo..(lo + k) /\ i - 1 # m /\ i - 1 \in lo..m
      BY <2>4
    <3>3. i # lo => g[i - 1] = f[i - 1]
      BY <3>2
    <3> QED BY <2>1, <3>1, <3>3 DEF Iterates
  <2>5. g \in [lo..m -> V]
    BY <2>2, <2>3, <2>4
  <2>6. g[lo] = first
    BY <2>1, <2>2 DEF Iterates
  <2>7. \A i \in lo..m: i # lo => g[i] = step[<<i, g[i - 1]>>]
    <3> HIDE DEF g, m
    <3> QED BY <2>3, <2>4
  <2>8. Solves(g, m)
    <3> HIDE DEF g, m
    <3> QED BY <2>6, <2>7 DEF Iterates
  <2> QED BY <2>5, <2>8
<1>3. \A k \in Nat: k \in Solved
  <2> HIDE DEF Solved
  <2> QED BY <1>1, <1>2, Counting
<1>4. n - lo \in Nat /\ lo + (n - lo) = n /\ lo + (n - lo) <= n
  OBVIOUS
<1>5. n - lo \in Solved
  <2> HIDE DEF Solved
  <2> QED BY <1>3, <1>4
<1> QED BY <1>4, <1>5

LEMMA OneSolution ==
  ASSUME NEW lo \in Nat, NEW n \in Nat, NEW f, NEW g, GoOnAlike(f, g, lo, n)
  PROVE  Alike(f, g, lo, n)
<1> DEFINE Agree == {k \in Nat: lo + k <= n => f[lo + k] = g[lo + k]}
<1>1. 0 \in Agree
  BY DEF GoOnAlike
<1>2. ASSUME NEW k \in Nat, k \in Agree PROVE k + 1 \in Agree
  <2> SUFFICES ASSUME lo + (k + 1) <= n PROVE f[lo + (k + 1)] = g[lo + (k + 1)]
    OBVIOUS
  <2>1. /\ lo + (k + 1) \in lo..n /\ lo + (k + 1) # lo
        /\ (lo + (k + 1)) - 1 = lo + k /\ lo + k <= n
    OBVIOUS
  <2>2. f[(lo + (k + 1)) - 1] = g[(lo + (k + 1)) - 1]
    BY <1>2, <2>1
  <2> QED BY <2>1, <2>2 DEF GoOnAlike
<1>3. \A k \in Nat: k \in Agree
  <2> HIDE DEF Agree
  <2> QED BY <1>1, <1>2, Counting
<1>4. ASSUME NEW i \in lo..n PROVE f[i] = g[i]
  <2>1. i - lo \in Nat /\ lo + (i - lo) = i /\ i <= n
    OBVIOUS
  <2> QED BY <1>3, <2>1
<1> QED BY <1>4 DEF Alike

(* What FlattenSeq computes on its way, and comes to. *)
Flattens(f, seqs, n) ==
  /\ f[1] = seqs[1] /\ \A i \in 1..n: i # 1 => f[i] = f[i - 1] \o seqs[i]
  /\ FlattenSeq(seqs) = f[n]

LEMMA FlattenIs ==
  ASSUME NEW S, NEW n \in Nat \ {0}, NEW seqs \in [1..n -> Seq(S)]
  PROVE  \E f \in [1..n -> Seq(S)]: Flattens(f, seqs, n)
<1> DEFINE step == [p \in (1..n) \X Seq(S) |-> p[2] \o seqs[p[1]]]
<1>1. step \in [(1..n) \X Seq(S) -> Seq(S)]
  <2>1. ASSUME NEW i \in 1..n, NEW t \in Seq(S) PROVE t \o seqs[i] \in Seq(S)
    BY ConcatProperties
  <2> QED BY <2>1
<1>2. PICK f \in [1..n -> Seq(S)]: Iterates(f, 1, n, seqs[1], step)
  <2>1. seqs[1] \in Seq(S) /\ 1 \in Nat /\ n \in Nat /\ 1 <= n
    OBVIOUS
  <2> HIDE DEF step
  <2> QED BY <1>1, <2>1, Recursion
<1>3. ASSUME NEW i \in 1..n, i # 1 PROVE f[i] = f[i - 1] \o seqs[i]
  <2>1. i - 1 \in 1..n /\ f[i - 1] \in Seq(S)
    BY <1>3
  <2>2. f[i] = step[<<i, f[i - 1]>>]
    <3> HIDE DEF step
    <3> QED BY <1>2, <1>3 DEF Iterates
  <2> QED BY <2>1, <2>2
<1>4. ASSUME NEW i \in 1..n PROVE f[i] = IF i = 1 THEN seqs[i] ELSE f[i - 1] \o seqs[i]
  BY <1>2, <1>3 DEF Iterates
<1>5. f = [i \in 1..n |-> IF i = 1 THEN seqs[i] ELSE f[i - 1] \o seqs[i]]
  BY <1>4
<1>6. ASSUME NEW g, g = [i \in 1..n |-> IF i = 1 THEN seqs[i] ELSE g[i - 1] \o seqs[i]]
      PROVE  g = f
  <2>1. \A i \in 1..n: g[i] = IF i = 1 THEN seqs[i] ELSE g[i - 1] \o seqs[i]
    BY <1>6
  <2>2. g[1] = f[1]
    BY <1>4, <2>1
  <2>3. ASSUME NEW i \in 1..n, i # 1, g[i - 1] = f[i - 1] PROVE g[i] = f[i]
    BY <1>3, <2>1, <2>3
  <2>4. \A i \in 1..n: g[i] = f[i]
    <3>1. 1 \in Nat /\ n \in Nat
      OBVIOUS
    <3>2. GoOnAlike(g, f, 1, n)
      BY <2>2, <2>3 DEF GoOnAlike
    <3>3. Alike(g, f, 1, n)
      BY <3>1, <3>2, OneSolution
    <3> QED BY <3>3 DEF Alike
  <2>5. f = [i \in 1..n |-> f[i]] /\ g = [i \in 1..n |-> g[i]]
    BY <1>6
  <2> QED BY <2>4, <2>5
<1>7. seqs \in Seq(Seq(S)) /\ Len(seqs) = n
  OBVIOUS
<1>8. FlattenSeq(seqs) = f[n]
  BY <1>5, <1>6, <1>7 DEF FlattenSeq
<1>9. Flattens(f, seqs, n)
  BY <1>3, <1>4, <1>8 DEF Flattens
<1> QED BY <1>9

(* Pieces of one character or none, the first of them not empty.           *)
LEMMA PiecesMake ==
  ASSUME NEW S, NEW n \in Nat \ {0}, NEW seqs \in [1..n -> Seq(S)],
         \A i \in 1..n: Len(seqs[i]) <= 1, Len(seqs[1]) = 1
  PROVE  /\ FlattenSeq(seqs) \in Seq(S)
         /\ Len(FlattenSeq(seqs)) \in 1..n
         /\ FlattenSeq(seqs)[1] = seqs[1][1]
<1>1. PICK f \in [1..n -> Seq(S)]: Flattens(f, seqs, n)
  BY FlattenIs
<1> DEFINE Fits(k) == Len(f[k]) \in 1..k /\ f[k][1] = seqs[1][1]
           Fitting == {k \in Nat: k + 1 <= n => Fits(k + 1)}
<1>2. 0 \in Fitting
  <2>1. f[1] = seqs[1]
    BY <1>1 DEF Flattens
  <2>2. Fits(1)
    BY <2>1
  <2>3. 0 + 1 = 1
    OBVIOUS
  <2> HIDE DEF Fits
  <2> QED BY <2>2, <2>3
<1>3. ASSUME NEW k \in Nat, k \in Fitting PROVE k + 1 \in Fitting
  <2> SUFFICES ASSUME (k + 1) + 1 <= n PROVE Fits((k + 1) + 1)
    OBVIOUS
  <2>1. PICK more \in 1..n: more = (k + 1) + 1 /\ more # 1 /\ more - 1 = k + 1 /\ k + 1 \in 1..n
    OBVIOUS
  <2>2. Fits(k + 1)
    BY <1>3, <2>1
  <2>3. PICK t \in Seq(S): t = f[k + 1] /\ Len(t) \in 1..(k + 1) /\ t[1] = seqs[1][1]
    BY <2>1, <2>2
  <2>4. PICK piece \in Seq(S): piece = seqs[more] /\ Len(piece) <= 1
    OBVIOUS
  <2>5. f[more] = t \o piece
    BY <1>1, <2>1, <2>3, <2>4 DEF Flattens
  <2>6. Len(piece) \in Nat
    BY <2>4, LenProperties
  <2>7. /\ Len(t \o piece) = Len(t) + Len(piece)
        /\ \A i \in 1..Len(t) + Len(piece): (t \o piece)[i] =
             IF i <= Len(t) THEN t[i] ELSE piece[i - Len(t)]
    BY <2>3, <2>4, ConcatProperties
  <2>8. 1 \in 1..Len(t) + Len(piece) /\ 1 <= Len(t)
    BY <2>3, <2>6
  <2>9. (t \o piece)[1] = t[1]
    BY <2>7, <2>8
  <2>10. Len(t \o piece) \in 1..more
    BY <2>1, <2>3, <2>4, <2>6, <2>7
  <2> QED BY <2>1, <2>3, <2>5, <2>9, <2>10
<1>4. \A k \in Nat: k \in Fitting
  <2> HIDE DEF Fitting
  <2> QED BY <1>2, <1>3, Counting
<1>5. Fits(n)
  <2>1. n - 1 \in Nat /\ (n - 1) + 1 = n /\ n <= n
    OBVIOUS
  <2>2. n - 1 \in Fitting
    <3> HIDE DEF Fitting
    <3> QED BY <1>4, <2>1
  <2> HIDE DEF Fits
  <2> QED BY <2>1, <2>2
<1>6. FlattenSeq(seqs) = f[n] /\ f[n] \in Seq(S)
  BY <1>1 DEF Flattens
<1> QED BY <1>5, <1>6

-----------------------------------------------------------------------------
(* What the page does with a name keeps its letters, its length and that   *)
(* it begins with a letter.                                                *)

Printable == Letters \cup {Space, "."}

(* What trimming takes away, and leaves. *)
LEMMA TrimShortens ==
  ASSUME NEW S, NEW s \in Seq(S)
  PROVE  /\ Trim(s) \in Seq(S)
         /\ Len(Trim(s)) <= Len(s)
         /\ s # <<>> /\ s[1] # Space => Trim(s) # <<>> /\ Trim(s)[1] = s[1]
<1> DEFINE solid == {i \in DOMAIN s: s[i] # Space}
<1>1. PICK m \in Nat: m = Len(s) /\ DOMAIN s = 1..m
  BY LenProperties
<1>2. CASE solid = {}
  <2>1. Trim(s) = <<>>
    BY <1>2 DEF Trim
  <2>2. s # <<>> => s[1] = Space
    <3>1. s # <<>> => 1 \in DOMAIN s
      BY <1>1, EmptySeq
    <3> QED BY <1>2, <3>1
  <2> QED BY <1>1, <2>1, <2>2, EmptySeq
<1>3. CASE solid # {}
  <2>1. PICK first \in solid, last \in solid:
          /\ first = Min(solid) /\ last = Max(solid)
          /\ \A x \in solid: first <= x /\ x <= last
    <3>1. solid \in SUBSET (1..m)
      BY <1>1
    <3> HIDE DEF solid
    <3> QED BY <1>3, <3>1, EndsAreThere
  <2>2. first \in 1..m /\ last \in 1..m /\ first <= last
    BY <1>1, <2>1
  <2>3. Trim(s) = SubSeq(s, first, last)
    BY <1>3, <2>1 DEF Trim
  <2>4. \A i \in first..last: s[i] \in S
    BY <1>1, <2>2, ElementOfSeq
  <2>5. /\ SubSeq(s, first, last) \in Seq(S)
        /\ Len(SubSeq(s, first, last)) = last - first + 1
        /\ \A i \in 1..last - first + 1: SubSeq(s, first, last)[i] = s[first + i - 1]
    BY <2>2, <2>4, SubSeqProperties
  <2>6. SubSeq(s, first, last)[1] = s[first]
    <3>1. 1 \in 1..last - first + 1 /\ first + 1 - 1 = first
      BY <2>2
    <3> QED BY <2>5, <3>1
  <2>7. SubSeq(s, first, last) # <<>>
    BY <2>2, <2>5, EmptySeq
  <2>8. s # <<>> /\ s[1] # Space => first = 1
    <3>1. s # <<>> => 1 \in DOMAIN s
      BY <1>1, EmptySeq
    <3>2. s # <<>> /\ s[1] # Space => 1 \in solid
      BY <3>1
    <3> HIDE DEF solid
    <3> QED BY <2>1, <2>2, <3>2
  <2> QED BY <1>1, <2>2, <2>3, <2>5, <2>6, <2>7, <2>8
<1> QED BY <1>2, <1>3

LEMMA SpacingShortens ==
  ASSUME NEW S, NEW s \in Seq(S), s # <<>>
  PROVE  OneSpace(s) \in Seq(S) /\ Len(OneSpace(s)) \in 1..Len(s) /\ OneSpace(s)[1] = s[1]
<1>1. PICK n \in Nat \ {0}: n = Len(s) /\ DOMAIN s = 1..n
  BY LenProperties, EmptySeq
<1> DEFINE pieces == [i \in 1..n |-> IF i > 1 /\ s[i] = Space /\ s[i - 1] = Space THEN <<>> ELSE <<s[i]>>]
<1>2. OneSpace(s) = FlattenSeq(pieces)
  BY <1>1 DEF OneSpace
<1>3. ASSUME NEW i \in 1..n PROVE pieces[i] \in Seq(S) /\ Len(pieces[i]) <= 1
  <2>1. s[i] \in S
    BY <1>1, ElementOfSeq
  <2>2. pieces[i] = <<>> \/ pieces[i] = <<s[i]>>
    OBVIOUS
  <2>3. /\ <<>> \in Seq(S) /\ Len(<<>>) <= 1
        /\ <<s[i]>> \in Seq(S) /\ Len(<<s[i]>>) <= 1
    BY <2>1
  <2> HIDE DEF pieces
  <2> QED BY <2>2, <2>3
<1>4. pieces[1] = <<s[1]>>
  <2>1. 1 \in 1..n /\ ~(1 > 1)
    OBVIOUS
  <2> QED BY <2>1
<1>5. pieces \in [1..n -> Seq(S)] /\ Len(pieces[1]) = 1 /\ pieces[1][1] = s[1]
  BY <1>3, <1>4
<1> HIDE DEF pieces
<1>6. /\ FlattenSeq(pieces) \in Seq(S)
      /\ Len(FlattenSeq(pieces)) \in 1..n
      /\ FlattenSeq(pieces)[1] = pieces[1][1]
  BY <1>3, <1>5, PiecesMake
<1> QED BY <1>1, <1>2, <1>5, <1>6

(* No printable character has a capital of two.                            *)
LEMMA CapitalsFit ==
  ASSUME NEW s \in Seq(Printable), s # <<>>, s[1] \in Letters
  PROVE  /\ ToUpperCase(s) \in Seq(Printable) /\ Len(ToUpperCase(s)) \in 1..Len(s)
         /\ ToUpperCase(s)[1] \in Letters
<1>1. PICK n \in Nat \ {0}: n = Len(s) /\ DOMAIN s = 1..n
  BY LenProperties, EmptySeq
<1> DEFINE pieces == [i \in 1..n |-> Capital(s[i])]
<1>2. ToUpperCase(s) = FlattenSeq(pieces)
  BY <1>1 DEF ToUpperCase
<1>3. \A c \in Printable: \E d \in Printable: Capital(c) = <<d>> /\ (c \in Letters => d \in Letters)
  BY DEF Printable, Letters, Space, Capital
<1>4. ASSUME NEW i \in 1..n PROVE pieces[i] \in Seq(Printable) /\ Len(pieces[i]) <= 1
  <2>1. s[i] \in Printable
    BY <1>1, ElementOfSeq
  <2>2. PICK d \in Printable: pieces[i] = <<d>>
    BY <1>3, <2>1
  <2> HIDE DEF pieces
  <2> QED BY <2>2
<1>5. pieces \in [1..n -> Seq(Printable)]
  BY <1>4
<1>6. Len(pieces[1]) = 1 /\ pieces[1][1] \in Letters
  <2>1. s[1] \in Printable /\ 1 \in 1..n
    BY DEF Printable
  <2>2. PICK d \in Printable: Capital(s[1]) = <<d>> /\ d \in Letters
    BY <1>3, <2>1
  <2>3. pieces[1] = <<d>>
    BY <2>1, <2>2
  <2> HIDE DEF pieces
  <2> QED BY <2>2, <2>3
<1> HIDE DEF pieces
<1>7. /\ FlattenSeq(pieces) \in Seq(Printable)
      /\ Len(FlattenSeq(pieces)) \in 1..n
      /\ FlattenSeq(pieces)[1] = pieces[1][1]
  BY <1>4, <1>5, <1>6, PiecesMake
<1> QED BY <1>1, <1>2, <1>6, <1>7

(* A half that is no problem. *)
LEMMA HalfIsAName ==
  ASSUME NEW s \in Seq(STRING), NEW id \in Names, NP!problem(id, s) = "none"
  PROVE  s \in Seq(Printable) /\ Len(s) <= NameMax /\ s # <<>> /\ s[1] \in Letters
<1>1. s # <<>> /\ NP!CUSTOMER_FIELDS(id, s)
  BY DEF NP!problem
<1>2. Len(s) <= NameMax /\ NP!NAME_PATTERN(s)
  <2>1. id \in NP!Names /\ id # "cardholderName" /\ id # "email"
    BY DEF NP!Names, Names
  <2> QED BY <1>1, <2>1, Zenon DEF NP!CUSTOMER_FIELDS
<1>3. \A i \in DOMAIN s: s[i] \in Printable
  BY <1>2 DEF NP!NAME_PATTERN, NP!Letters, NP!Space, Printable, Letters, Space
<1>4. s[1] \in Letters
  BY <1>2 DEF NP!NAME_PATTERN, NP!Letters, Letters
<1>5. s \in Seq(Printable)
  <2>1. s \in [1..Len(s) -> Printable] /\ Len(s) \in Nat
    BY <1>3, LenProperties
  <2> QED BY <2>1
<1> QED BY <1>1, <1>2, <1>4, <1>5

(* The name made of two such halves is none either. *)
LEMMA SuggestionIsAName ==
  ASSUME NEW v, v.firstName \in Seq(STRING), v.lastName \in Seq(STRING),
         \A id \in Names: NP!problem(id, Trim(v[id])) = "none"
  PROVE  NP!problem("cardholderName", Trim(ToUpperCase(Printed(v)))) = "none"
<1>1. PICK first \in Seq(Printable), last \in Seq(Printable):
        /\ first = Trim(v.firstName) /\ last = Trim(v.lastName)
        /\ Len(first) <= NameMax /\ Len(last) <= NameMax
        /\ first # <<>> /\ first[1] \in Letters
  <2>1. Trim(v.firstName) \in Seq(STRING) /\ Trim(v.lastName) \in Seq(STRING)
    BY TrimShortens
  <2>2. /\ NP!problem("firstName", Trim(v.firstName)) = "none"
        /\ NP!problem("lastName", Trim(v.lastName)) = "none"
    BY DEF Names
  <2>3. "firstName" \in Names /\ "lastName" \in Names
    BY DEF Names
  <2>4. /\ Trim(v.firstName) \in Seq(Printable) /\ Len(Trim(v.firstName)) <= NameMax
        /\ Trim(v.firstName) # <<>> /\ Trim(v.firstName)[1] \in Letters
    BY <2>1, <2>2, <2>3, HalfIsAName
  <2>5. Trim(v.lastName) \in Seq(Printable) /\ Len(Trim(v.lastName)) <= NameMax
    BY <2>1, <2>2, <2>3, HalfIsAName
  <2>6. PICK first \in Seq(Printable), last \in Seq(Printable):
          first = Trim(v.firstName) /\ last = Trim(v.lastName)
    BY <2>4, <2>5
  <2> QED BY <2>4, <2>5, <2>6
<1>2. Len(first) \in Nat \ {0} /\ Len(last) \in Nat
  BY <1>1, LenProperties, EmptySeq
<1>3. PICK gap \in Seq(Printable): gap = <<Space>> /\ Len(gap) = 1
  <2>1. Space \in Printable
    BY DEF Printable
  <2>2. <<Space>> \in Seq(Printable) /\ Len(<<Space>>) = 1
    BY <2>1
  <2> QED BY <2>2
<1>4. PICK front \in Seq(Printable):
        front = first \o gap /\ Len(front) = Len(first) + 1 /\ front[1] = first[1]
  <2>1. /\ first \o gap \in Seq(Printable)
        /\ Len(first \o gap) = Len(first) + Len(gap)
        /\ \A i \in 1..Len(first) + Len(gap): (first \o gap)[i] =
             IF i <= Len(first) THEN first[i] ELSE gap[i - Len(first)]
    BY ConcatProperties
  <2>2. (first \o gap)[1] = first[1]
    BY <1>2, <1>3, <2>1
  <2> QED BY <1>3, <2>1, <2>2
<1>5. PICK whole \in Seq(Printable):
        whole = front \o last /\ Len(whole) = Len(front) + Len(last) /\ whole[1] = front[1]
  <2>1. /\ front \o last \in Seq(Printable)
        /\ Len(front \o last) = Len(front) + Len(last)
        /\ \A i \in 1..Len(front) + Len(last): (front \o last)[i] =
             IF i <= Len(front) THEN front[i] ELSE last[i - Len(front)]
    BY ConcatProperties
  <2>2. (front \o last)[1] = front[1]
    BY <1>2, <1>4, <2>1
  <2> QED BY <2>1, <2>2
<1>6. /\ Len(whole) \in Nat \ {0} /\ Len(whole) <= 2 * NameMax + 1
      /\ whole # <<>> /\ whole[1] \in Letters
  <2>1. Len(whole) = Len(first) + 1 + Len(last)
    BY <1>2, <1>4, <1>5
  <2>2. Len(whole) \in Nat \ {0} /\ Len(whole) <= 2 * NameMax + 1
    BY <1>1, <1>2, <2>1, PageAssumption
  <2>3. whole # <<>>
    BY <2>2, EmptySeq
  <2> QED BY <1>1, <1>4, <1>5, <2>2, <2>3
<1>7. PICK spaced \in Seq(Printable):
        spaced = Printed(v) /\ Len(spaced) \in 1..Len(whole) /\ spaced[1] = whole[1]
  <2>1. Printed(v) = OneSpace(whole)
    BY <1>1, <1>3, <1>4, <1>5 DEF Printed
  <2> QED BY <1>6, <2>1, SpacingShortens
<1>8. spaced # <<>> /\ spaced[1] \in Letters
  BY <1>6, <1>7, EmptySeq
<1>9. PICK name \in Seq(Printable):
        name = ToUpperCase(spaced) /\ Len(name) \in 1..Len(spaced) /\ name[1] \in Letters
  BY <1>8, CapitalsFit
<1>10. name # <<>> /\ name[1] # Space
  <2>1. name # <<>>
    BY <1>7, <1>9, EmptySeq
  <2> QED BY <1>9, <2>1 DEF Letters, Space
<1>11. PICK card \in Seq(Printable):
         card = Trim(name) /\ Len(card) <= Len(name) /\ card # <<>> /\ card[1] = name[1]
  BY <1>10, TrimShortens
<1>12. Len(card) <= CardNameMax
  <2>1. Len(card) \in Nat /\ Len(name) \in Nat /\ Len(spaced) \in Nat
    BY LenProperties
  <2>2. Len(card) <= Len(whole)
    BY <1>6, <1>7, <1>9, <1>11, <2>1
  <2> QED BY <1>6, <2>1, <2>2, PageAssumption
<1>13. NP!NAME_PATTERN(card)
  <2>1. \A i \in DOMAIN card: card[i] \in Printable
    BY LenProperties
  <2>2. card[1] \in Letters
    BY <1>9, <1>11
  <2> QED BY <1>11, <2>1, <2>2 DEF NP!NAME_PATTERN, NP!Letters, NP!Space, Printable, Letters, Space
<1>14. NP!CUSTOMER_FIELDS("cardholderName", card)
  BY <1>12, <1>13 DEF NP!CUSTOMER_FIELDS, NP!Names
<1> QED BY <1>7, <1>9, <1>11, <1>14 DEF NP!problem

-----------------------------------------------------------------------------
(* Only typing changes what a page shows in the payer's fields. *)

PlainKept(p, q) == IsPlain(q) /\ q.value = p.value /\ q.touched = p.touched
ReactKept(n, m) == IsReact(m) /\ m.value = n.value /\ m.touched = n.touched

LEMMA PlainSets ==
  ASSUME NEW p, IsPlain(p)
  PROVE  /\ \A x: PlainKept(p, [p EXCEPT !.at = x])
         /\ \A x: PlainKept(p, [p EXCEPT !.hint = x])
         /\ \A x: PlainKept(p, [p EXCEPT !.panel = x])
         /\ \A x: PlainKept(p, [p EXCEPT !.error = x])
         /\ \A x: PlainKept(p, [p EXCEPT !.redirected = x])
         /\ \A x, y: PlainKept(p, [p EXCEPT !.disabled = x, !.label = y])
         /\ \A x, y: PlainKept(p, [p EXCEPT !.at = x, !.attempts = y])
         /\ \A x, y, z: PlainKept(p, [p EXCEPT !.error = x, !.disabled = y, !.label = z])
<1>1. \A x: PlainKept(p, [p EXCEPT !.at = x])
  BY DEF PlainKept, IsPlain
<1>2. \A x: PlainKept(p, [p EXCEPT !.hint = x])
  BY DEF PlainKept, IsPlain
<1>3. \A x: PlainKept(p, [p EXCEPT !.panel = x])
  BY DEF PlainKept, IsPlain
<1>4. \A x: PlainKept(p, [p EXCEPT !.error = x])
  BY DEF PlainKept, IsPlain
<1>5. \A x: PlainKept(p, [p EXCEPT !.redirected = x])
  BY DEF PlainKept, IsPlain
<1>6. ASSUME NEW x, NEW y PROVE PlainKept(p, [p EXCEPT !.disabled = x, !.label = y])
  <2>1. PICK q: q = [p EXCEPT !.disabled = x, !.label = y]
    OBVIOUS
  <2>2. IsPlain(q)
    BY <2>1 DEF IsPlain
  <2>3. q.value = p.value /\ q.touched = p.touched
    BY <2>1 DEF IsPlain
  <2> QED BY <2>1, <2>2, <2>3 DEF PlainKept
<1>7. ASSUME NEW x, NEW y PROVE PlainKept(p, [p EXCEPT !.at = x, !.attempts = y])
  <2>1. PICK q: q = [p EXCEPT !.at = x, !.attempts = y]
    OBVIOUS
  <2>2. IsPlain(q)
    BY <2>1 DEF IsPlain
  <2>3. q.value = p.value /\ q.touched = p.touched
    BY <2>1 DEF IsPlain
  <2> QED BY <2>1, <2>2, <2>3 DEF PlainKept
<1>8. ASSUME NEW x, NEW y, NEW z
      PROVE  PlainKept(p, [p EXCEPT !.error = x, !.disabled = y, !.label = z])
  <2>1. PICK q: q = [p EXCEPT !.error = x, !.disabled = y, !.label = z]
    OBVIOUS
  <2>2. IsPlain(q)
    BY <2>1 DEF IsPlain
  <2>3. q.value = p.value /\ q.touched = p.touched
    BY <2>1 DEF IsPlain
  <2> QED BY <2>1, <2>2, <2>3 DEF PlainKept
<1> QED BY <1>1, <1>2, <1>3, <1>4, <1>5, <1>6, <1>7, <1>8

LEMMA PlainHelpers ==
  ASSUME NEW p, IsPlain(p)
  PROVE  /\ PlainKept(p, p)
         /\ \A data: PlainKept(p, PP!showStatus(p, data))
         /\ PlainKept(p, PP!hideStatusPanel(p))
         /\ \A loading: PlainKept(p, PP!setFormLoading(p, loading))
         /\ \A error: PlainKept(p, PP!showFormError(p, error))
         /\ PlainKept(p, PP!clearFormError(p))
         /\ PlainKept(p, PP!pollStatus(p))
         /\ PlainKept(p, PP!customerDetails(p).page)
<1>1. PlainKept(p, p)
  BY DEF PlainKept
<1>2. PlainKept(p, PP!customerDetails(p).page)
  BY PlainSets, PlainChecks
<1> QED BY <1>1, <1>2, PlainSets
        DEF PP!showStatus, PP!hideStatusPanel, PP!setFormLoading, PP!showFormError, PP!clearFormError,
            PP!pollStatus

LEMMA PlainKeptThrough ==
  ASSUME NEW p, NEW q, NEW r, PlainKept(p, q), PlainKept(q, r)
  PROVE  PlainKept(p, r)
BY DEF PlainKept

(* An event that ends by moving the page to another stage. *)
LEMMA PlainGoesTo ==
  ASSUME NEW p, NEW q, PlainKept(p, q)
  PROVE  \A x: PlainKept(p, [q EXCEPT !.at = x])
<1>1. IsPlain(q)
  BY DEF PlainKept
<1>2. ASSUME NEW x PROVE PlainKept(p, [q EXCEPT !.at = x])
  BY <1>1, PlainSets, PlainKeptThrough
<1> QED BY <1>2

LEMMA PlainEvents ==
  ASSUME NEW p, IsPlain(p)
  PROVE  /\ \A config \in {"ticket", "none", "lost"}: PlainKept(p, PP!load(p, config))
         /\ PlainKept(p, PP!scriptFailed(p))
         /\ PlainKept(p, PP!onReady(p))
         /\ PlainKept(p, PP!submit(p))
         /\ PlainKept(p, PP!sendTokenToServer(p))
         /\ \A code, message: PlainKept(p, PP!showError(p, code, message))
         /\ \A sale: PlainKept(p, PP!saleReplied(p, sale))
         /\ PlainKept(p, PP!saleLost(p))
         /\ \A data: PlainKept(p, PP!statusReplied(p, data))
         /\ PlainKept(p, PP!statusLost(p))
         /\ PlainKept(p, PP!timerFired(p))
<1>1. ASSUME NEW config \in {"ticket", "none", "lost"} PROVE PlainKept(p, PP!load(p, config))
  <2>1. PICK error: error = PP!Copy("unavailable")
    OBVIOUS
  <2>2. PP!load(p, config) \in {[p EXCEPT !.at = "script"], [p EXCEPT !.at = "unusable"],
                               [PP!showFormError(p, error) EXCEPT !.at = "unusable"]}
    BY Zenon, <2>1 DEF PP!load
  <2>3. PlainKept(p, [PP!showFormError(p, error) EXCEPT !.at = "unusable"])
    BY PlainHelpers, PlainGoesTo
  <2>4. PlainKept(p, [p EXCEPT !.at = "script"]) /\ PlainKept(p, [p EXCEPT !.at = "unusable"])
    BY PlainSets
  <2> QED BY Zenon, <2>2, <2>3, <2>4
<1>2. PlainKept(p, PP!scriptFailed(p)) /\ PlainKept(p, PP!onReady(p))
  BY PlainHelpers, PlainGoesTo DEF PP!scriptFailed, PP!onReady
<1>3. PlainKept(p, PP!submit(p))
  <2>1. PICK q: q = PP!customerDetails(p).page /\ PlainKept(p, q)
    BY PlainHelpers
  <2>2. PICK r: r = [q EXCEPT !.disabled = TRUE, !.label = "processing"] /\ PlainKept(q, r)
    <3>1. IsPlain(q)
      BY <2>1 DEF PlainKept
    <3>2. PlainKept(q, [q EXCEPT !.disabled = TRUE, !.label = "processing"])
      BY <3>1, PlainSets
    <3> QED BY <3>2
  <2>3. PICK o: o = PP!clearFormError(r) /\ PlainKept(r, o)
    BY <2>2, PlainHelpers DEF PlainKept
  <2>4. PlainKept(o, PP!showStatus(o, PP!Processing))
    BY <2>3, PlainHelpers DEF PlainKept
  <2>5. PP!setPayInFlight(q) = PP!showStatus(o, PP!Processing)
    <3>1. PP!setPayInFlight(q) =
            PP!showStatus(PP!clearFormError([q EXCEPT !.disabled = TRUE, !.label = "processing"]), PP!Processing)
      BY DEF PP!setPayInFlight
    <3> QED BY Zenon, <2>2, <2>3, <3>1
  <2>6. PlainKept(p, PP!setPayInFlight(q))
    BY <2>1, <2>2, <2>3, <2>4, <2>5 DEF PlainKept
  <2>7. PICK u: u = PP!setPayInFlight(q) /\ PlainKept(p, u)
    BY <2>6
  <2>8. PICK at: at = IF u.at \in PP!UnderWay THEN "twice" ELSE "tokenizing"
    OBVIOUS
  <2>9. PlainKept(p, [u EXCEPT !.at = at])
    BY <2>7, PlainGoesTo
  <2>10. PP!submit(p) = q \/ PP!submit(p) = [u EXCEPT !.at = at]
    BY <2>1, <2>7, <2>8 DEF PP!submit
  <2> QED BY <2>1, <2>9, <2>10
<1>4. PlainKept(p, PP!sendTokenToServer(p))
  BY PlainHelpers, PlainGoesTo DEF PP!sendTokenToServer
<1>5. ASSUME NEW error PROVE PlainKept(p, [PP!hideStatusPanel(PP!showFormError(p, error)) EXCEPT !.at = "form"])
  <2>1. PICK q: q = PP!showFormError(p, error) /\ PlainKept(p, q)
    BY PlainHelpers
  <2>2. PlainKept(q, PP!hideStatusPanel(q))
    BY <2>1, PlainHelpers DEF PlainKept
  <2>3. PlainKept(p, PP!hideStatusPanel(q))
    BY <2>1, <2>2 DEF PlainKept
  <2> QED BY <2>1, <2>3, PlainGoesTo
<1>6. ASSUME NEW code, NEW message PROVE PlainKept(p, PP!showError(p, code, message))
  <2> DEFINE spentTicket == code \in 4000..4999
             kind == IF code = 4004 THEN "rejected" ELSE IF spentTicket THEN "spent" ELSE "retry"
             error == IF spentTicket THEN PP!Copy(kind) ELSE PP!Said(kind, message)
  <2>1. PP!showError(p, code, message) =
          [PP!hideStatusPanel(PP!showFormError(p, error)) EXCEPT !.at = "form"]
    BY DEF PP!showError
  <2> HIDE DEF error
  <2> QED BY <1>5, <2>1
<1>7. PlainKept(p, PP!saleLost(p)) /\ \A sale: PlainKept(p, PP!saleReplied(p, sale))
  <2>1. PlainKept(p, PP!pollStatus(PP!newOrder(p)))
    <3>1. PICK a: a = [p EXCEPT !.attempts = 0]
      OBVIOUS
    <3>2. PlainKept(p, a)
      BY <3>1 DEF PlainKept, IsPlain
    <3>3. PICK b: b = [a EXCEPT !.redirected = FALSE]
      OBVIOUS
    <3>4. PlainKept(a, b)
      BY <3>2, <3>3, PlainSets DEF PlainKept
    <3>5. PP!newOrder(p) = b
      BY <3>1, <3>3 DEF PP!newOrder
    <3>6. PlainKept(b, PP!pollStatus(b))
      BY <3>4, PlainHelpers DEF PlainKept
    <3> QED BY <3>2, <3>4, <3>5, <3>6 DEF PlainKept
  <2> QED BY <1>5, <2>1 DEF PP!saleLost, PP!saleReplied
<1>8. ASSUME NEW data PROVE PlainKept(p, [PP!showStatus(p, data) EXCEPT !.redirected = TRUE, !.at = "sent"])
  <2>1. PICK q: q = PP!showStatus(p, data) /\ PlainKept(p, q)
    BY PlainHelpers
  <2>2. PICK r: r = [q EXCEPT !.redirected = TRUE] /\ PlainKept(q, r)
    <3>1. IsPlain(q)
      BY <2>1 DEF PlainKept
    <3>2. PlainKept(q, [q EXCEPT !.redirected = TRUE])
      BY <3>1, PlainSets
    <3> QED BY <3>2
  <2>3. PlainKept(p, r)
    BY <2>1, <2>2 DEF PlainKept
  <2>4. [PP!showStatus(p, data) EXCEPT !.redirected = TRUE, !.at = "sent"] = [r EXCEPT !.at = "sent"]
    BY <2>1, <2>2
  <2> QED BY <2>3, <2>4, PlainGoesTo
<1>9. \A data, x: PlainKept(p, [PP!showStatus(p, data) EXCEPT !.at = x])
  BY PlainHelpers, PlainGoesTo
<1>10. \A data: PlainKept(p, PP!statusReplied(p, data))
  BY <1>8, <1>9 DEF PP!statusReplied
<1>11. PlainKept(p, PP!statusLost(p)) /\ PlainKept(p, PP!timerFired(p))
  BY <1>9, PlainHelpers DEF PP!statusLost, PP!timerFired
<1> QED BY <1>1, <1>2, <1>3, <1>4, <1>6, <1>7, <1>10, <1>11

LEMMA ReactSets ==
  ASSUME NEW n, IsReact(n)
  PROVE  /\ ReactKept(n, n)
         /\ \A x: ReactKept(n, [n EXCEPT !.at = x])
         /\ \A x: ReactKept(n, [n EXCEPT !.watch = x])
         /\ \A x: ReactKept(n, [n EXCEPT !.started = x])
         /\ \A x: ReactKept(n, [n EXCEPT !.problems = x])
         /\ \A x, y: ReactKept(n, [n EXCEPT !.ready = x, !.at = y])
         /\ \A x, y: ReactKept(n, [n EXCEPT !.formError = x, !.inFlight = y])
         /\ \A x, y, z: ReactKept(n, [n EXCEPT !.order = x, !.watch = y, !.at = z])
         /\ \A x: ReactKept(n, [n EXCEPT !.problems = x, !.formError = NP!NoError, !.inFlight = TRUE,
                                         !.at = "tokenizing"])
<1>1. ReactKept(n, n)
  BY DEF ReactKept
<1>2. \A x: ReactKept(n, [n EXCEPT !.at = x])
  BY DEF ReactKept, IsReact
<1>3. \A x: ReactKept(n, [n EXCEPT !.watch = x])
  BY DEF ReactKept, IsReact
<1>4. \A x: ReactKept(n, [n EXCEPT !.started = x])
  BY DEF ReactKept, IsReact
<1>5. \A x: ReactKept(n, [n EXCEPT !.problems = x])
  BY DEF ReactKept, IsReact
<1>6. ASSUME NEW x, NEW y PROVE ReactKept(n, [n EXCEPT !.ready = x, !.at = y])
  <2>1. PICK m: m = [n EXCEPT !.ready = x, !.at = y]
    OBVIOUS
  <2>2. IsReact(m)
    BY <2>1 DEF IsReact
  <2>3. m.value = n.value /\ m.touched = n.touched
    BY <2>1 DEF IsReact
  <2> QED BY <2>1, <2>2, <2>3 DEF ReactKept
<1>7. ASSUME NEW x, NEW y PROVE ReactKept(n, [n EXCEPT !.formError = x, !.inFlight = y])
  <2>1. PICK m: m = [n EXCEPT !.formError = x, !.inFlight = y]
    OBVIOUS
  <2>2. IsReact(m)
    BY <2>1 DEF IsReact
  <2>3. m.value = n.value /\ m.touched = n.touched
    BY <2>1 DEF IsReact
  <2> QED BY <2>1, <2>2, <2>3 DEF ReactKept
<1>8. ASSUME NEW x, NEW y, NEW z
      PROVE  ReactKept(n, [n EXCEPT !.order = x, !.watch = y, !.at = z])
  <2>1. PICK m: m = [n EXCEPT !.order = x, !.watch = y, !.at = z]
    OBVIOUS
  <2>2. IsReact(m)
    BY <2>1 DEF IsReact
  <2>3. m.value = n.value /\ m.touched = n.touched
    BY <2>1 DEF IsReact
  <2> QED BY <2>1, <2>2, <2>3 DEF ReactKept
<1>9. ASSUME NEW x
      PROVE  ReactKept(n, [n EXCEPT !.problems = x, !.formError = NP!NoError, !.inFlight = TRUE,
                                    !.at = "tokenizing"])
  <2>1. PICK m: m = [n EXCEPT !.problems = x, !.formError = NP!NoError, !.inFlight = TRUE,
                              !.at = "tokenizing"]
    OBVIOUS
  <2>2. IsReact(m)
    BY <2>1 DEF IsReact
  <2>3. m.value = n.value /\ m.touched = n.touched
    BY <2>1 DEF IsReact
  <2> QED BY <2>1, <2>2, <2>3 DEF ReactKept
<1> QED BY <1>1, <1>2, <1>3, <1>4, <1>5, <1>6, <1>7, <1>8, <1>9

LEMMA ReactKeptThrough ==
  ASSUME NEW n, NEW m, NEW o, ReactKept(n, m), ReactKept(m, o)
  PROVE  ReactKept(n, o)
BY DEF ReactKept

LEMMA ReactGoesTo ==
  ASSUME NEW n, NEW m, ReactKept(n, m)
  PROVE  \A x: ReactKept(n, [m EXCEPT !.at = x])
<1>1. IsReact(m)
  BY DEF ReactKept
<1>2. ASSUME NEW x PROVE ReactKept(n, [m EXCEPT !.at = x])
  BY <1>1, ReactSets, ReactKeptThrough
<1> QED BY <1>2

LEMMA ReactEffect ==
  ASSUME NEW n, IsReact(n), NEW ticket
  PROVE  ReactKept(n, NP!sdkEffect(n, ticket))
<1>1. PICK m: m = [n EXCEPT !.started = TRUE] /\ ReactKept(n, m)
  BY ReactSets
<1>2. ASSUME NEW error PROVE ReactKept(n, NP!showFormError(m, error))
  <2>1. IsReact(m)
    BY <1>1 DEF ReactKept
  <2>2. ReactKept(m, NP!showFormError(m, error))
    BY <2>1, ReactSets DEF NP!showFormError
  <2> QED BY <1>1, <2>2 DEF ReactKept
<1>3. /\ ReactKept(n, [m EXCEPT !.at = "script"])
      /\ \A error: ReactKept(n, [NP!showFormError(m, error) EXCEPT !.at = "unusable"])
  BY <1>1, <1>2, ReactGoesTo
<1> QED BY <1>1, <1>3, ReactSets DEF NP!sdkEffect

LEMMA ReactEvents ==
  ASSUME NEW n, IsReact(n)
  PROVE  /\ \A config: ReactKept(n, NP!load(n, config))
         /\ ReactKept(n, NP!scriptFailed(n))
         /\ ReactKept(n, NP!onReady(n))
         /\ ReactKept(n, NP!handleSubmit(n))
         /\ ReactKept(n, NP!sendTokenToServer(n))
         /\ \A code, message: ReactKept(n, NP!showError(n, code, message))
         /\ \A sale: ReactKept(n, NP!saleReplied(n, sale))
         /\ ReactKept(n, NP!saleLost(n))
         /\ \A watch: ReactKept(n, [n EXCEPT !.watch = watch])
<1>1. ASSUME NEW config PROVE ReactKept(n, NP!load(n, config))
  <2>1. PICK ticket: ticket = (config = "ticket")
    OBVIOUS
  <2>2. PICK m: m = NP!sdkEffect(n, ticket) /\ ReactKept(n, m)
    BY ReactEffect
  <2>3. ReactKept(n, NP!sdkEffect(m, ticket))
    BY <2>2, ReactEffect, ReactKeptThrough DEF ReactKept
  <2> QED BY <2>1, <2>2, <2>3 DEF NP!load
<1>2. \A error, x: ReactKept(n, [NP!showFormError(n, error) EXCEPT !.at = x])
  BY ReactSets, ReactGoesTo DEF NP!showFormError
<1>3. ReactKept(n, NP!scriptFailed(n)) /\ ReactKept(n, NP!saleLost(n))
  BY <1>2 DEF NP!scriptFailed, NP!saleLost
<1>4. ReactKept(n, NP!onReady(n)) /\ ReactKept(n, NP!sendTokenToServer(n))
  BY ReactSets DEF NP!onReady, NP!sendTokenToServer
<1>5. ReactKept(n, NP!handleSubmit(n))
  BY ReactSets DEF NP!handleSubmit
<1>6. ASSUME NEW code, NEW message PROVE ReactKept(n, NP!showError(n, code, message))
  <2> DEFINE spentTicket == code \in 4000..4999
             kind == IF code = 4004 THEN "rejected" ELSE IF spentTicket THEN "spent" ELSE "retry"
             error == IF spentTicket THEN NP!Copy(kind) ELSE NP!Said(kind, message)
  <2>1. NP!showError(n, code, message) = [NP!showFormError(n, error) EXCEPT !.at = "form"]
    BY DEF NP!showError
  <2> HIDE DEF error
  <2> QED BY <1>2, <2>1
<1>7. \A order: ReactKept(n, NP!followOrder(n, order))
  BY ReactSets DEF NP!followOrder
<1>8. \A sale: ReactKept(n, NP!saleReplied(n, sale))
  BY <1>2, <1>7 DEF NP!saleReplied
<1> QED BY <1>1, <1>3, <1>4, <1>5, <1>6, <1>8, ReactSets

(* What one step makes of the plain page, and of Next.js. *)
TypedNow(id, text) == Type(id, text) /\ text \in Texts[id]

LEMMA PlainMoves ==
  ASSUME IsPlain(plain), [FormsNext]_vars, ~silent'
  PROVE  \/ PlainKept(plain, plain')
         \/ \E id \in FieldIds: \E text: TypedNow(id, text) /\ plain' = PP!typed(plain, id, text)
<1> DEFINE Goal == \/ PlainKept(plain, plain')
                   \/ \E id \in FieldIds: \E text: TypedNow(id, text) /\ plain' = PP!typed(plain, id, text)
<1> SUFFICES Goal
  OBVIOUS
<1>1. ASSUME plain' = plain PROVE Goal
  BY <1>1, PlainHelpers
<1>2. ASSUME NEW config \in {"ticket", "none", "lost"}, Load(config) PROVE Goal
  BY <1>1, <1>2, PlainEvents DEF Load, Each
<1>3. CASE BundleFails
  BY <1>1, <1>3, PlainEvents DEF BundleFails, Each
<1>4. CASE FieldsReady
  BY <1>1, <1>4, PlainEvents DEF FieldsReady, Each
<1>5. ASSUME NEW id \in FieldIds, NEW text \in Texts[id], Type(id, text) PROVE Goal
  BY <1>1, <1>5 DEF Type, Each, TypedNow
<1>6. ASSUME NEW id, NEW text, FillIn(id, text) PROVE Goal
  BY <1>6 DEF FillIn
<1>7. CASE Press
  BY <1>1, <1>7, PlainEvents DEF Press, Each
<1>8. CASE TokenArrives
  BY <1>1, <1>8, PlainEvents DEF TokenArrives, Each
<1>9. ASSUME NEW code, NEW message, TokenFails(code, message) PROVE Goal
  BY <1>1, <1>9, PlainEvents DEF TokenFails, Each
<1>10. ASSUME NEW sale, SaleReplied(sale) PROVE Goal
  BY <1>1, <1>10, PlainEvents DEF SaleReplied, Each
<1>11. CASE SaleLost
  BY <1>1, <1>11, PlainEvents DEF SaleLost, Each
<1>12. ASSUME NEW data, StatusReplied(data) PROVE Goal
  BY <1>1, <1>12, PlainEvents DEF StatusReplied, Each
<1>13. CASE StatusLost
  BY <1>1, <1>13, PlainEvents DEF StatusLost, Each
<1>14. CASE TimerFires
  BY <1>1, <1>14, PlainEvents DEF TimerFires, Each
<1>15. CASE UNCHANGED vars
  BY <1>1, <1>15 DEF vars
<1> HIDE DEF Goal
<1> QED BY <1>2, <1>3, <1>4, <1>5, <1>6, <1>7, <1>8, <1>9, <1>10, <1>11, <1>12, <1>13, <1>14, <1>15
        DEF FormsNext

LEMMA ReactMoves ==
  ASSUME IsReact(next), [FormsNext]_vars, ~silent'
  PROVE  \/ ReactKept(next, next')
         \/ \E id \in FieldIds: \E text: TypedNow(id, text) /\ next' = NP!typed(next, id, text)
<1> DEFINE Goal == \/ ReactKept(next, next')
                   \/ \E id \in FieldIds: \E text: TypedNow(id, text) /\ next' = NP!typed(next, id, text)
<1> SUFFICES Goal
  OBVIOUS
<1>1. ASSUME next' = next PROVE Goal
  BY <1>1, ReactSets
<1>2. ASSUME NEW config, Load(config) PROVE Goal
  BY <1>1, <1>2, ReactEvents DEF Load, Each
<1>3. CASE BundleFails
  BY <1>1, <1>3, ReactEvents DEF BundleFails, Each
<1>4. CASE FieldsReady
  BY <1>1, <1>4, ReactEvents DEF FieldsReady, Each
<1>5. ASSUME NEW id \in FieldIds, NEW text \in Texts[id], Type(id, text) PROVE Goal
  BY <1>1, <1>5 DEF Type, Each, TypedNow
<1>6. ASSUME NEW id, NEW text, FillIn(id, text) PROVE Goal
  BY <1>6 DEF FillIn
<1>7. CASE Press
  BY <1>1, <1>7, ReactEvents DEF Press, Each
<1>8. CASE TokenArrives
  BY <1>1, <1>8, ReactEvents DEF TokenArrives, Each
<1>9. ASSUME NEW code, NEW message, TokenFails(code, message) PROVE Goal
  BY <1>1, <1>9, ReactEvents DEF TokenFails, Each
<1>10. ASSUME NEW sale, SaleReplied(sale) PROVE Goal
  BY <1>1, <1>10, ReactEvents DEF SaleReplied, Each
<1>11. CASE SaleLost
  BY <1>1, <1>11, ReactEvents DEF SaleLost, Each
<1>12. ASSUME NEW data, StatusReplied(data) PROVE Goal
  BY <1>1, <1>12, ReactEvents DEF StatusReplied, Each
<1>13. CASE StatusLost
  BY <1>1, <1>13, ReactEvents DEF StatusLost, Each
<1>14. CASE TimerFires
  BY <1>1, <1>14, ReactEvents DEF TimerFires, Each
<1>15. CASE UNCHANGED vars
  BY <1>1, <1>15 DEF vars
<1> HIDE DEF Goal
<1> QED BY <1>2, <1>3, <1>4, <1>5, <1>6, <1>7, <1>8, <1>9, <1>10, <1>11, <1>12, <1>13, <1>14, <1>15
        DEF FormsNext

-----------------------------------------------------------------------------
(* As long as the payer leaves the cardholder's field alone it holds what  *)
(* the names suggest - or no first name was typed yet.                     *)

Suggested(v) ==
  /\ v = [id \in FieldIds |-> v[id]]
  /\ v.firstName \in Seq(STRING) /\ v.lastName \in Seq(STRING)
  /\ v.firstName = <<>> \/ v.cardholderName = ToUpperCase(Printed(v))

SuggestInv ==
  /\ goreact = next
  /\ silent \/ corrected \/
       /\ IsPlain(plain) /\ Suggested(plain.value) /\ plain.touched = FALSE
       /\ IsReact(next) /\ Suggested(next.value) /\ next.touched = FALSE

LEMMA EnteredIsSuggested ==
  ASSUME NEW p, Suggested(p.value), p.touched = FALSE,
         NEW id \in FieldIds, id # "cardholderName", NEW text \in Texts[id]
  PROVE  Suggested(Entered(p, id, text)) /\ Touches(p, id) = FALSE
<1> DEFINE value == [p.value EXCEPT ![id] = text]
           w == Entered(p, id, text)
<1>1. text \in Seq(STRING)
  BY FormsAssumption
<1>2. DOMAIN p.value = FieldIds
  BY DEF Suggested
<1>3. value.firstName \in Seq(STRING) /\ value.lastName \in Seq(STRING)
  BY <1>1, <1>2 DEF Suggested, FieldIds, Names
<1>4. w = [f \in FieldIds |-> w[f]]
  BY EnteredFills DEF Suggested
<1>5. CASE id \in Names
  <2>1. w = [value EXCEPT !["cardholderName"] = ToUpperCase(Printed(value))]
    BY <1>5 DEF Entered, Names
  <2>2. DOMAIN value = FieldIds
    BY <1>2
  <2> HIDE DEF value
  <2>3. /\ w.firstName = value.firstName /\ w.lastName = value.lastName
        /\ w.cardholderName = ToUpperCase(Printed(value))
    BY <2>1, <2>2 DEF FieldIds, Names
  <2> HIDE DEF w
  <2>4. Printed(w) = Printed(value)
    BY <2>3 DEF Printed
  <2>5. Suggested(w)
    BY <1>3, <1>4, <2>3, <2>4 DEF Suggested
  <2> QED BY <2>5 DEF Touches, w
<1>6. CASE id = "email"
  <2>1. w = value
    BY <1>6 DEF Entered, Names
  <2>2. /\ value.firstName = p.value.firstName /\ value.lastName = p.value.lastName
        /\ value.cardholderName = p.value.cardholderName
    BY <1>2, <1>6 DEF FieldIds, Names
  <2> HIDE DEF value, w
  <2>3. Printed(w) = Printed(p.value)
    BY <2>1, <2>2 DEF Printed
  <2>4. Suggested(w)
    BY <1>3, <1>4, <2>1, <2>2, <2>3 DEF Suggested
  <2> QED BY <2>4 DEF Touches, w
<1> QED BY <1>5, <1>6 DEF FieldIds

LEMMA SuggestStart == FormsInit => SuggestInv
<1> SUFFICES ASSUME FormsInit PROVE SuggestInv
  OBVIOUS
<1>1. goreact = next /\ plain = PP!markup /\ next = NP!CheckoutForm
  BY OneStart DEF FormsInit
<1>2. IsPlain(plain) /\ plain.value = EmptyCustomer /\ plain.touched = FALSE
  BY <1>1, OneVocabulary DEF IsPlain, PP!markup
<1>3. IsReact(next) /\ next.value = EmptyCustomer /\ next.touched = FALSE
  BY <1>1, OneVocabulary DEF IsReact, NP!CheckoutForm
<1>4. Suggested(EmptyCustomer)
  BY EmptySeq DEF Suggested, EmptyCustomer, FieldIds, Names
<1> QED BY <1>1, <1>2, <1>3, <1>4 DEF SuggestInv

LEMMA SuggestStep == SuggestInv /\ [FormsNext]_vars => SuggestInv'
<1> SUFFICES ASSUME SuggestInv, [FormsNext]_vars PROVE SuggestInv'
  OBVIOUS
<1>1. goreact' = next'
  BY ReactPagesMove DEF SuggestInv
<1>2. (silent => silent') /\ (corrected => corrected')
  <2>1. ASSUME silent PROVE silent'
    BY <2>1 DEF FormsNext, vars, Quiet, Load, BundleFails, FieldsReady, Type, FillIn, Press,
              Edited, TokenArrives, TokenFails, SaleReplied, SaleLost, StatusReplied, StatusLost, TimerFires
  <2>2. ASSUME corrected PROVE corrected'
    BY <2>2 DEF FormsNext, vars, Quiet, Load, BundleFails, FieldsReady, Type, FillIn, Press,
              TokenArrives, TokenFails, SaleReplied, SaleLost, StatusReplied, StatusLost, TimerFires
  <2> QED BY <2>1, <2>2
<1>3. CASE silent' \/ corrected'
  BY <1>1, <1>3 DEF SuggestInv
<1>4. CASE ~silent' /\ ~corrected'
  <2>1. /\ IsPlain(plain) /\ Suggested(plain.value) /\ plain.touched = FALSE
        /\ IsReact(next) /\ Suggested(next.value) /\ next.touched = FALSE
    BY <1>2, <1>4 DEF SuggestInv
  <2>2. ASSUME NEW id, NEW text, TypedNow(id, text) PROVE id # "cardholderName" /\ text \in Texts[id]
    BY <1>4, <2>2 DEF TypedNow, Type
  <2>3. IsPlain(plain') /\ Suggested(plain'.value) /\ plain'.touched = FALSE
    <3>1. CASE PlainKept(plain, plain')
      BY <2>1, <3>1 DEF PlainKept
    <3>2. ASSUME NEW id \in FieldIds, NEW text, TypedNow(id, text), plain' = PP!typed(plain, id, text)
          PROVE  IsPlain(plain') /\ Suggested(plain'.value) /\ plain'.touched = FALSE
      <4>1. id # "cardholderName" /\ text \in Texts[id]
        BY <2>2, <3>2
      <4>2. PICK entered, touches:
              /\ entered = Entered(plain, id, text) /\ touches = Touches(plain, id)
              /\ plain' = [plain EXCEPT !.value = entered, !.touched = touches]
        <5>1. plain.value = [f \in FieldIds |-> plain.value[f]]
          BY <2>1 DEF Suggested
        <5>2. PP!typed(plain, id, text)
                = [plain EXCEPT !.value = Entered(plain, id, text), !.touched = Touches(plain, id)]
          BY <2>1, <3>2, <5>1, PlainTyped
        <5> QED BY Zenon, <3>2, <5>2
      <4>3. Suggested(entered) /\ touches = FALSE
        BY <2>1, <4>1, <4>2, EnteredIsSuggested
      <4>4. IsPlain(plain') /\ plain'.value = entered /\ plain'.touched = touches
        BY <2>1, <4>2 DEF IsPlain
      <4> QED BY <4>3, <4>4
    <3> QED BY <1>4, <2>1, <3>1, <3>2, PlainMoves
  <2>4. IsReact(next') /\ Suggested(next'.value) /\ next'.touched = FALSE
    <3>1. CASE ReactKept(next, next')
      BY <2>1, <3>1 DEF ReactKept
    <3>2. ASSUME NEW id \in FieldIds, NEW text, TypedNow(id, text), next' = NP!typed(next, id, text)
          PROVE  IsReact(next') /\ Suggested(next'.value) /\ next'.touched = FALSE
      <4>1. id # "cardholderName" /\ text \in Texts[id]
        BY <2>2, <3>2
      <4>2. PICK entered, touches:
              /\ entered = Entered(next, id, text) /\ touches = Touches(next, id)
              /\ next' = [next EXCEPT !.value = entered, !.latest = entered, !.touched = touches]
        <5>1. next.value = [f \in FieldIds |-> next.value[f]]
          BY <2>1 DEF Suggested
        <5>2. NP!typed(next, id, text)
                = [next EXCEPT !.value = Entered(next, id, text),
                               !.latest = Entered(next, id, text), !.touched = Touches(next, id)]
          BY <2>1, <3>2, <5>1, NextTyped
        <5> QED BY Zenon, <3>2, <5>2
      <4>3. Suggested(entered) /\ touches = FALSE
        BY <2>1, <4>1, <4>2, EnteredIsSuggested
      <4>4. IsReact(next') /\ next'.value = entered /\ next'.touched = touches
        BY <2>1, <4>2 DEF IsReact
      <4> QED BY <4>3, <4>4
    <3> QED BY <1>4, <2>1, <3>1, <3>2, ReactMoves
  <2> QED BY <1>1, <2>3, <2>4 DEF SuggestInv
<1> QED BY <1>3, <1>4

(* The suggestion of a page whose names are both accepted. *)
LEMMA SuggestedFits ==
  ASSUME NEW v, Suggested(v), \A id \in Names: NP!problem(id, Trim(v[id])) = "none"
  PROVE  NP!problem("cardholderName", Trim(v.cardholderName)) = "none"
<1>1. v.firstName # <<>>
  <2>1. Trim(<<>>) = <<>>
    BY DEF Trim
  <2>2. NP!problem("firstName", <<>>) # "none"
    BY DEF NP!problem
  <2>3. NP!problem("firstName", Trim(v.firstName)) = "none"
    BY DEF Names
  <2> QED BY <2>1, <2>2, <2>3
<1>2. v.cardholderName = ToUpperCase(Printed(v))
  BY <1>1 DEF Suggested
<1> QED BY <1>2, SuggestionIsAName DEF Suggested

(* customer.ts:36: for any names of any length, whatever was typed before  *)
(* and in whichever order, the name that a page suggests for the card is   *)
(* accepted by that page when it accepts both halves.                      *)
THEOREM SuggestedNameFits == FormsSpec => []SuggestionFits
<1>1. SuggestInv => SuggestionFits
  <2> SUFFICES ASSUME SuggestInv, ~silent, ~corrected
               PROVE  \A i \in 1..3:
                        (\A id \in Names: NP!problem(id, Trim(Views[i].value[id])) = "none")
                          => NP!problem("cardholderName", Trim(Views[i].value.cardholderName)) = "none"
    BY OneProblem DEF SuggestionFits
  <2>1. Suggested(plain.value) /\ Suggested(next.value) /\ Suggested(goreact.value)
    BY DEF SuggestInv
  <2>2. /\ Views[1].value = plain.value /\ Views[2].value = next.value /\ Views[3].value = goreact.value
    BY DEF Views, PP!view, NP!view, GP!view
  <2>3. \A i \in 1..3: Suggested(Views[i].value)
    BY <2>1, <2>2
  <2> QED BY <2>3, SuggestedFits
<1> QED BY <1>1, SuggestStart, SuggestStep, PTL DEF FormsSpec
=============================================================================
