# hosted-fields-examples in TLA+

A model of the hosted-fields payment in this repository: the payment page in its three forms (the
plain-JS page most examples share, Next.js, and the React client of Go), the SDK and the card iframes
on it, the merchant's server behind it in each of its languages, the gateway as `e2e-tests/` plays it,
and the harness that starts them all. TLC checks small instances; TLAPS proves the most important
results for every value of the constants.

    cd tla
    tlc -workers 2 -config PaymentTwo.cfg MCPayment.tla     # one run, see "Runs"
    tlapm Payment_proofs.tla                                # one proof module

`PROJECT.json` lists components, runs, mutants, the source lines every definition stands for,
findings, hazards and theorems.

## The system

A payer loads a page, types a card into three iframes of the gateway's, and presses Pay. The page
exchanges the card and a single-use *ephemeral ticket* for a *hosted fields token*; the merchant's
server turns the token into an order (a *Sale*); the page polls the order until the gateway gives
a verdict, or goes to the issuer for a 3DS challenge and comes back on a second page. Nothing is
stored on the merchant's side: the page and its two order ids are all there is.

| Component | State it keeps | Operations | Talks to | What makes it correct |
| --- | --- | --- | --- | --- |
| Checkout page, `shared/public/checkout.js` | `CONFIG` and its ticket, the Pay button, the error box, the panel, the payer's own inputs | load config and SDK bundle, `onReady`, submit, token, `/pay` reply, the three kinds of error | SDK by callback; server by `fetch` | one payment per page load; a live button only on an idle page; a dead button stays dead; one message at a time - all but the first unless a field loads again |
| Status polling, `shared/public/status.js`, `result.js` | `order.attempts`, `order.redirected`, the panel | request, reply, failure, timer | server by `fetch`; issuer by `location.href` | at most `MAX_POLLS` requests; a verdict is told once, is the gateway's, and never early; the issuer at most once |
| Merchant's server, 12 ports, Node.js in `nodejs-express-js/src` | nothing between requests | `/config.js`, `/pay`, `/status`, `/result/callback`, `/result` | gateway by HTTPS with a timeout of its own | a call whose answer was missed is never repeated; ids are not mixed up between payers; every request ends; no port differs from another in what an ordinary payer, page or gateway gets |
| Gateway, `e2e-tests/src/emulator` | pending scenario, tickets, tokens, orders | mint ticket, tokenize, Sale, status, ACS page, control | server, SDK, browser | a ticket makes one token; a flow keeps its scenario; a verdict sticks |
| 3DS return signature, `callback.js` and its ports | none | checksum, redirect to `/result`, second check | browser | what the callback lets through `/result` lets through, and nothing else |
| OAuth request signing, `oauth.js` and its ports | none | base string, signature, header | gateway | every port's call is accepted; a signature vouches for one set of parameters |
| SDK shim, `e2e-tests/src/sdk` | frames, values, ready flags, a call that collects | mount, ready, style, collect, value, tokenize | frames by `postMessage` | one callback per `tokenize`; a field wears what it was last told |
| Theme, `checkout.js`, `use-theme.ts`, `result.js` | a stored choice, an attribute, the style the SDK was given | initialise, toggle, follow the system | `localStorage`, stylesheet, SDK | the theme survives the trip to the bank |
| Customer form and panel, in three pages | field values, hints, what has been touched | check, suggest, trim, send; pick, format and show | DOM | the three pages read alike; what is shown is what is sent |
| React page, `nextjs`, `go-react/web` | hooks' state | the checkout page in components, `useOrderStatus()` | as the page | as the page, with effects that run twice and are cleaned up |
| Harness, `e2e-tests` | two key files, processes, the state of a run | `ensureKeypair()`, choose and start applications, `globalSetup`, one payment per application | everything, as processes | green means that everything asked for has paid; a run ends; a pair of keys is a pair |

What is hard here: a page, an SDK, its frames, a server and a gateway act at the same time and each
message or reply is a separate event; any reply can be lost after the work behind it was done; the
server gives up on a gateway call after 30 s while the gateway may go on; the payer edits, reloads and
closes tabs at any moment; several pages of one payer follow the same order after a challenge. The
ports are written in nine languages whose JSON, form and header parsers, and whose encoders, disagree
about everything unusual, and any of them may stand behind the page. The harness is killed and leaves
processes and half-written keys behind. `PROJECT.json` lists each of these hazards at its line.

## Modules

| Module | Models |
| --- | --- |
| `Domains` | the identifiers all parts exchange |
| `Gateway` | the emulator: every handler that changes state is one action, `StatusReply` is the status command |
| `PollLoop` | `pollStatus()` and `showStatus()` as operators on the loop's `order` object |
| `OrderWatch` | the abstract promise to a payer who waits for an order |
| `StatusPoll` | one polling loop against arbitrary replies and losses; implements `OrderWatch` |
| `CheckoutPage` | the page's scripts: one action per event handler or promise callback |
| `Merchant` | `/pay` and `/status` of the Node.js server: the requests in flight |
| `Payment` | pages, SDK exchange, server and gateway composed |
| `PaymentProperties` | what should be true of a whole checkout |
| `ServerTypes` | requests, replies, answers and the checksum, in the terms the ports differ in |
| `ExpressServer`, `ExpressTsServer`, `NextServer`, `GoServer`, `PhpServer`, `PythonServer`, `RubyServer`, `JavaServer`, `KotlinServer`, `RustServer`, `DotnetServer` | one port each: `Handle`, `Finish`, `Timed`, `Unready` |
| `PortContract` | what a merchant's server promises, in any language |
| `MerchantServers` | the port behind the prefix, replaced at any time, with its requests and gateway calls |
| `ServerProperties` | what every port does; implements `PortContract` |
| `HostedFields` | the SDK instance and its iframes: the messages between them and the tokenize call |
| `CardFields` | one page of any of the three kinds, its theme, its button and its card fields |
| `PageTypes` | texts, patterns and replies the three pages share |
| `PlainPage`, `NextPage`, `GoReactPage` | each page as operators: form, hints, errors, panel, and `useOrderStatus()` |
| `PaymentForms` | the three side by side, fed the same events |
| `ReactPage` | one React document that follows an order, with effects that run twice; implements `OrderWatch` |
| `OAuth` | the signers of the ports and the check of the emulator |
| `EmulatorFront` | the emulator's routes, its form parser and the signature check in front of `Gateway`'s commands |
| `Harness` | the twelve applications, the command line, the places of the toolchains |
| `E2E` | runs of the suite on one machine: keys, processes, kills, and the calls of each test |
| `MCPayment`, `MCServers`, `MCPaymentForms`, `MCE2E` | symmetry sets, requests, texts and machines for TLC |
| `Payment_proofs` (gateway, page, server and checkout), `CardFields_proofs`, `Forms_proofs`, `React_proofs`, `Server_proofs`, `E2E_proofs` | theorems; those of the poll loop stand in `StatusPoll`, and `PollLoop` holds the one lemma that it shares with the checkout |

State and code. `stage[d]` is how far the scripts of one page load have come; `pay[d]` is the
text and `disabled` of `#payButton`; `formError[d]` and `panel[d]` are the keys of `ERROR_COPY`
and `STATUS_COPY` on show; `poll[d]` is the `order` object and where its loop stands. An *attempt*
`i` is one press that got past `customerDetails()`: the promise chain tokenize, `onToken`,
`POST /pay`. `attempt[i].waits` says what that chain waits for, and `payCall[i]` is its request
inside the server. `ticketScenario`, `tokenScenario` and `order` are the emulator's three Maps.
`ticketName` and `tokenTicket` are history: the scenario spelled in a ticket's text, and the
ticket a token came from.

Scripts and node handlers run to completion, so one handler is one action; between a request and
its reply anything may happen. Three things are folded into one step because nobody can look in
between: minting a ticket and delivering the page that carries it, reading an order and answering
`/status` with it, and arriving at the issuer and holding its signed form. A reply that is lost is
an action of the side that waited (`LoseToken`, `LosePay`, `PageLosesStatus`); a gateway call that
takes too long is `FailPay` or `FailStatus`, after which the gateway may still do the work.

Ids are random in the code and are taken to be distinct, except the emulator's seven-digit order ids:
`CreateOrder` takes any of them and overwrites the order that has it, as `createOrder()` does.
`Collided` of `PaymentProperties` names the orders to which that has happened. `SlowBank` chooses
between a bank that decides some time after the Sale or the challenge, which is what the pages are
written for, and the emulator, which decides on the spot.

`FieldsReady` is the SDK's `onReady`: it comes when the last field says "ready", and again for every
field that is loaded again (`hosted-fields.js:83-91`). On the plain page it makes the button live whatever
it was (`checkout.js:429`), so that the payer can press it under a payment that is under way: the page
then runs two at once. `rearmed` is a history variable, the pages on which that has happened.

`CheckoutPage`, `PlainPage` and `CardFields` model the same `checkout.js` for three questions.
`CheckoutPage` keeps the events of many pages and presses inside the whole checkout and has one bit for
the payer's details. `PlainPage` keeps what the payer types and reads, on one page, so that it can be
compared with the React ports; it follows one payment, and stops (`"twice"`) at a press under one that
is under way, which is `CheckoutPage`'s subject. `CardFields` keeps the theme and the messages of the iframes, and reduces
the sale to how it ends for the button.

### Fields and theme

`inbox[f]` and `outbox[f]` are the messages on their way to and from the document in frame `f`; a
message to a document that is not there (`f` not in `up`) is lost, one from a document that is gone is
still delivered, since the instance looks at the frame and not at the document. `ready`, `collecting`,
`gathered` and `bornWith` are `this.ready`, `this.collecting`, `this.values` and the style in
`options.fields`. `attr` is `data-theme`, `stored` is `localStorage`, `system` is
`prefers-color-scheme`, `follows` the listener on it, and `pageStyle` what the page would give the SDK.
Which of the three pages runs, whether the stylesheet has loaded and whether storage works are chosen
in `CardInit`.

### The three pages

A page is a record, an event an operator from record to record, and `view` what the payer sees of it.
The React pages keep the state React keeps; a callback that outlives its render is given the record it
closed over where the code does that. A text is a sequence of the character classes the patterns tell
apart, one of which is a small letter with a longer capital. `latest` is the ref `latestValues`: a render
writes it (`rendered`), and `handleSubmit()` and the SDK's callbacks, which belong to the first render,
read it. `PaymentForms` remembers what the pages may differ in: `silent`, a field was filled without an
event; `late`, one was edited under a payment; `reloaded`, one said ready again; `apart`, the payer pressed
a button that one page has live and another has not. `ReactPage` runs the hook of `NextPage` or
`GoReactPage` under React's effects: `watch.runs` are the runs of its effect, each with its own request
or timer, of which a cleanup leaves only the last active.

### Signatures and the harness

A base string and a header are texts over the characters that the eleven encoders treat differently;
RSA is an injective function of key and base string. `EmulatorFront` is the order in which
`server.ts` looks at a request. `E2E` has one step per thing that can happen between two others: a file
written, a server started, a request sent, an answer received. `Developer` is everything a person does
at any moment: start a run or an emulator, kill, stop what is left over, delete `.tmp`. A test is the
calls its payment makes; what the specs expect of the page is checked in the modules of the page.

### The servers

A port is four operators. `Handle(r)` is a route's handler up to its gateway call: an answer at once,
or the call with its parameters. `Finish(r, g)` is the rest of the handler once the call has come to
`g`. `Timed` is the set of stages the port's own timer covers, and `Unready(r)` what becomes of `r`
where a required setting is missing: in most ports there is no listener, PHP and Next.js find out per
request. `MerchantServers` makes a server of them. Ports keep nothing between requests, so `Deploy`
may put another one there between two requests, between a redirect and the request it leads to
(`Follow`), or during a call, whose connection then closes.

`Merchant` and `ExpressServer` model the same server for two questions. `Merchant` keeps many
requests in flight, each with an id of its own, inside the whole checkout; what a body or a reply
looks like does not matter there. `ExpressServer` takes one request apart; since no port shares
state between requests, one at a time is enough.

Data. A JSON member is `absent`, `null`, `empty`, `blank`, `text`, `number` or `list`, which is what
the ports' truthiness, trimming and typed decoders tell apart; a body is an object of those, or
malformed, scalar, null, a list, or of a type the framework does not parse (`unread`); at the callback it
is a form, `unread`, or one that the port's own reader gives up on (`unreadable`): cut short, above its
limit, or with an escape it minds. The ports answer that one with 400 (Go, Next.js, .NET, Java, Rust, Ruby),
413 (Python), 500 (Kotlin), 502 (Express) or, since PHP reads an empty form, 403. `form` is what a form
holds, `query` what the callback's own URL holds, which only Ruby reads: Sinatra's `params` are the query
and the body over it (`Merged`). One documented browser field
stands for eight, the e-mail for four customer details, and `amount` for any field a page has no
business to send. A query or a form maps a name to the list of its values; a value is a sequence of
characters, one of which takes two bytes. The checksum is an injective function of the three signed
fields written one after the other, so that a forged one never verifies and moving a character from
one field to the next does not change it. Go-react's handlers are go-js's, word for word, and are
not a port of their own.

Not modelled of the servers: static files and their paths, security headers, malformed percent
escapes in a URL, duplicate members of a JSON object, the parsing of `.env` files, logging.

## Runs

| Run | Instance | Shows |
| --- | --- | --- |
| `gateway` | 2 tickets, 2 tokens, 2 colliding order ids, any calls, resets | one token per ticket; a flow plays the scenario its ticket was minted under |
| `status_poll` | the real `MAX_POLLS` of 45, all five statuses and none, started by the payment page or the return page | the bound; no verdict while there is work left; implements `OrderWatch`, with its liveness, also for a payer who is back from the issuer |
| `payment_page` | 1 page, 3 presses, 1 ticket, 2 tokens, 2 colliding order ids, fields that load again at any time | one payment per page load and one loop, whatever the payer presses; a live button means idle, one message, a dead button stays dead, unless a field has revived it; each step of the loop keeps the safety half of `OrderWatch` |
| `payment_return` | 3 pages, 1 press, fair | the issuer at most once per order over all pages; each page keeps the safety half of `OrderWatch`; a payment in flight ends for the payer |
| `payment_two` | 2 pages, 2 presses, 2 of each id, colliding order ids, 1 poll | types; no token pays twice; a page follows its own order and shows the gateway's verdict on it, and a verdict sticks, unless the order's id is drawn again |
| `servers` | 11 ports, 284 requests, 14 replies | ordinary requests lead to the same call and answer everywhere; a return signed off by one port is accepted by any; a Sale is the server's own; every port implements `PortContract`; a call that times out ends, in the JVM ports up to the headers |
| `card_fields` | 3 kinds of page, 2 fields, 1 reload of a field, 2 presses, 3 changes of theme | one callback per call; a button that waits; what a field wears; the theme on the way to the bank and back; a tokenization gathers its values unless a field goes away |
| `payment_forms` | 3 pages, 4 edits, 10 texts, every kind of error and reply, 2 polls | the pages read alike after every event and post the same customer; the suggested name is accepted |
| `react_page` | 2 ports, effects once and twice, the real 45 polls, any replies and losses | the hook implements `OrderWatch` with its liveness; a run that was cleaned up is silent; an order is followed to its end |
| `e2e` | 12 applications, 4 machines, 4 command lines, native and docker, 2 runs, 1 kill, 1 removal, 4 pairs of keys, 3 payments | a pair is a pair; green means paid; red has a cause outside the code; every port's call verifies and vouches for one Sale; every run ends |
| `error_not_charged` | 1 page, 2 presses | finding 1 |
| `next_root_never_polls` | Next.js at the root and below it | finding 2 |

Bounds. A page load has one ticket and a ticket makes one token, so a third press adds nothing that
a second does not; three are run to see it. A return needs the page that leaves, the page that
comes back, and a reload of it. Two payments show whether ids cross; a third is symmetric. `MaxPolls`
is 45 where the loop is checked on its own; the composed runs use 2 (ask, sleep, ask, give up: each
branch of the limit is taken) and 1 where two payments make the product large: with 1, `PollAgain`
is not reached, which `payment_page` and `payment_return` reach. With two order
ids and two or three Sales a draw may repeat or not. A test chooses its scenario only while the instance has
a ticket left to mint (`TicketsLeft`): nothing else reads the choice. The instances need no state constraint. All ids of a kind are interchangeable, so the safety runs of `Payment` use
symmetry; `payment_return` does not, because symmetry is unsound for liveness, and `gateway` does not need it.

The requests of `servers` are a good one of every route and those that differ from it in one respect,
in two where a port reads two together (both ids of `/status`, the proxy's and the peer's address,
type and token of a body, the four signed parameters, a callback's body and its URL). A handler has no loops and reads its inputs
one after the other, so a pair that is not there behaves as the first of the two to be refused. The
replies are a good one and its single variations.

`card_fields` has two fields because the properties speak of one field and of all: the third behaves as
the second. `MaxEvents` bounds presses, changes and reloads together at four; that is enough for a
press, a reload while it collects, a second press and its late values, or for a choice, a change of the
system and another choice. The theorems of `CardFields_proofs` hold without any of these bounds. In
`payment_forms` `NameMax` is 2 and `CardNameMax` 5, which keep the relation of the code's 50 and 128:
two halves and a space fit, with nothing to spare for a capital that is longer. `MaxEdits` is four: a first
name, a last name, a correction, and an edit under the payment. Ten texts hold one
of each kind a pattern accepts or refuses. In `e2e` the second run meets what the first left behind, a
third would meet the same; four pairs of keys are the most that this instance ever generates.

`CHECK_DEADLOCK FALSE` is set where the system may stop: a checkout when every page is closed and every
id of the instance is used, a form when its payment is over, a hook when its order is, a developer who
has done everything the bounds allow. `Gateway`, `StatusPoll` and `Servers` are checked for deadlock.

Fairness. `FairSpec` of `Payment` is weak fairness of the SDK's exchange with the gateway, of the two
callbacks it ends in, of the server's handlers and of timers. The server's part is justified by the 30 s
timeout of `paynet.js:26`: a `/pay` or `/status` that the gateway never answers is answered by
`FailPay` or `FailStatus`. The callbacks and the 4 s timer are the browser's. `tokenize()` itself has no timeout: of two presses on one
page the second may replace the first, and a field that loads again has lost its value. So the exchange is
assumed to be answered only where no other press is on its page (`Unanswered`), and either by the gateway or
by the field that is loading again, which says ready (`FieldReports`) and so gives the button back. Nothing
is assumed of the payer, of the gateway's answers to the server, or of how often a reply is lost.
`PaymentsEnd` has closing the tab as one way out. `MerchantServers` assumes that a timer which is set goes off
(`WF_vars(CallTimesOut)`), and nothing of the gateway, which may stop before or in the middle of its
reply. `Timed` says how far the timer of each client goes: over the whole exchange in `fetch`, Go, curl,
reqwest and .NET, over each read in Python and Ruby, and over the headers only in `java.net.http` as of
the Java 21 the two JVM ports are built for. `CardFairness` says that the browser loads a document it has
begun to load and delivers a message that was posted. `ReactFairness` says that a fetch settles and a timer
fires. `E2ESpec` has weak fairness of `Programs` as a whole: some process that can go on does, each wait of
Playwright's having a timeout; nothing is assumed of the developer.

Every property has a mutant in `PROJECT.json`: a plausible slip in one mapped definition under which
TLC finds the property violated.

## Findings

1. The error panel says that "nothing has been charged" (`status.js:96`) after a lost `/status`
   reply or a 502, also about an order the bank has approved.
2. Next.js may be served at the root (`next.config.ts:13`), but `useOrderStatus()` takes an empty
   `basePath` for an order that is not there (`use-order-status.ts:35`): the page takes the payment and
   never asks what became of it.

Statements of the code that fail, kept as definitions without a run of their own. Adding one to the
configuration named shows its counterexample:

| Definition | Add to | Says, and what happens |
| --- | --- | --- |
| `LiveButtonHasTicket` | `PaymentPage.cfg`, INVARIANT | A live button has a ticket left (`checkout.js:204`). A refused or lost `/pay` gives the button back although the ticket is spent; the next press can only end in "reload the page". |
| `PostedDetailsValid` | `PaymentPage.cfg`, INVARIANT | Details are checked before tokenization (`checkout.js:377`), but read again after it: an edit in between is posted unchecked. |
| `EditedUrlIs403` | `Servers.cfg`, INVARIANT | An edited URL gets a 403 (`README.md:121`). A checksum of the right length with a character outside ASCII makes `timingSafeEqual` throw in both Express ports, which answer 502, and `compare_digest` in Python, which answers 500. Nothing is served in either case. |
| `ConfigStaysAScript` | `Servers.cfg`, INVARIANT | `/config.js` stays valid JavaScript whatever happens upstream (`Routes.java:109`). A reply that is the JSON `null` takes Java to a NullPointerException (`Paynet.java:225`) and a 500. |
| `NobodyWaitsForever` | `Servers.cfg`, PROPERTY | "Both halves of the timeout are named" (`Paynet.java:37`), but the second ends with the headers: a gateway that stops in the body keeps the payer waiting, in Java and Kotlin. |
| `ChosenThemeStays` | `CardFields.cfg`, INVARIANT | The page follows the system "while the payer has not chosen" (`checkout.js:159`, `use-theme.ts:35`), but goes on listening after a choice and lets the system override it. |
| `LiveButtonIdle`, `OneMessageAtATime`, `DeadButtonStaysDead` without their exception of `rearmed` | `PaymentPage.cfg` | "One tokenization per ephemeralTicket" (`checkout.js:440`), a panel that must not go on "saying we are waiting on the bank" (`checkout.js:489`), a button some errors "cannot come back from" (`checkout.js:204`): a field that loads again makes the button live in each of these states. |
| `FieldsFollowTheTheme` | `CardFields.cfg`, INVARIANT | The iframes follow the theme (`checkout.js:434`), but a field that says it is ready after a change is given the style of `init()`, and so is one that reloads. |

Noted while modelling: the emulator refuses "already spent" tokens (`gateway.ts:46`) but spends none, so
that one token paying once is up to page and server (`NoTokenPaysTwice`, which holds and is proved);
`php-js/index.php:457` says that Node keeps the first of a repeated name, and Express joins them;
`ruby-sinatra-js/app.rb:303` says that every example takes the leftmost forwarded address, and Python and
Rust take the rightmost; Go panics on a Sale reply of `null` (`main.go:121`) and Kotlin hands the page the
word `null` as its ticket (`Paynet.kt:51`); upper-casing a name is not one for one (`checkout.js:338`)
where it holds a German sharp s, which the patterns of first and last name refuse, so that only the caret
is affected (`SuggestionFits`). The key pair is two files and two processes may write it at once (`PairIsAPair` excepts that); `apps.ts:261` calls
one application "the only app that needs it" when it pins a setting, and Next.js with a `BASE_PATH` of its
own `.env` needs it too (`RedForAReason` lists it); with `--project a b` only `a` is started, and a server
of `b` that was left behind is tested in its place.

## Proofs

Proved by TLAPS, for any sets of pages, presses, ids, details and fields, any `MaxPolls` and any bounds,
any requests, replies, runs, processes and texts, from the named assumptions of the constants only:

| Module | Theorem | Says |
| --- | --- | --- |
| `Payment_proofs` | `TicketIsSingleUse`, `ScenarioIsPinned` | `OneTokenPerTicket` and `ScenarioPinned` |
| `StatusPoll` | `PollsAreBounded`, `NoEarlyVerdict` | `PollsBounded`, `NoVerdictWhileWatching` |
| `StatusPoll` | `PollKeepsWatch` | the loop implements the safety part of `OrderWatch` |
| `Payment_proofs` | `PaymentTypes` | `PaymentTypeOK` |
| `Payment_proofs` | `PageIsPaidOnce`, `TokenPaysOnce` | `OnePayPerPage`, `NoTokenPaysTwice` |
| `Payment_proofs` | `CheckoutUsesGateway` | the composed checkout implements `GatewaySpec` |
| `Payment_proofs` | `LiveButtonIsIdle`, `OneLoopAtATime`, `OneMessageShown`, `DeadButtonIsDead` | `LiveButtonIdle`, `OneLoopPerPage`, `OneMessageAtATime`, `DeadButtonStaysDead` |
| `Payment_proofs` | `OrderIsOwn`, `VerdictShownIsTrue`, `IssuerIsVisitedOnce`, `VerdictNeverChanges` | `FollowsOwnOrder`, `VerdictIsTrue`, `IssuerOnce`, `VerdictSticks`, with colliding order ids |
| `Payment_proofs` | `PagesKeepTheirWatch` | `PagesKeepWatch`: every polling loop of a checkout implements the safety part of `OrderWatch` |
| `CardFields_proofs` | `CallsAreAnswered`, `ButtonIsHeld` | `OneCallbackPerCall`, `ButtonWaits` |
| `CardFields_proofs` | `FieldsAreDressed`, `ThemeComesBack` | `FieldsWearTheLastPush`, `ThemeSurvives` |
| `Forms_proofs` | `ThreePagesReadTheSame` | `SamePage`: the plain page, Next.js and go-react show and post the same |
| `Forms_proofs` | `SuggestedNameFits` | `SuggestionFits`: the name suggested for the card is one the page accepts |
| `React_proofs` | `ReactTypes` | the document keeps its type |
| `React_proofs` | `HookKeepsThePromise` | `useOrderStatus()` implements the safety part of `OrderWatch`, with effects that run twice |
| `React_proofs` | `CleanedUpIsSilent` | `CleanedUpRunIsSilent` |
| `Server_proofs` | `EveryPortKeepsTheContract` | `KeepsTheContract`: eleven ports implement `PortContract` |
| `Server_proofs` | `SaleStaysOurs` | `SaleIsOurs` |
| `Server_proofs` | `PortsAreInterchangeable`, `ReturnsAreAccepted` | `SameEverywhere`, `ReturnReachesThePage` |
| `E2E_proofs` | `KeysAreAPair`, `GreenRunsWerePaid` | `PairIsAPair`, `GreenMeansPaid` |
| `E2E_proofs` | `SignedCallsVerify` | `CallsVerify`, with `E2E_VERIFY_OAUTH` on: the emulator accepts a port's call if and only if it was signed with its own key |
| `E2E_proofs` | `SignaturesAreForOneSale` | `OneSignatureOneSale`: no two sets of parameters are sent under one signature |
| `E2E_proofs` | `RedRunsHaveAReason` | `RedForAReason`: every red run has a cause outside the code under test |

*Gateway.* That two tokens never share a ticket is not inductive: it needs that a ticket still in
the Map has made no token, and that a ticket in the Map or in a token was minted. The scenario
travels ticket, token, order, so `ScenarioPinned` needs the same equation at each of the three, for
entries that a reset may have dropped.

*Poll loop.* The bound needs the loop's place: `attempts < MaxPolls` while it sleeps, at most
`MaxPolls` while it asks. `ReplyBranches` splits a reply into the five branches of `pollStatus()`
once, and both safety theorems and the refinement cite it.

*Checkout.* The composed proof is layered like the model. `PageInv` and `MerchantInv` are proved
once per component against every action of the component; `StepOfPage`, `StepOfMerchant` and
`StepOfGateway` show that every step of `Payment` is a step of each component or leaves it alone.
The glue is `TokenIsOwn` (a token an attempt has heard of was made from its page's ticket),
`PostedIsOwn` (what was posted is that token) and `OrderIsPaid` (an order's token was posted by the
attempt whose Sale made it). One payment per page then follows: two payments of a page would be two
tokens of one ticket, which the gateway's invariant forbids. A token paying twice would be two
attempts with one token, hence one page with two payments.

*Button.* What the button, the error and the panel of a page say together (`PageFits`) is kept by the
handlers of that page if the callback that arrives is the one the page waits for. That is
`PressHoldsButton`: a press waits only on a page in flight, and at most one press waits on each page. Both
speak of a page until a field revives its button, after which it is in `rearmed` for good and they claim
nothing of it but that it is no page that lost its SDK. They are inductive together (`ButtonInv`), and
`LiveButtonIdle`, `OneMessageAtATime` and `DeadButtonStaysDead` follow. `OneLoopPerPage` needs none of it: a
page has one ticket, hence one payment, whatever is pressed, and an answer that brings an order is that one's.

*Order.* With the emulator's seven-digit ids a Sale may overwrite an order another page follows, and its
verdict with it, so the theorems on orders hold of every order whose id was not drawn twice (`Collided`),
among any number that were. The inductive invariant `FollowInv` says how everyone who names an order knows
it: calls, returns and pages name an order that exists under the client id it was made with, no two pages
were given the same ticket, and an answer on its way is still true, because a verdict is taken back only
with its order. `IssuerOnce` needs all of it: two pages at the issuer with one order would have made it from one ticket, and a page without a ticket
is the return page, which never goes there.

*Fields.* `ThemeInv` is the layer below: types, that a page has a theme before it has fields, that a
message waits only for a document that is there. On it stand four small invariants. `OneCallbackPerCall`
is inductive by itself. `ButtonWaits` needs that a page at rest has nothing outstanding and a page that
waits has one thing (`WaitInv`), and for the plain page that a field says "ready" once, before anything
else (`ReadyOnce`), since its `onReady` enables the button. `FieldsWearTheLastPush` needs the messages:
`Dressed` says that the last style in an inbox, or the one worn, is the one due, and `HearingDresses` that
hearing the first message keeps it so. `ThemeSurvives` needs what storage knows (`ChoiceInv`): the plain
page stores what it shows, a React page only what was chosen.

*Forms.* The three pages have sources of their own, so the proof begins with what they have in common:
lemmas `OneTrim` to `OneStart` say operator by operator that two sources compute one function, without
asking what that function is. The two React pages are then equal at every step (`ReactPagesMove`), and what a render showed last is what
their ref holds (`SameFields`), so that a callback of the first render posts it. The plain page
stores the words of its button and its panel where React derives them, so `FormsInv` relates the two state
by state: `Loading`, `Unavailable`, `Filling`, `Paying`, `Waiting`. While a payment is on its way the hints
of the React page must still be those of the values on show, because the plain page checks them again when
it posts (`Paying`); while an order is followed the hook has one run that counts as the plain loop does
(`Waiting`). One lemma per event (`LoadKeeps`, `TypingKeeps`, ..., `StatusKeeps`) carries a pair of pages
through it, and `AllWait` says that an event reaches both or neither. A field that is loaded again breaks
this pairing, since it makes the button of the plain page alone live. `FormsInv` therefore pairs the React
page with what the plain page would be without that, from which the real one differs in its button only
(`Wears`, `Livened`); the lemmas `Livened...` carry that difference through every handler, and
`ReadyAgainKeeps` brings it about. The one assumption on the replies
(`FormsAssumption`) is that a Sale with an order has our `clientOrderId`, and that an `error-message` beside
an `error` of our own is not empty: otherwise the pages do differ.

For `SuggestionFits` it does matter what the functions compute. `SuggestionIsAName` follows a suggestion
through them, for names of any length: trimming shortens and keeps the first letter (`TrimShortens`),
joining the halves gives at most `2 * NameMax + 1` characters, spacing only shortens (`SpacingShortens`),
and capitals of the letters a name may have are one letter each (`CapitalsFit`), so the card's limit is
kept because `PageAssumption` says it has room for two names and a space. The invariant `SuggestInv` is
that an untouched cardholder's field holds the suggestion of the names beside it, or no first name has been
typed; it holds because nothing but typing changes a value (`PlainMoves`, `ReactMoves`).

*React hook.* A run of the effect that was cleaned up may still have a request out or a timer set, and
React may start the next run before that reply comes. `HookInv` therefore speaks of all runs at once:
only the last one may be active (`LastRunSpeaks`), its timer is set only while another poll is allowed
(`TimerIsAllowed`), nothing is shown of an order before its run has asked (`NothingToldYet`), what ended a
run is on show (`ToldWhenOver`), and a payer back from the issuer is known to have been there
(`KnowsWhoIsBack`). The two ports, Next.js and go-react, share one state and differ in what a reply is
taken for; `RepliedComesTo`, `LostComesTo` and `FiredComesTo` say once what the hook comes to.

*Servers.* Each port is taken apart into the same few facts, by lemmas of the same names: how it reads a
form (`ExpressReads`, ...), that it computes the same checksum and query (`...Signs`), what its Sale holds
(`...SaleIs`), that a request ends in a call, a refusal or a page for parameters that some reading of
them finds signed (`...Handles`), and what comes of the call (`...Finishes`). `PortHandles` and its like
put the eleven together, and the rest of the proof does not know which one is deployed. `ServerInv` then
says that a call is out only for a request that needs one; the contract follows action by action, a
deployment during a call being a call that comes back with nothing. For `SaleStaysOurs`, `OursGoFirst`
is the one place that looks into the parameters. `Usual` says what a port does with an ordinary request,
and every port is proved to do it (`...Usual`), which makes them interchangeable. A payer sent on from the
bank is accepted because `FormComesBack`: what `SignedQuery` writes, a server that reads a name's first,
last or joined values gets back, with the checksum that fits it.
The requests are assumed to be records of the kinds of value a request can have (`ServersAssumption`),
a form posted to `/pay` is `unread`, and some request is for the result page. A callback that no reader
takes is refused by every port, by its own status (`...Handles`).

*Keys and runs.* `PairIsAPair` needs who is writing which file and whether a writer was killed; it is
proved for any number of processes. `GreenMeansPaid` needs the way of a run from its command line to its
tests: which applications it selected, which servers it found or started, and that a test passes only on a
payment of its own.

*Signatures.* Two things are shown of the text that a port signs, for parameters of any length and any
order of names: the emulator rebuilds it from what arrives, and it can be read back. For the first,
`EncodesAgree` says that the eleven encoders agree on every text, `PortsAgree` and `SignersAgree` that they
build one base string and one header, `BodyReadBack` and `ParsedHeader` that the form parser and the header
parser return what was put in, and `VerifierAgrees` that the emulator's base string is the signer's. For the
second, `BasesDiffer` and `SignaturesDiffer` follow from `SplitJoin`: no encoded text contains the
separators, so a base string falls apart into the parts it was joined of, and `DecodeEscape` undoes the
encoding of each. The texts are built by `FlattenSeq`, a recursive function, and what it computes is an
induction over data. It is done here without the library's induction theorems, which need an operator as
their argument: `LeastIsThere` gives a set of naturals its least member, `Counting` turns that into
induction over a set, and `Growing`, for texts, into induction over a set of texts closed under one more
letter. `FlattenIs`, `FlattenAppend`, `SplitIs` and `SplitGrows` are the recursion equations that each
induction then needs.

`KeysInv` carries the two facts to every call of a run: a server that is up holds a key and listens under
its own path (`ServersAnswer`), as long as nobody deleted or raced a key that key is the one on the disk
(`PairStays`, `ServersHaveTheKey`), and a call on its way is one of the signed calls, with that key
(`WireInv`).
`SignedCallsVerify` assumes `VerifyOAuth`, because the emulator accepts anything without it. `Calls` and
`Verdicts` are tables (`Tabulated`) so that TLC computes each signature once; `TableIsItself` says that a
table is the function it tabulates.

*Red runs.* `RedForAReason` says that a run fails in nothing but its surroundings, so the proof shows for
every way to fail that without a reason it cannot happen. `World` says what is left standing: who a run
started and waited for is up as long as it lasts (`UpInv`), and a process left over from before comes from
a kill or was started by hand (`ServersLeft`, `EmulatorLeft`). With the keys of `KeysInv`, every call of a
test then gets the answer the test needs (`AnswersAreUsable`): the emulator's by `CallIsAnswered`, the
server's by `OwnCallIsAnswered`. A server that cannot start has a tool that is neither on the `PATH` nor in
a place `apps.ts` looks at first (`NotStartable`), and only Next.js is moved by its own `.env`
(`OnlyNextMoves`). `RedInv` is inductive with these: a test that has failed already stays explained until
the run ends.

The assumptions are on the instance and name no behaviour: applications are among the twelve, parameters,
names of parameters, key names and command lines are texts, a payment does not use the names OAuth adds, "no
key" is not the name of a key, the names of parameters are not among the codes of the characters
(`E2EAssumption`, `OAuthAssumption`).

Only model-checked: liveness (`PaymentsEnd`, `RequestsEnd`, `TokenizationGathers`, `OrderFollowed`,
`EveryRunEnds` and the liveness half of `OrderWatch`), which TLAPS does not do under fairness. Every
invariant and every action property of a passing run is a theorem.

## Not modelled

- Layout, wording beyond the key of a message, focus and caret, the classes the SDK paints: no property
  is about them.
- What the card fields hold, the RSA signature itself, logging, static files, security headers.
- `.env` parsing and the stub gateway: read once at start. The servers keep only whether the settings are
  complete; the harness keeps the two settings that can go wrong.
- `docker/` and `nginx`: the proxy is the prefix behind which `MerchantServers` replaces a port, and
  `composeUp` starts it; its configuration is not modelled. `sync-shared.sh` copies files: the copies of
  `checkout.js` and `status.js` in the examples are the shared ones, byte for byte.
