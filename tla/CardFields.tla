------------------------------- MODULE CardFields -------------------------------
(***************************************************************************)
(* One payment page and its card iframes: the theme, which reaches a field *)
(* only by a message, and the Pay button, which the fields enable.  `port` *)
(* is the page: "plain" is shared/public/checkout.js, "nextjs" and         *)
(* "go-react" are the two React applications.                              *)
(*                                                                         *)
(* The sale is reduced to how it ends for the button; the order it leads   *)
(* to is the business of Payment and ReactPage.                            *)
(***************************************************************************)
EXTENDS HostedFields

CONSTANTS Ports,
          MaxReloads, MaxChanges, MaxPresses, MaxEvents   \* bounds, the last on their sum

Themes == {"light", "dark"}
NoTheme == "unset"
ASSUME CardAssumption ==
  /\ Styles = Themes
  /\ Ports \subseteq {"plain", "nextjs", "go-react"}
  /\ {MaxReloads, MaxChanges, MaxPresses, MaxEvents} \subseteq Nat

VARIABLES
  port,        \* which page this is
  css,         \* styles.css is applied
  storable,    \* localStorage takes what it is given
  system,      \* prefers-color-scheme
  stored,      \* localStorage['pay-theme']
  attr,        \* data-theme of <html>
  follows,     \* the listener on prefers-color-scheme is registered
  pageStyle,   \* FIELD_STYLE, or the style the SDK effect captured
  stage,       \* "closed", "loading", "open"
  button,      \* plain: the element; React: derived, see Live
  form,        \* React's state of the form
  sales,       \* tokens our server has been given and not answered
  chosen,      \* history: what the payer last chose with the toggle
  asked, superseded, answered, ended,   \* history: presses, and what became of them
  pushed,      \* history: fields told of a theme since they were last heard ready
  reloads, changes                      \* the bounded counters

themeVars == <<css, storable, system, stored, attr, follows, pageStyle, chosen, changes>>
formVars == <<button, form, sales, asked, superseded, answered, ended>>
vars == <<sdkVars, themeVars, formVars, port, stage, pushed, reloads>>

Bounded == asked + changes + reloads < MaxEvents

IsReact == port # "plain"
Opposite(t) == IF t = "dark" THEN "light" ELSE "dark"

CardTypeOK ==
  /\ SdkTypeOK
  /\ port \in Ports
  /\ css \in BOOLEAN /\ storable \in BOOLEAN /\ follows \in BOOLEAN
  /\ system \in Themes
  /\ {stored, attr, chosen} \subseteq Themes \cup {NoTheme}
  /\ pageStyle \in Styles \cup {NoStyle}
  /\ stage \in {"closed", "loading", "open"}
  /\ button \in {"preparing", "live", "busy", "dead"}
  /\ form \in [ready: BOOLEAN, inFlight: BOOLEAN, dead: BOOLEAN]
  /\ {sales, asked, superseded, answered, ended, reloads, changes} \subseteq Nat
  /\ pushed \subseteq Fields

CardInit ==
  /\ SdkInit
  /\ port \in Ports
  /\ css \in BOOLEAN /\ storable \in BOOLEAN /\ (css \/ storable)   \* not both fail
  /\ system \in Themes
  /\ stored \in Themes \cup {NoTheme}
  /\ attr = NoTheme /\ chosen = NoTheme
  /\ follows = FALSE
  /\ pageStyle = NoStyle
  /\ stage = "closed"
  /\ button = "preparing"
  /\ form = [ready |-> FALSE, inFlight |-> FALSE, dead |-> FALSE]
  /\ sales = 0 /\ asked = 0 /\ superseded = 0 /\ answered = 0 /\ ended = 0
  /\ pushed = {} /\ reloads = 0 /\ changes = 0

-----------------------------------------------------------------------------
(* The seam: the inside of a field is told what the container looks like,  *)
(* read back from the custom properties of the stylesheet.                 *)

(* What styles.css makes of the attribute and of the system's preference. *)
ThemeShown(a, s) == IF a = NoTheme THEN s ELSE a

CssVar(raw, fallback) == IF raw = NoStyle THEN fallback ELSE raw

(* SEAM_FALLBACK is the light palette. *)
Seam(a, s) == CssVar(IF css THEN ThemeShown(a, s) ELSE NoStyle, "light")
FieldStyle(a, s) == Seam(a, s)

ReactCssVar(raw, fallback) == IF raw = NoStyle THEN fallback ELSE raw
ReactFieldStyle(a, s) == ReactCssVar(IF css THEN ThemeShown(a, s) ELSE NoStyle, "light")

StyleNow(a, s) == IF IsReact THEN ReactFieldStyle(a, s) ELSE FieldStyle(a, s)

(* Pushing a style to every field; only a field that has been heard ready  *)
(* since it loaded is sure to keep it.                                     *)
Push(style) ==
  /\ SetStyle(style)
  /\ pushed' = {f \in up: \A i \in DOMAIN outbox[f]: outbox[f][i] # "ready"}

NoPush == UNCHANGED <<sdkVars, pushed>>

-----------------------------------------------------------------------------
(* The theme. *)

DoNotStore(t) == UNCHANGED stored   \* a bug: the choice does not outlive the page
StoreTheme(t) == stored' = IF storable THEN t ELSE stored

(* checkout.js: applyTheme() stores every theme it applies. *)
ApplyTheme(t) ==
  /\ attr' = t
  /\ StoreTheme(t)
  /\ pageStyle' = FieldStyle(t, system')
  /\ Push(pageStyle')

(* use-theme.ts: setTheme() stores, follow() does not; the theme effect of *)
(* the form pushes the style of a theme that changed, once there is an SDK.*)
PushChange(t) == IF Mounted /\ t # attr THEN Push(ReactFieldStyle(t, system')) ELSE NoPush

SetTheme(t) ==
  /\ attr' = t
  /\ StoreTheme(t)
  /\ PushChange(t)
  /\ UNCHANGED pageStyle

Follow(t) ==
  /\ attr' = t
  /\ UNCHANGED <<stored, pageStyle>>
  /\ PushChange(t)

(* The toggle: the plain page wires it with the SDK, React renders it. *)
Toggle ==
  /\ stage = "open" \/ (IsReact /\ stage = "loading")
  /\ changes < MaxChanges /\ Bounded
  /\ changes' = changes + 1
  /\ chosen' = Opposite(attr)
  /\ IF IsReact THEN SetTheme(Opposite(attr))
                ELSE system' = system /\ ApplyTheme(Opposite(attr))
  /\ UNCHANGED <<css, storable, system, follows, formVars, port, stage, reloads>>

(* The system's preference changes, and the page follows if it listens. *)
SystemChanges ==
  /\ changes < MaxChanges /\ Bounded
  /\ changes' = changes + 1
  /\ system' = Opposite(system)
  /\ CASE follows /\ IsReact -> Follow(Opposite(system))
       [] follows /\ ~IsReact -> ApplyTheme(Opposite(system))
       [] ~follows -> NoPush /\ UNCHANGED <<attr, stored, pageStyle>>
  /\ UNCHANGED <<css, storable, follows, chosen, formVars, port, stage, reloads>>

-----------------------------------------------------------------------------
(* Loading the page. *)

StoredOr(s) == IF stored # NoTheme THEN stored ELSE s

(* What result.js makes of the stored theme on the 3DS return page. *)
ReturnTheme == StoredOr(system)

(* layout.tsx / applyStoredTheme(): the attribute is there before React. *)
ThemeBootstrap == StoredOr(system)
ApplyStoredTheme == StoredOr(system)

(* checkout.js up to the script tag: FIELD_STYLE is computed at once. *)
LoadPlain ==
  /\ ~IsReact
  /\ pageStyle' = FieldStyle(NoTheme, system)
  /\ UNCHANGED <<attr, follows>>

(* The effects of the first render: the SDK effect captures the style, and *)
(* useTheme() listens to the system unless a choice is stored.             *)
LoadReact ==
  /\ IsReact
  /\ attr' = IF port = "nextjs" THEN ThemeBootstrap ELSE ApplyStoredTheme
  /\ pageStyle' = ReactFieldStyle(attr', system)
  /\ follows' = (stored = NoTheme)

Load ==
  /\ stage = "closed"
  /\ stage' = "loading"
  /\ LoadPlain \/ LoadReact
  /\ UNCHANGED <<sdkVars, formVars, css, storable, system, stored, chosen, changes,
                 port, pushed, reloads>>

(* initTheme(): the stored theme or the system's, stored at once; the page *)
(* listens to the system if nothing was stored when it looked.             *)
InitTheme ==
  /\ attr' = StoredOr(system)
  /\ StoreTheme(StoredOr(system))
  /\ pageStyle' = FieldStyle(StoredOr(system), system)
  /\ follows' = (stored = NoTheme)

(* onHostedFieldsReady: init(), and on the plain page initTheme(sdk), whose *)
(* push finds no document in the iframes yet.                              *)
BundleRuns ==
  /\ stage = "loading"
  /\ stage' = "open"
  /\ Mount(pageStyle)
  /\ IF IsReact THEN UNCHANGED <<attr, stored, pageStyle, follows>> ELSE InitTheme
  /\ UNCHANGED <<formVars, css, storable, system, chosen, changes, port, pushed, reloads>>

-----------------------------------------------------------------------------
(* The button. *)

Live == IF IsReact THEN form.ready /\ ~form.inFlight /\ ~form.dead ELSE button = "live"

(* onReady: setFormLoading(false), or setReady(true). *)
OnReadyPlain == button' = "live" /\ UNCHANGED form

OnReadyReactFresh ==   \* a bug: a ready form forgets its payment and its error
  form' = [ready |-> TRUE, inFlight |-> FALSE, dead |-> FALSE] /\ UNCHANGED button

OnReadyReact == form' = [form EXCEPT !.ready = TRUE] /\ UNCHANGED button

ReadyArrives(f) ==
  /\ HearReady(f)
  /\ pushed' = pushed \ {f}
  /\ IF ready' = Fields THEN (IF IsReact THEN OnReadyReact ELSE OnReadyPlain)
                        ELSE UNCHANGED <<button, form>>
  /\ UNCHANGED <<themeVars, sales, asked, superseded, answered, ended, port, stage, reloads>>

(* submit: the button is disabled and one tokenization starts. *)
Press ==
  /\ Live
  /\ asked < MaxPresses /\ Bounded
  /\ asked' = asked + 1
  /\ superseded' = IF collecting THEN superseded + 1 ELSE superseded
  /\ IF IsReact THEN form' = [form EXCEPT !.inFlight = TRUE, !.dead = FALSE] /\ UNCHANGED button
                ELSE button' = "busy" /\ UNCHANGED form
  /\ Tokenize
  /\ UNCHANGED <<themeVars, sales, answered, ended, port, stage, pushed, reloads>>

(* showFormError(): a terminal error leaves the button dead. *)
ShowFormError(terminal) ==
  /\ ended' = ended + 1
  /\ IF IsReact THEN form' = [form EXCEPT !.inFlight = FALSE, !.dead = terminal] /\ UNCHANGED button
                ELSE button' = (IF terminal THEN "dead" ELSE "live") /\ UNCHANGED form

TokenArrives ==
  /\ Settle
  /\ answered' = answered + 1
  /\ sales' = sales + 1
  /\ UNCHANGED <<themeVars, button, form, asked, superseded, ended, port, stage, pushed, reloads>>

ErrorArrives(terminal) ==
  /\ Settle
  /\ answered' = answered + 1
  /\ ShowFormError(terminal)
  /\ UNCHANGED <<themeVars, sales, asked, superseded, port, stage, pushed, reloads>>

(* The order was made: the button stays as it is, and the page follows it. *)
SaleAccepted ==
  /\ sales > 0
  /\ sales' = sales - 1
  /\ UNCHANGED <<sdkVars, themeVars, button, form, asked, superseded, answered, ended,
                 port, stage, pushed, reloads>>

SaleFails ==
  /\ sales > 0
  /\ sales' = sales - 1
  /\ ShowFormError(FALSE)
  /\ UNCHANGED <<sdkVars, themeVars, asked, superseded, answered, port, stage, pushed, reloads>>

-----------------------------------------------------------------------------
PageIdle == <<themeVars, formVars, port, stage>>

FieldLoads(f) == FrameLoads(f) /\ UNCHANGED <<PageIdle, pushed, reloads>>
FieldHears(f) == FrameHears(f) /\ UNCHANGED <<PageIdle, pushed, reloads>>
ValueArrives(f) == HearValue(f) /\ UNCHANGED <<PageIdle, pushed, reloads>>

FieldReloads(f) ==
  /\ reloads < MaxReloads /\ Bounded
  /\ reloads' = reloads + 1
  /\ FrameGoes(f)
  /\ pushed' = pushed \ {f}
  /\ UNCHANGED PageIdle

CardNext ==
  \/ Load
  \/ BundleRuns
  \/ Toggle
  \/ SystemChanges
  \/ \E f \in Fields: \/ FieldLoads(f) \/ FieldHears(f) \/ FieldReloads(f)
                      \/ ReadyArrives(f) \/ ValueArrives(f)
  \/ Press
  \/ TokenArrives
  \/ \E terminal \in BOOLEAN: ErrorArrives(terminal)
  \/ SaleAccepted
  \/ SaleFails

(* The browser loads a document it started to load and delivers a message  *)
(* that was posted.  The payer, the system and the gateway owe nothing.    *)
CardFairness ==
  \A f \in Fields: /\ WF_vars(FieldLoads(f)) /\ WF_vars(FieldHears(f))
                   /\ WF_vars(ReadyArrives(f)) /\ WF_vars(ValueArrives(f))

CardSpec == CardInit /\ [][CardNext]_vars /\ CardFairness

-----------------------------------------------------------------------------
(* Properties. *)

(* hosted-fields.js: every sdk.tokenize() the page makes is on its way, at *)
(* the gateway, answered by exactly one callback, or replaced by a later   *)
(* call - also when messages of an earlier call arrive during a later one. *)
OneCallbackPerCall ==
  asked = answered + exchanges + superseded + IF collecting THEN 1 ELSE 0

(* checkout-form.tsx:409, "disabled={!ready || inFlight || terminal}": no  *)
(* button can be pressed while a payment it started is not over, however   *)
(* often the fields say they are ready.  The plain page keeps this only as *)
(* long as no field reloads: its onReady enables the button whatever the   *)
(* page is doing.                                                          *)
ButtonWaits ==
  (IsReact \/ reloads = 0) /\ Live => asked = ended + superseded

(* A field at rest wears what the page last told it, or what it was born   *)
(* with: a theme applied before the field said it was ready is lost, since *)
(* "ready" is answered with the style of init(), and nothing else is.      *)
AtRest(f) == f \in up /\ inbox[f] = <<>> /\ outbox[f] = <<>>
FieldsWearTheLastPush ==
  \A f \in Fields: AtRest(f) =>
    worn[f] = IF f \in pushed THEN StyleNow(attr, system) ELSE bornWith

(* result.js:10, "the payer's theme still has to survive the trip to the   *)
(* bank and back": the return page shows the theme the payment page shows. *)
(* React loses it when the system changes after the payer has chosen.      *)
ThemeSurvives ==
  /\ storable /\ attr # NoTheme
  /\ IsReact => chosen \in {NoTheme, attr}
  => ReturnTheme = attr

(* Every tokenization gathers its values, unless a field goes away while   *)
(* it is asked: then no callback ever comes (checkout.js has no timeout).  *)
TokenizationGathers == collecting ~> (~collecting \/ reloads > 0)

-----------------------------------------------------------------------------
(* What the code says of itself and does not keep. *)

(* checkout.js:159, use-theme.ts:35: "Follow the system while the payer    *)
(* has not chosen": what the payer chose, only the payer changes.          *)
ChosenThemeStays == chosen # NoTheme => attr = chosen

(* checkout.js:434, "Pushes the field styles too, so the iframes follow    *)
(* the theme".                                                             *)
FieldsFollowTheTheme ==
  \A f \in Fields: AtRest(f) => worn[f] = StyleNow(attr, system)
=============================================================================
