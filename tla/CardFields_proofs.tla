---------------------------- MODULE CardFields_proofs ----------------------------
(***************************************************************************)
(* The card fields, the theme and the button of one page, for any number   *)
(* of fields and any bounds on reloads, changes and presses.               *)
(***************************************************************************)
EXTENDS CardFields, TLAPS

-----------------------------------------------------------------------------
(* The types. *)

(* What the page does with the SDK: one of its operations, or nothing. *)
SdkNext ==
  \/ UNCHANGED sdkVars
  \/ \E style \in Styles: Mount(style) \/ SetStyle(style)
  \/ \E f \in Fields: FrameLoads(f) \/ FrameGoes(f) \/ FrameHears(f) \/ HearReady(f) \/ HearValue(f)
  \/ Tokenize
  \/ Settle

(* A message posted is one more at the end, and only for a document that   *)
(* is there.                                                               *)
LEMMA PostInv ==
  ASSUME SdkTypeOK, NEW m \in Styles \cup {Collect}, NEW to, Post(m, to)
  PROVE  inbox' \in [Fields -> Seq(Styles \cup {Collect})]
BY DEF SdkTypeOK, Post

(* Nobody speaks before the fields are mounted. *)
MountedFirst == ~Mounted => up = {} /\ \A f \in Fields: inbox[f] = <<>> /\ outbox[f] = <<>>

(* A message waits only for a document that is there. *)
OnlyTheseHear == \A f \in Fields: f \notin up => inbox[f] = <<>>

SdkInv == SdkTypeOK /\ MountedFirst /\ OnlyTheseHear

(* The bundle starts with nothing mounted.                                 *)
LEMMA SdkInitInv == SdkInit => SdkInv
<1>1. <<>> \in Seq(Styles \cup {Collect}) /\ <<>> \in Seq({"ready", "value"})
  OBVIOUS
<1>2. SdkInit => /\ inbox \in [Fields -> Seq(Styles \cup {Collect})]
                 /\ outbox \in [Fields -> Seq({"ready", "value"})]
  BY <1>1 DEF SdkInit
<1>3. SdkInit => /\ worn \in [Fields -> Styles \cup {NoStyle}] /\ bornWith \in Styles \cup {NoStyle}
                 /\ up \subseteq Fields /\ ready \subseteq Fields /\ gathered \subseteq Fields
  BY DEF SdkInit
<1>4. SdkInit => MountedFirst /\ OnlyTheseHear
  BY DEF SdkInit, MountedFirst, OnlyTheseHear
<1>5. SdkInit => exchanges \in Nat
  BY DEF SdkInit
<1>6. SdkInit => collecting \in BOOLEAN
  BY Zenon DEF SdkInit
<1> QED BY <1>2, <1>3, <1>4, <1>5, <1>6 DEF SdkInv, SdkTypeOK

(* Whatever it is asked, types stay and a document that is gone hears      *)
(* nothing.                                                                *)
LEMMA SdkStepInv == SdkInv /\ SdkNext => SdkInv'
<1> SUFFICES ASSUME SdkInv, SdkNext PROVE SdkInv'
  OBVIOUS
<1> USE CardAssumption DEF SdkInv, SdkTypeOK, MountedFirst, OnlyTheseHear, Mounted
<1>1. CASE UNCHANGED sdkVars
  BY <1>1 DEF sdkVars
<1>2. ASSUME NEW style \in Styles, Mount(style) PROVE SdkInv'
  BY <1>2 DEF Mount
<1>3. ASSUME NEW style \in Styles, SetStyle(style) PROVE SdkInv'
  BY <1>3, PostInv DEF SetStyle, Post
<1>4. ASSUME NEW f \in Fields, FrameLoads(f) PROVE SdkInv'
  BY <1>4 DEF FrameLoads
<1>5. ASSUME NEW f \in Fields, FrameGoes(f) PROVE SdkInv'
  BY <1>5 DEF FrameGoes
<1>6. ASSUME NEW f \in Fields, FrameHears(f) PROVE SdkInv'
  <2>1. Head(inbox[f]) \in Styles \cup {Collect} /\ Tail(inbox[f]) \in Seq(Styles \cup {Collect})
    BY <1>6 DEF FrameHears
  <2>2. CASE Head(inbox[f]) = Collect
    <3>1. Append(outbox[f], "value") \in Seq({"ready", "value"})
      OBVIOUS
    <3> QED BY <1>6, <2>1, <2>2, <3>1 DEF FrameHears
  <2>3. CASE Head(inbox[f]) # Collect
    BY <1>6, <2>1, <2>3 DEF FrameHears
  <2> QED BY <2>2, <2>3
<1>7. ASSUME NEW f \in Fields, HearReady(f) PROVE SdkInv'
  <2>1. Tail(outbox[f]) \in Seq({"ready", "value"})
    BY <1>7 DEF HearReady
  <2>2. bornWith \in Styles
    BY <1>7 DEF HearReady, Post
  <2>3. inbox' \in [Fields -> Seq(Styles \cup {Collect})]
    BY <1>7, <2>2, PostInv DEF HearReady
  <2>4. \A g \in Fields: g \notin up => inbox'[g] = inbox[g]
    BY <1>7 DEF HearReady, Post
  <2> QED BY <1>7, <2>1, <2>3, <2>4 DEF HearReady
<1>8. ASSUME NEW f \in Fields, HearValue(f) PROVE SdkInv'
  <2>1. Tail(outbox[f]) \in Seq({"ready", "value"})
    BY <1>8 DEF HearValue
  <2> QED BY <1>8, <2>1 DEF HearValue
<1>9. CASE Tokenize
  BY <1>9, PostInv DEF Tokenize, Post
<1>10. CASE Settle
  BY <1>10 DEF Settle
<1> QED BY <1>1, <1>2, <1>3, <1>4, <1>5, <1>6, <1>7, <1>8, <1>9, <1>10 DEF SdkNext

ThemeTypeOK ==
  /\ port \in Ports
  /\ css \in BOOLEAN /\ storable \in BOOLEAN /\ follows \in BOOLEAN
  /\ system \in Themes
  /\ stored \in Themes \cup {NoTheme}
  /\ attr \in Themes \cup {NoTheme}
  /\ chosen \in Themes \cup {NoTheme}
  /\ pageStyle \in Styles \cup {NoStyle}
  /\ stage \in {"closed", "loading", "open"}

(* A page has a theme, and a style for its fields, before it has fields;   *)
(* a React page has them as soon as it is there.                           *)
ThemedFirst ==
  /\ stage = "open" <=> Mounted
  /\ stage # "closed" => pageStyle \in Styles
  /\ stage = "open" \/ (stage = "loading" /\ IsReact) => attr # NoTheme
  /\ stage = "closed" => attr = NoTheme /\ chosen = NoTheme /\ ~follows
  /\ stage = "loading" /\ ~IsReact => attr = NoTheme /\ chosen = NoTheme /\ ~follows

ThemeInv == SdkInv /\ ThemeTypeOK /\ ThemedFirst

(* Whatever the attribute, the stylesheet and the system say, a field can  *)
(* be told what to wear.                                                   *)
LEMMA StyleIsSent ==
  ASSUME NEW a \in Themes \cup {NoTheme}, NEW s \in Themes
  PROVE  FieldStyle(a, s) \in Styles /\ ReactFieldStyle(a, s) \in Styles
BY CardAssumption DEF FieldStyle, ReactFieldStyle, Seam, CssVar, ReactCssVar, ThemeShown, Themes,
   NoStyle, NoTheme

(* Toggling always leads to another theme.                                 *)
LEMMA OppositeIsTheme == \A t: Opposite(t) \in Themes /\ Opposite(t) # t
BY DEF Opposite, Themes

(* A page that is not open has no theme yet.                               *)
LEMMA ThemeInitInv == CardInit => ThemeInv
<1>1. CardInit => SdkInv
  BY SdkInitInv DEF CardInit
<1>2. CardInit => ThemedFirst
  BY DEF CardInit, SdkInit, ThemedFirst, Mounted
<1>3. CardInit => ThemeTypeOK
  <2>1. CardInit => follows \in BOOLEAN
    BY Zenon DEF CardInit
  <2> QED BY <2>1 DEF CardInit, ThemeTypeOK
<1> QED BY <1>1, <1>2, <1>3 DEF ThemeInv

(* Only four steps are about the theme. *)
LEMMA StepOfTheme ==
  ASSUME [CardNext]_vars
  PROVE  \/ Load \/ BundleRuns \/ Toggle \/ SystemChanges
         \/ UNCHANGED <<themeVars, port, stage, bornWith>>
BY DEF CardNext, vars, sdkVars, FieldLoads, FieldHears, FieldReloads, ReadyArrives, ValueArrives,
   Press, TokenArrives, ErrorArrives, SaleAccepted, SaleFails, PageIdle, FrameLoads, FrameGoes,
   FrameHears, HearReady, HearValue, Tokenize, Settle

(* Whatever changes the theme tells the fields the style of the theme the  *)
(* page now shows, or else there are none, or they need not be told.       *)
Repaints ==
  LET shown == StyleNow(attr, system)
  IN  \/ Push(shown')
      \/ NoPush /\ (Mounted => shown' = shown)

(* Choosing a theme and following the system keep the page themed and the  *)
(* fields told.                                                            *)
LEMMA ThemeMoves ==
  ASSUME ThemeInv, Toggle \/ SystemChanges
  PROVE  /\ ThemeTypeOK' /\ ThemedFirst'
         /\ StyleNow(attr, system)' \in Styles
         /\ Repaints
<1> USE DEF ThemeInv, ThemeTypeOK, ThemedFirst
<1>1. system' \in Themes /\ attr' \in Themes \cup {NoTheme}
  BY OppositeIsTheme DEF Toggle, SystemChanges, SetTheme, ApplyTheme, Follow
<1>2. UNCHANGED <<port, stage, css>> /\ Mounted' = Mounted
  BY DEF Toggle, SystemChanges, SetTheme, ApplyTheme, Follow, PushChange, NoPush, Push, SetStyle, Mounted,
     sdkVars
<1>3. StyleNow(attr, system)' \in Styles
  BY <1>1, CardAssumption DEF StyleNow, FieldStyle, ReactFieldStyle, Seam, CssVar, ReactCssVar,
     ThemeShown, Themes, NoStyle, NoTheme
<1>4. CASE Toggle
  <2>1. IsReact => SetTheme(Opposite(attr))
    BY <1>4 DEF Toggle
  <2>2. ~IsReact => system' = system /\ ApplyTheme(Opposite(attr))
    BY <1>4 DEF Toggle
  <2>3. /\ attr' = Opposite(attr) /\ chosen' = Opposite(attr) /\ stored' \in {stored, Opposite(attr)}
        /\ UNCHANGED <<storable, follows>> /\ stage # "closed" /\ (stage = "open" \/ IsReact)
        /\ ~IsReact => pageStyle' = StyleNow(attr, system)'
        /\ IsReact => pageStyle' = pageStyle
    BY <1>2, <1>4, <2>1, <2>2
       DEF Toggle, SetTheme, ApplyTheme, StoreTheme, StyleNow, IsReact, FieldStyle, Seam
  <2>4. Opposite(attr) \in Themes /\ NoTheme \notin Themes
    BY OppositeIsTheme DEF Themes, NoTheme
  <2>5. ThemeTypeOK'
    BY <1>1, <1>2, <1>3, <2>3, <2>4
  <2>6. ThemedFirst'
    BY <1>1, <1>2, <1>3, <2>3, <2>4 DEF IsReact
  <2>7. Repaints
    BY <1>2, <2>1, <2>2, OppositeIsTheme
       DEF SetTheme, ApplyTheme, PushChange, Repaints, StyleNow, IsReact, FieldStyle, ReactFieldStyle, Seam
  <2> QED BY <1>3, <2>5, <2>6, <2>7
<1>5. CASE SystemChanges
  <2>1. CASE ~follows
    <3>1. NoPush /\ UNCHANGED <<attr, stored, pageStyle, storable, follows, chosen>>
      BY <1>5, <2>1 DEF SystemChanges
    <3>2. ThemeTypeOK' /\ ThemedFirst'
      BY <1>1, <1>2, <3>1 DEF IsReact
    <3>3. Mounted => attr' = attr /\ attr # NoTheme
      BY <3>1
    <3>4. Repaints
      BY <1>2, <3>1, <3>3
         DEF Repaints, StyleNow, FieldStyle, ReactFieldStyle, Seam, ThemeShown, IsReact
    <3> QED BY <1>3, <3>2, <3>4
  <2>2. CASE follows
    <3>1. /\ IsReact => Follow(Opposite(system))
          /\ ~IsReact => ApplyTheme(Opposite(system))
      BY <1>5, <2>2, Zenon DEF SystemChanges
    <3>2. /\ system' = Opposite(system) /\ UNCHANGED <<storable, follows, chosen>>
          /\ stage # "closed" /\ (stage = "open" \/ IsReact)
      BY <1>5, <2>2 DEF SystemChanges
    <3>3. /\ attr' = Opposite(system) /\ stored' \in {stored, Opposite(system)}
          /\ ~IsReact => pageStyle' = StyleNow(attr, system)'
          /\ IsReact => pageStyle' = pageStyle
      BY <1>2, <3>1, <3>2
         DEF Follow, ApplyTheme, StoreTheme, StyleNow, IsReact, FieldStyle, Seam
    <3>4. Opposite(system) \in Themes /\ NoTheme \notin Themes
      BY OppositeIsTheme DEF Themes, NoTheme
    <3>5. ThemeTypeOK'
      BY <1>1, <1>2, <1>3, <3>2, <3>3, <3>4
    <3>6. ThemedFirst'
      BY <1>1, <1>2, <1>3, <3>2, <3>3, <3>4 DEF IsReact
    <3>7. CASE ~IsReact
      <4>1. Repaints
        BY <1>2, <3>1, <3>3, <3>7 DEF ApplyTheme, Repaints, StyleNow, IsReact, FieldStyle, Seam
      <4> QED BY <1>3, <3>5, <3>6, <4>1
    <3>8. CASE IsReact /\ Mounted /\ attr # Opposite(system)
      <4>1. Repaints
        BY <1>2, <3>1, <3>3, <3>8 DEF Follow, PushChange, Repaints, StyleNow, IsReact, ReactFieldStyle
      <4> QED BY <1>3, <3>5, <3>6, <4>1
    <3>9. CASE IsReact /\ (Mounted => attr = Opposite(system))
      <4>1. NoPush /\ (Mounted => attr' = attr /\ attr # NoTheme)
        BY <3>1, <3>3, <3>9 DEF Follow, PushChange
      <4>2. Repaints
        BY <1>2, <4>1 DEF Repaints, StyleNow, FieldStyle, ReactFieldStyle, Seam, ThemeShown, IsReact
      <4> QED BY <1>3, <3>5, <3>6, <4>2
    <3> QED BY <3>7, <3>8, <3>9
  <2> QED BY <2>1, <2>2
<1> QED BY <1>4, <1>5

(* Before there are fields, the first script of the page looks at the      *)
(* theme, and the bundle then mounts them with what it found.              *)
LEMMA ThemeStarts ==
  ASSUME ThemeInv, Load \/ BundleRuns
  PROVE  ThemeTypeOK' /\ ThemedFirst' /\ SdkNext /\ UNCHANGED pushed /\ ~Mounted
<1> USE DEF ThemeInv, ThemeTypeOK, ThemedFirst
<1>1. CASE Load
  <2>1. /\ stage = "closed" /\ stage' = "loading" /\ UNCHANGED sdkVars
        /\ UNCHANGED <<css, storable, system, stored, chosen, port, pushed>>
    BY <1>1 DEF Load
  <2>2. CASE LoadPlain
    <3>1. ~IsReact /\ pageStyle' \in Styles /\ UNCHANGED <<attr, follows>>
      BY <2>2, StyleIsSent DEF LoadPlain
    <3> QED BY <2>1, <3>1 DEF IsReact, Mounted, sdkVars, SdkNext
  <2>3. CASE LoadReact
    <3>1. IsReact /\ attr' \in Themes /\ follows' \in BOOLEAN
      BY <2>3 DEF LoadReact, ThemeBootstrap, ApplyStoredTheme, StoredOr
    <3>2. pageStyle' \in Styles
      BY <2>3, <3>1, StyleIsSent DEF LoadReact
    <3>3. attr' # NoTheme
      BY <3>1 DEF Themes, NoTheme
    <3> QED BY <2>1, <3>1, <3>2, <3>3 DEF IsReact, Mounted, sdkVars, SdkNext
  <2> QED BY <1>1, <2>2, <2>3 DEF Load
<1>2. CASE BundleRuns
  <2>1. /\ stage = "loading" /\ stage' = "open" /\ Mount(pageStyle) /\ pageStyle \in Styles
        /\ UNCHANGED <<css, storable, system, chosen, port, pushed>>
    BY <1>2 DEF BundleRuns
  <2>2. ~Mounted /\ Mounted'
    BY <2>1, CardAssumption DEF Mount, Mounted, Themes, NoStyle
  <2>3. /\ attr' \in Themes /\ stored' \in Themes \cup {NoTheme} /\ follows' \in BOOLEAN
        /\ pageStyle' \in Styles
    <3>1. CASE IsReact
      BY <1>2, <2>1, <3>1 DEF BundleRuns
    <3>2. CASE ~IsReact
      <4>1. InitTheme /\ StoredOr(system) \in Themes
        BY <1>2, <3>2 DEF BundleRuns, StoredOr
      <4> QED BY <4>1, StyleIsSent DEF InitTheme, StoreTheme
    <3> QED BY <3>1, <3>2
  <2>4. NoTheme \notin Themes
    BY DEF Themes, NoTheme
  <2> QED BY <2>1, <2>2, <2>3, <2>4 DEF SdkNext, IsReact
<1> QED BY <1>1, <1>2

(* Whatever the page does, it does one thing at a time with the SDK. *)
LEMMA StepOfSdk ==
  ASSUME ThemeInv, [CardNext]_vars
  PROVE  SdkNext
<1>1. CASE Load \/ BundleRuns
  BY <1>1, ThemeStarts
<1>2. CASE Toggle \/ SystemChanges
  BY <1>2, ThemeMoves DEF Repaints, Push, NoPush, SdkNext
<1>3. CASE ~(Load \/ BundleRuns \/ Toggle \/ SystemChanges)
  BY <1>3 DEF CardNext, vars, SdkNext, FieldLoads, FieldHears, FieldReloads, ReadyArrives,
     ValueArrives, Press, TokenArrives, ErrorArrives, SaleAccepted, SaleFails
<1> QED BY <1>1, <1>2, <1>3

(* So a page with fields always has a theme and a style to give them.      *)
LEMMA ThemeStepInv == ThemeInv /\ [CardNext]_vars => ThemeInv'
<1> SUFFICES ASSUME ThemeInv, [CardNext]_vars PROVE ThemeInv'
  OBVIOUS
<1>1. SdkInv'
  BY StepOfSdk, SdkStepInv DEF ThemeInv
<1>2. CASE UNCHANGED <<themeVars, port, stage, bornWith>>
  BY <1>1, <1>2 DEF ThemeInv, ThemeTypeOK, ThemedFirst, themeVars, Mounted, IsReact
<1> QED BY <1>1, <1>2, StepOfTheme, ThemeMoves, ThemeStarts DEF ThemeInv

-----------------------------------------------------------------------------
(* The theme on the way to the bank and back. *)

(* What localStorage knows: the plain page stores what it shows, a React   *)
(* page what the payer chose, and what it shows of itself it can tell      *)
(* again from the system as long as it follows it.                         *)
ChoiceInv ==
  storable /\ attr # NoTheme =>
    /\ ~IsReact => stored = attr
    /\ IsReact /\ chosen # NoTheme => stored = chosen
    /\ IsReact /\ chosen = NoTheme => attr = StoredOr(system) /\ (follows <=> stored = NoTheme)

(* The four steps about the theme keep what storage knows.                 *)
LEMMA ChoiceStepInv ==
  ASSUME ThemeInv, ChoiceInv, [CardNext]_vars
  PROVE  ChoiceInv'
<1> USE DEF ThemeInv, ThemeTypeOK, ThemedFirst, ChoiceInv, IsReact
<1>1. \A t: Opposite(t) \in Themes /\ Opposite(t) # NoTheme
  BY OppositeIsTheme DEF Themes, NoTheme
<1>2. CASE UNCHANGED <<themeVars, port, stage, bornWith>>
  BY <1>2 DEF themeVars, StoredOr
<1>3. CASE Load
  <2>1. stage = "closed" /\ UNCHANGED <<storable, system, stored, chosen, port>>
    BY <1>3 DEF Load
  <2>2. CASE LoadPlain
    BY <2>1, <2>2 DEF LoadPlain
  <2>3. CASE LoadReact
    <3>1. attr' = StoredOr(system) /\ (follows' <=> stored = NoTheme) /\ chosen' = NoTheme
      BY <2>1, <2>3 DEF LoadReact, ThemeBootstrap, ApplyStoredTheme
    <3>2. StoredOr(system)' = StoredOr(system) /\ IsReact
      BY <2>1, <2>3 DEF LoadReact, StoredOr
    <3> QED BY <2>1, <3>1, <3>2
  <2> QED BY <1>3, <2>2, <2>3 DEF Load
<1>4. CASE BundleRuns
  BY <1>4 DEF BundleRuns, InitTheme, StoreTheme, StoredOr
<1>5. CASE Toggle
  BY <1>1, <1>5 DEF Toggle, SetTheme, ApplyTheme, StoreTheme
<1>6. CASE SystemChanges /\ ~follows
  BY <1>6 DEF SystemChanges, StoredOr
<1>7. CASE SystemChanges /\ follows
  <2>1. /\ IsReact => Follow(Opposite(system))
        /\ ~IsReact => ApplyTheme(Opposite(system))
    BY <1>7, Zenon DEF SystemChanges
  <2>2. system' = Opposite(system) /\ UNCHANGED <<storable, follows, chosen, port>>
    BY <1>7 DEF SystemChanges
  <2>3. IsReact => attr # NoTheme
    BY <1>7
  <2> QED BY <1>1, <1>7, <2>1, <2>2, <2>3 DEF Follow, ApplyTheme, StoreTheme, StoredOr
<1> QED BY <1>2, <1>3, <1>4, <1>5, <1>6, <1>7, StepOfTheme

(* result.js:10: the return page finds the theme the payer left with, for  *)
(* any number of changes.                                                  *)
THEOREM ThemeComesBack == CardSpec => []ThemeSurvives
<1>1. CardInit => ThemeInv /\ ChoiceInv
  BY ThemeInitInv DEF CardInit, ChoiceInv
<1>2. ThemeInv /\ ChoiceInv /\ [CardNext]_vars => (ThemeInv /\ ChoiceInv)'
  BY ThemeStepInv, ChoiceStepInv
<1>3. ThemeInv /\ ChoiceInv => ThemeSurvives
  BY DEF ThemeInv, ThemeTypeOK, ChoiceInv, ThemeSurvives, ReturnTheme, StoredOr
<1> QED BY <1>1, <1>2, <1>3, PTL DEF CardSpec

-----------------------------------------------------------------------------
(* The calls and the button. *)

Forms == [ready: BOOLEAN, inFlight: BOOLEAN, dead: BOOLEAN]

ButtonTypeOK ==
  /\ button \in {"preparing", "live", "busy", "dead"}
  /\ form \in Forms
  /\ sales \in Nat
  /\ asked \in Nat
  /\ superseded \in Nat
  /\ answered \in Nat
  /\ ended \in Nat
  /\ reloads \in Nat

(* Only seven steps are about the calls and the button. *)
LEMMA StepOfButton ==
  ASSUME ThemeInv, [CardNext]_vars
  PROVE  \/ \E f \in Fields: FieldReloads(f) \/ ReadyArrives(f) \/ ValueArrives(f)
         \/ Press \/ TokenArrives \/ (\E terminal \in BOOLEAN: ErrorArrives(terminal))
         \/ SaleAccepted \/ SaleFails
         \/ UNCHANGED <<formVars, port, ready, collecting, exchanges, reloads>>
<1>1. CASE Load
  BY <1>1 DEF Load, sdkVars
<1>2. CASE BundleRuns
  BY <1>2 DEF BundleRuns, Mount
<1>3. CASE Toggle \/ SystemChanges
  <2>1. UNCHANGED <<ready, collecting, exchanges>>
    BY <1>3, ThemeMoves DEF Repaints, Push, NoPush, SetStyle, sdkVars
  <2> QED BY <1>3, <2>1 DEF Toggle, SystemChanges
<1>4. ASSUME NEW f \in Fields, FieldLoads(f) \/ FieldHears(f)
      PROVE  UNCHANGED <<formVars, port, ready, collecting, exchanges, reloads>>
  BY <1>4 DEF FieldLoads, FieldHears, FrameLoads, FrameHears, PageIdle
<1>5. CASE UNCHANGED vars
  BY <1>5 DEF vars, sdkVars
<1> QED BY <1>1, <1>2, <1>3, <1>4, <1>5 DEF CardNext

(* React's state of the form, and the three ways it is set. *)
LEMMA FormIsSet ==
  ASSUME NEW fm \in Forms
  PROVE  /\ [fm EXCEPT !.ready = TRUE] \in Forms
         /\ [fm EXCEPT !.ready = TRUE].inFlight = fm.inFlight
         /\ [fm EXCEPT !.inFlight = TRUE, !.dead = FALSE] \in Forms
         /\ [fm EXCEPT !.inFlight = TRUE, !.dead = FALSE].inFlight = TRUE
         /\ \A t \in BOOLEAN: /\ [fm EXCEPT !.inFlight = FALSE, !.dead = t] \in Forms
                             /\ [fm EXCEPT !.inFlight = FALSE, !.dead = t].inFlight = FALSE
BY Zenon DEF Forms

(* How showFormError() leaves them. *)
LEMMA ErrorIsShown ==
  ASSUME ButtonTypeOK, NEW t \in BOOLEAN, ShowFormError(t)
  PROVE  /\ ended' = ended + 1
         /\ button' \in {"preparing", "live", "busy", "dead"} /\ form' \in Forms
         /\ IsReact => ~form'.inFlight
         /\ ~IsReact => button' \in {"live", "dead"}
<1>1. CASE IsReact
  <2>1. form' = [form EXCEPT !.inFlight = FALSE, !.dead = t] /\ button' = button /\ ended' = ended + 1
    BY <1>1, Zenon DEF ShowFormError
  <2> QED BY <1>1, <2>1, FormIsSet DEF ButtonTypeOK
<1>2. CASE ~IsReact
  <2>1. button' = (IF t THEN "dead" ELSE "live") /\ form' = form /\ ended' = ended + 1
    BY <1>2, Zenon DEF ShowFormError
  <2>2. button' \in {"live", "dead"}
    BY <2>1, Zenon
  <2> QED BY <1>2, <2>1, <2>2 DEF ButtonTypeOK
<1> QED BY <1>1, <1>2

(* How a press leaves them. *)
LEMMA PressIsShown ==
  ASSUME ButtonTypeOK, Press
  PROVE  /\ button' \in {"preparing", "live", "busy", "dead"} /\ form' \in Forms
         /\ IsReact => form'.inFlight
         /\ ~IsReact => button' = "busy"
<1>1. CASE IsReact
  <2>1. form' = [form EXCEPT !.inFlight = TRUE, !.dead = FALSE] /\ button' = button
    BY <1>1, Zenon DEF Press
  <2> QED BY <1>1, <2>1, FormIsSet DEF ButtonTypeOK
<1>2. CASE ~IsReact
  BY <1>2 DEF Press, ButtonTypeOK
<1> QED BY <1>1, <1>2

(* Nothing about types is lost in a step. *)
LEMMA ButtonTypes ==
  ASSUME ThemeInv, ButtonTypeOK, [CardNext]_vars
  PROVE  ButtonTypeOK'
<1> USE DEF ButtonTypeOK
<1>1. ASSUME NEW f \in Fields, FieldReloads(f) \/ ValueArrives(f) PROVE ButtonTypeOK'
  BY <1>1 DEF FieldReloads, ValueArrives, PageIdle, formVars
<1>2. ASSUME NEW f \in Fields, ReadyArrives(f) PROVE ButtonTypeOK'
  <2>1. \/ UNCHANGED <<button, form>>
        \/ form' = [form EXCEPT !.ready = TRUE] /\ button' = button
        \/ button' = "live" /\ form' = form
    BY <1>2, Zenon DEF ReadyArrives, OnReadyReact, OnReadyPlain
  <2>2. button' \in {"preparing", "live", "busy", "dead"} /\ form' \in Forms
    <3>1. [form EXCEPT !.ready = TRUE] \in Forms
      BY FormIsSet, Zenon
    <3> QED BY <2>1, <3>1
  <2> QED BY <1>2, <2>2 DEF ReadyArrives
<1>3. CASE Press
  BY <1>3, PressIsShown DEF Press
<1>4. CASE TokenArrives
  BY <1>4 DEF TokenArrives
<1>5. ASSUME NEW terminal \in BOOLEAN, ErrorArrives(terminal) PROVE ButtonTypeOK'
  <2>1. ShowFormError(terminal) /\ UNCHANGED <<sales, asked, superseded, reloads>>
    BY <1>5, Zenon DEF ErrorArrives
  <2>2. answered' = answered + 1
    BY <1>5 DEF ErrorArrives
  <2> QED BY <2>1, <2>2, ErrorIsShown
<1>6. CASE SaleAccepted
  BY <1>6 DEF SaleAccepted
<1>7. CASE SaleFails
  <2>1. ShowFormError(FALSE) /\ UNCHANGED <<answered, asked, superseded, reloads>>
    BY <1>7, Zenon DEF SaleFails
  <2>2. sales' \in Nat
    BY <1>7 DEF SaleFails
  <2>3. /\ ended' = ended + 1
        /\ button' \in {"preparing", "live", "busy", "dead"} /\ form' \in Forms
    BY <2>1, ErrorIsShown, Zenon
  <2> QED BY <2>1, <2>2, <2>3
<1>8. CASE UNCHANGED <<formVars, port, ready, collecting, exchanges, reloads>>
  BY <1>8 DEF formVars
<1> QED BY <1>1, <1>2, <1>3, <1>4, <1>5, <1>6, <1>7, <1>8, StepOfButton

(* A press adds a call and replaces the one that still collected; a call   *)
(* leaves the page with its last value and comes back as one callback.     *)
LEMMA CallsStep ==
  ASSUME ThemeInv, ButtonTypeOK, OneCallbackPerCall, [CardNext]_vars
  PROVE  OneCallbackPerCall'
<1> USE DEF OneCallbackPerCall, ButtonTypeOK, ThemeInv, SdkInv, SdkTypeOK
<1>1. ASSUME NEW f \in Fields, FieldReloads(f) \/ ReadyArrives(f) PROVE OneCallbackPerCall'
  <2>1. UNCHANGED <<asked, answered, superseded>>
    BY <1>1 DEF FieldReloads, ReadyArrives, PageIdle, formVars
  <2>2. UNCHANGED exchanges
    BY <1>1 DEF FieldReloads, ReadyArrives, FrameGoes, HearReady
  <2>3. UNCHANGED collecting
    BY <1>1 DEF FieldReloads, ReadyArrives, FrameGoes, HearReady
  <2> QED BY <2>1, <2>2, <2>3
<1>2. ASSUME NEW f \in Fields, ValueArrives(f) PROVE OneCallbackPerCall'
  <2>1. UNCHANGED <<asked, answered, superseded>>
    BY <1>2 DEF ValueArrives, PageIdle, formVars
  <2>2. CASE collecting /\ gathered' = Fields
    <3>1. exchanges' = exchanges + 1 /\ collecting' = FALSE
      BY <1>2, <2>2, Zenon DEF ValueArrives, HearValue
    <3> QED BY <2>1, <2>2, <3>1
  <2>3. CASE ~(collecting /\ gathered' = Fields)
    <3>1. exchanges' = exchanges
      BY <1>2, <2>3 DEF ValueArrives, HearValue
    <3>2. collecting' = collecting
      BY <1>2, <2>3 DEF ValueArrives, HearValue
    <3> QED BY <2>1, <3>1, <3>2
  <2> QED BY <2>2, <2>3
<1>3. CASE Press
  BY <1>3 DEF Press, Tokenize
<1>4. CASE TokenArrives \/ \E terminal \in BOOLEAN: ErrorArrives(terminal)
  <2>1. /\ exchanges > 0 /\ exchanges' = exchanges - 1 /\ answered' = answered + 1
        /\ collecting' = collecting /\ asked' = asked /\ superseded' = superseded
    BY <1>4 DEF TokenArrives, ErrorArrives, Settle
  <2> QED BY <2>1
<1>5. CASE SaleAccepted \/ SaleFails
  BY <1>5 DEF SaleAccepted, SaleFails, ShowFormError, sdkVars
<1>6. CASE UNCHANGED <<formVars, port, ready, collecting, exchanges, reloads>>
  BY <1>6 DEF formVars
<1> QED BY <1>1, <1>2, <1>3, <1>4, <1>5, <1>6, StepOfButton

(* Before the first press there is nothing to count.                       *)
LEMMA ButtonStarts == CardInit => ButtonTypeOK /\ OneCallbackPerCall
<1>1. CardInit => ButtonTypeOK
  BY DEF CardInit, ButtonTypeOK, Forms
<1>2. CardInit => OneCallbackPerCall
  BY DEF CardInit, SdkInit, OneCallbackPerCall
<1> QED BY <1>1, <1>2

(* hosted-fields.js: every call gets one callback or is replaced, for any  *)
(* number of fields, presses and reloads of a field.                       *)
THEOREM CallsAreAnswered == CardSpec => []OneCallbackPerCall
<1>1. ThemeInv /\ ButtonTypeOK /\ OneCallbackPerCall /\ [CardNext]_vars
        => (ThemeInv /\ ButtonTypeOK /\ OneCallbackPerCall)'
  BY ThemeStepInv, ButtonTypes, CallsStep
<1> QED BY <1>1, ThemeInitInv, ButtonStarts, PTL DEF CardSpec

(* A field of the plain page that has not been reloaded says "ready" once, *)
(* and before anything else.                                               *)
SaidOnce(f) ==
  /\ f \notin up => outbox[f] = <<>> /\ f \notin ready
  /\ \A i \in DOMAIN outbox[f]: outbox[f][i] = "ready" => i = 1 /\ f \notin ready

ReadyOnce == reloads = 0 => \A f \in Fields: SaidOnce(f)

(* No step but a reload makes a field say it again.                        *)
LEMMA ReadyOnceStep ==
  ASSUME ThemeInv, ButtonTypeOK, ReadyOnce, [CardNext]_vars
  PROVE  ReadyOnce'
<1> SUFFICES ASSUME reloads' = 0, NEW g \in Fields
             PROVE  SaidOnce(g)'
  BY DEF ReadyOnce
<1> USE DEF ButtonTypeOK, ThemeInv, SdkInv, SdkTypeOK
<1>1. ASSUME UNCHANGED <<up, outbox, ready>>, reloads' = reloads
      PROVE  SaidOnce(g)'
  BY <1>1 DEF ReadyOnce, SaidOnce
<1>2. CASE Load \/ BundleRuns
  BY <1>1, <1>2 DEF Load, BundleRuns, Mount, sdkVars
<1>3. CASE Toggle \/ SystemChanges
  <2>1. UNCHANGED <<up, outbox, ready>>
    BY <1>3, ThemeMoves DEF Repaints, Push, NoPush, SetStyle, sdkVars
  <2> QED BY <1>1, <1>3, <2>1 DEF Toggle, SystemChanges
<1>4. ASSUME NEW f \in Fields, FieldLoads(f)
      PROVE  SaidOnce(g)'
  <2>1. /\ reloads = 0 /\ f \notin up /\ up' = up \cup {f} /\ ready' = ready
        /\ outbox' = [outbox EXCEPT ![f] = Append(@, "ready")]
    BY <1>4 DEF FieldLoads, FrameLoads
  <2>2. CASE g = f
    <3>1. outbox[f] = <<>> /\ f \notin ready
      BY <2>1 DEF ReadyOnce, SaidOnce
    <3>2. outbox'[g] = <<"ready">>
      BY <2>1, <2>2, <3>1
    <3> QED BY <2>1, <2>2, <3>1, <3>2 DEF SaidOnce
  <2>3. CASE g # f
    BY <2>1, <2>3 DEF ReadyOnce, SaidOnce
  <2> QED BY <2>2, <2>3
<1>5. ASSUME NEW f \in Fields, FieldHears(f)
      PROVE  SaidOnce(g)'
  <2>1. /\ reloads = 0 /\ UNCHANGED <<up, ready>> /\ inbox[f] # <<>>
        /\ \/ outbox' = outbox
           \/ outbox' = [outbox EXCEPT ![f] = Append(@, "value")]
    BY <1>5 DEF FieldHears, FrameHears
  <2>2. CASE g = f /\ outbox' = [outbox EXCEPT ![f] = Append(@, "value")]
    <3>1. f \in up
      BY <2>1 DEF OnlyTheseHear
    <3> QED BY <2>1, <2>2, <3>1 DEF ReadyOnce, SaidOnce
  <2> QED BY <2>1, <2>2 DEF ReadyOnce, SaidOnce
<1>6. ASSUME NEW f \in Fields, FieldReloads(f) PROVE FALSE
  BY <1>6 DEF FieldReloads
<1>7. ASSUME NEW f \in Fields, ReadyArrives(f) \/ ValueArrives(f)
      PROVE  SaidOnce(g)'
  <2>1. /\ reloads = 0 /\ up' = up /\ outbox[f] # <<>>
        /\ outbox' = [outbox EXCEPT ![f] = Tail(@)]
        /\ ready' = IF Head(outbox[f]) = "ready" THEN ready \cup {f} ELSE ready
    BY <1>7 DEF ReadyArrives, ValueArrives, HearReady, HearValue
  <2>2. CASE g = f
    <3>1. \A i \in DOMAIN Tail(outbox[f]):
             i + 1 \in DOMAIN outbox[f] /\ i + 1 # 1 /\ Tail(outbox[f])[i] = outbox[f][i + 1]
      BY <2>1
    <3>2. \A i \in DOMAIN outbox'[g]: outbox'[g][i] # "ready"
      BY <2>1, <2>2, <3>1 DEF ReadyOnce, SaidOnce
    <3>3. f \in up
      BY <2>1 DEF ReadyOnce, SaidOnce
    <3> QED BY <2>1, <2>2, <3>2, <3>3 DEF SaidOnce
  <2>3. CASE g # f
    BY <2>1, <2>3 DEF ReadyOnce, SaidOnce
  <2> QED BY <2>2, <2>3
<1>8. CASE Press \/ TokenArrives \/ (\E terminal \in BOOLEAN: ErrorArrives(terminal))
        \/ SaleAccepted \/ SaleFails \/ UNCHANGED vars
  BY <1>1, <1>8 DEF Press, TokenArrives, ErrorArrives, SaleAccepted, SaleFails, Tokenize, Settle,
     vars, sdkVars
<1> QED BY <1>2, <1>3, <1>4, <1>5, <1>6, <1>7, <1>8 DEF CardNext

(* A page at rest has nothing outstanding, and a page that waits waits for *)
(* one thing: this holds of React always, and of the plain page until a    *)
(* field reloads, whose button is not there before every field is ready.   *)
Resting == IF IsReact THEN ~form.inFlight ELSE button # "busy"
Outstanding == (IF collecting THEN 1 ELSE 0) + exchanges + sales
OneAtATime ==
  /\ Outstanding \in {0, 1}
  /\ Resting => Outstanding = 0 /\ asked = ended + superseded
  /\ Outstanding = 1 => asked = ended + superseded + 1
  /\ ~IsReact /\ ready # Fields => button = "preparing"

WaitInv == IsReact \/ reloads = 0 => OneAtATime

(* Each step moves one call on by one place, and the button with it.       *)
LEMMA WaitStep ==
  ASSUME ThemeInv, ButtonTypeOK, ReadyOnce, WaitInv, [CardNext]_vars
  PROVE  WaitInv'
<1> SUFFICES ASSUME IsReact' \/ reloads' = 0 PROVE OneAtATime'
  BY DEF WaitInv
<1>1. port' = port /\ (IsReact' <=> IsReact)
  BY StepOfButton
     DEF IsReact, FieldReloads, ReadyArrives, ValueArrives, Press, TokenArrives, ErrorArrives,
         SaleAccepted, SaleFails, PageIdle, themeVars
<1>2. CASE UNCHANGED <<formVars, port, ready, collecting, exchanges, reloads>>
  BY <1>1, <1>2 DEF WaitInv, OneAtATime, Resting, Outstanding, formVars, IsReact
<1>3. ASSUME NEW f \in Fields, FieldReloads(f) PROVE OneAtATime'
  <2>1. IsReact /\ UNCHANGED <<formVars, ready, collecting, exchanges>>
    BY <1>1, <1>3 DEF FieldReloads, FrameGoes, PageIdle, ButtonTypeOK
  <2> QED BY <1>1, <2>1 DEF WaitInv, OneAtATime, Resting, Outstanding, formVars
<1> SUFFICES ASSUME OneAtATime, reloads' = reloads PROVE OneAtATime'
  BY <1>1, <1>2, <1>3, StepOfButton
     DEF WaitInv, ReadyArrives, ValueArrives, Press, TokenArrives, ErrorArrives, SaleAccepted, SaleFails,
         PageIdle
<1> USE DEF ButtonTypeOK, ThemeInv, SdkInv, SdkTypeOK
<1>4. ASSUME NEW f \in Fields, ReadyArrives(f) PROVE OneAtATime'
  <2>1. UNCHANGED <<collecting, exchanges, sales, asked, superseded, ended>> /\ Outstanding' = Outstanding
    <3>1. UNCHANGED <<exchanges, sales, asked, superseded, ended>>
      BY <1>4 DEF ReadyArrives, HearReady
    <3>2. UNCHANGED collecting
      BY <1>4 DEF ReadyArrives, HearReady
    <3> QED BY <3>1, <3>2 DEF Outstanding
  <2>2. CASE IsReact
    <3>1. form' = form \/ form' = [form EXCEPT !.ready = TRUE]
      BY <1>4, <2>2, Zenon DEF ReadyArrives, OnReadyReact
    <3>2. [form EXCEPT !.ready = TRUE].inFlight = form.inFlight
      BY FormIsSet
    <3>3. form'.inFlight <=> form.inFlight
      BY <3>1, <3>2, Zenon
    <3> QED BY <1>1, <2>1, <2>2, <3>3 DEF OneAtATime, Resting
  <2>3. CASE ~IsReact
    <3>1. f \notin ready /\ ready' = ready \cup {f}
      <4>1. 1 \in DOMAIN outbox[f] /\ outbox[f][1] = "ready" /\ ready' = ready \cup {f}
        BY <1>4 DEF ReadyArrives, HearReady
      <4> QED BY <1>1, <2>3, <4>1 DEF ReadyOnce, SaidOnce
    <3>2. button = "preparing" /\ Resting
      BY <2>3, <3>1 DEF OneAtATime, Resting
    <3>3. button' \in {"preparing", "live"} /\ (ready' # Fields => button' = "preparing")
      BY <1>4, <2>3, <3>2 DEF ReadyArrives, OnReadyPlain
    <3> QED BY <1>1, <2>1, <2>3, <3>2, <3>3 DEF OneAtATime, Resting
  <2> QED BY <2>2, <2>3
<1>5. ASSUME NEW f \in Fields, ValueArrives(f) PROVE OneAtATime'
  <2>1. UNCHANGED <<button, form, sales, asked, superseded, ended, ready>>
    BY <1>5 DEF ValueArrives, HearValue, PageIdle, formVars
  <2>2. Outstanding' = Outstanding
    <3>1. CASE collecting /\ gathered' = Fields
      <4>1. exchanges' = exchanges + 1 /\ collecting' = FALSE
        BY <1>5, <3>1, Zenon DEF ValueArrives, HearValue
      <4> QED BY <2>1, <3>1, <4>1 DEF Outstanding
    <3>2. CASE ~(collecting /\ gathered' = Fields)
      <4>1. exchanges' = exchanges
        BY <1>5, <3>2 DEF ValueArrives, HearValue
      <4>2. collecting' = collecting
        BY <1>5, <3>2 DEF ValueArrives, HearValue
      <4> QED BY <2>1, <4>1, <4>2 DEF Outstanding
    <3> QED BY <3>1, <3>2
  <2> QED BY <1>1, <2>1, <2>2 DEF OneAtATime, Resting
<1>6. CASE Press
  <2>1. UNCHANGED <<exchanges, sales, ended, ready>> /\ asked' = asked + 1
    BY <1>6 DEF Press, Tokenize
  <2>2. Resting /\ (~IsReact => ready = Fields)
    <3>1. CASE IsReact
      BY <1>6, <3>1, Zenon DEF Press, Live, Resting
    <3>2. CASE ~IsReact
      BY <1>6, <3>2 DEF Press, Live, Resting, OneAtATime
    <3> QED BY <3>1, <3>2
  <2>3. ~collecting /\ exchanges = 0 /\ sales = 0 /\ asked = ended + superseded
    BY <2>2 DEF OneAtATime, Outstanding
  <2>4. collecting' /\ superseded' = superseded
    BY <1>6, <2>3, Zenon DEF Press, Tokenize
  <2>5. ~Resting'
    BY <1>1, <1>6, PressIsShown DEF Resting
  <2> QED BY <1>1, <2>1, <2>2, <2>3, <2>4, <2>5 DEF OneAtATime, Outstanding
<1>7. CASE TokenArrives
  <2>1. UNCHANGED <<button, form, asked, superseded, ended, ready>>
    BY <1>7 DEF TokenArrives, Settle
  <2>2. exchanges' = exchanges - 1 /\ sales' = sales + 1
    BY <1>7 DEF TokenArrives, Settle
  <2>3. collecting' = collecting
    BY <1>7 DEF TokenArrives, Settle
  <2>4. Outstanding' = Outstanding
    BY <2>2, <2>3 DEF Outstanding
  <2> QED BY <1>1, <2>1, <2>4 DEF OneAtATime, Resting
<1>8. ASSUME \E terminal \in BOOLEAN: ShowFormError(terminal),
             UNCHANGED <<asked, superseded, ready, collecting>>,
             \/ exchanges > 0 /\ exchanges' = exchanges - 1 /\ sales' = sales
             \/ sales > 0 /\ sales' = sales - 1 /\ exchanges' = exchanges
      PROVE  OneAtATime'
  <2>1. /\ ended' = ended + 1
        /\ IsReact => ~form'.inFlight
        /\ ~IsReact => button' \in {"live", "dead"}
    BY <1>8, ErrorIsShown, Zenon
  <2>2. Outstanding = 1 /\ Outstanding' = 0 /\ (~IsReact => ready = Fields)
    <3>1. Outstanding' = Outstanding - 1 /\ Outstanding >= 1
      BY <1>8 DEF Outstanding
    <3>2. Outstanding = 1 /\ ~Resting
      BY <3>1 DEF OneAtATime
    <3> QED BY <3>1, <3>2 DEF OneAtATime, Resting
  <2>3. Resting'
    BY <1>1, <2>1 DEF Resting
  <2> QED BY <1>1, <1>8, <2>1, <2>2, <2>3 DEF OneAtATime
<1>9. ASSUME NEW terminal \in BOOLEAN, ErrorArrives(terminal) PROVE OneAtATime'
  <2>1. ShowFormError(terminal) /\ UNCHANGED <<asked, superseded, ready, collecting, sales>>
    BY <1>9, Zenon DEF ErrorArrives, Settle
  <2>2. exchanges > 0 /\ exchanges' = exchanges - 1
    BY <1>9 DEF ErrorArrives, Settle
  <2> QED BY <1>8, <2>1, <2>2
<1>10. CASE SaleFails
  <2>1. ShowFormError(FALSE) /\ UNCHANGED <<asked, superseded, ready, collecting, exchanges>>
    BY <1>10, Zenon DEF SaleFails, sdkVars
  <2>2. sales > 0 /\ sales' = sales - 1
    BY <1>10 DEF SaleFails
  <2> QED BY <1>8, <2>1, <2>2
<1>11. CASE SaleAccepted
  <2>1. UNCHANGED <<button, form, asked, superseded, ended, ready, collecting, exchanges>>
    BY <1>11, Zenon DEF SaleAccepted, sdkVars
  <2>2. sales > 0 /\ sales' = sales - 1
    BY <1>11 DEF SaleAccepted
  <2>3. Outstanding' = Outstanding - 1 /\ Outstanding >= 1
    BY <2>1, <2>2 DEF Outstanding
  <2> QED BY <1>1, <2>1, <2>3 DEF OneAtATime, Resting
<1> QED BY <1>2, <1>3, <1>4, <1>5, <1>6, <1>7, <1>9, <1>10, <1>11, StepOfButton

(* checkout-form.tsx:409 and checkout.js: no button can be pressed before  *)
(* what it started is over, for any number of fields, changes and presses. *)
THEOREM ButtonIsHeld == CardSpec => []ButtonWaits
<1> DEFINE Inv == ThemeInv /\ ButtonTypeOK /\ ReadyOnce /\ WaitInv
<1>1. CardInit => Inv
  <2>1. CardInit => ReadyOnce
    <3>1. ASSUME CardInit, NEW f \in Fields PROVE outbox[f] = <<>> /\ f \notin ready
      BY <3>1 DEF CardInit, SdkInit
    <3>2. ASSUME CardInit, NEW f \in Fields PROVE SaidOnce(f)
      <4>1. DOMAIN outbox[f] = {}
        BY <3>1, <3>2
      <4> QED BY <3>1, <3>2, <4>1 DEF SaidOnce
    <3> QED BY <3>2 DEF ReadyOnce
  <2>2. CardInit => WaitInv
    BY DEF CardInit, SdkInit, WaitInv, OneAtATime, Resting, Outstanding
  <2> QED BY <2>1, <2>2, ThemeInitInv, ButtonStarts
<1>2. Inv /\ [CardNext]_vars => Inv'
  BY ThemeStepInv, ButtonTypes, ReadyOnceStep, WaitStep
<1>3. Inv => ButtonWaits
  <2>1. CASE IsReact
    BY <2>1, Zenon DEF WaitInv, OneAtATime, Resting, ButtonWaits, Live
  <2>2. CASE ~IsReact
    BY <2>2 DEF WaitInv, OneAtATime, Resting, ButtonWaits, Live
  <2> QED BY <2>1, <2>2
<1> QED BY <1>1, <1>2, <1>3, PTL DEF CardSpec

-----------------------------------------------------------------------------
(* What the fields wear. *)

(* A document that wears w and finds these messages ends up wearing s. *)
Dressed(messages, w, s) ==
  \/ \E i \in DOMAIN messages:
       /\ messages[i] = s
       /\ \A j \in DOMAIN messages: j > i => messages[j] = Collect
  \/ w = s /\ \A j \in DOMAIN messages: messages[j] = Collect

(* The last style posted is what it will wear, and being asked for its     *)
(* value changes nothing about that.                                       *)
LEMMA LastStyleCounts ==
  ASSUME NEW messages \in Seq(Styles \cup {Collect}), NEW w, NEW s \in Styles
  PROVE  /\ Dressed(Append(messages, s), w, s)
         /\ Dressed(messages, w, s) => Dressed(Append(messages, Collect), w, s)
<1>1. DOMAIN messages = 1..Len(messages) /\ Len(messages) \in Nat
  OBVIOUS
<1>2. ASSUME NEW m \in Styles \cup {Collect}
      PROVE  /\ DOMAIN Append(messages, m) = 1..(Len(messages) + 1)
             /\ Append(messages, m)[Len(messages) + 1] = m
             /\ \A i \in DOMAIN messages: Append(messages, m)[i] = messages[i]
  OBVIOUS
<1>3. Dressed(Append(messages, s), w, s)
  <2>1. Len(messages) + 1 \in DOMAIN Append(messages, s)
    BY <1>1, <1>2
  <2>2. \A j \in DOMAIN Append(messages, s): ~(j > Len(messages) + 1)
    BY <1>1, <1>2
  <2> QED BY <1>2, <2>1, <2>2 DEF Dressed
<1>4. ASSUME Dressed(messages, w, s) PROVE Dressed(Append(messages, Collect), w, s)
  <2>1. \A j \in DOMAIN Append(messages, Collect): j \in DOMAIN messages \/ Append(messages, Collect)[j] = Collect
    BY <1>1, <1>2
  <2>2. \A j \in DOMAIN messages: j \in DOMAIN Append(messages, Collect)
    BY <1>1, <1>2
  <2>3. \A j \in DOMAIN messages: Append(messages, Collect)[j] = messages[j]
    BY <1>2
  <2> QED BY <1>4, <2>1, <2>2, <2>3 DEF Dressed
<1> QED BY <1>3, <1>4

(* Hearing the first of its messages leaves a field on its way to s.       *)
LEMMA HearingDresses ==
  ASSUME NEW messages \in Seq(Styles \cup {Collect}), NEW w, NEW s \in Styles, messages # <<>>,
         Dressed(messages, w, s)
  PROVE  Dressed(Tail(messages), IF Head(messages) = Collect THEN w ELSE Head(messages), s)
<1> DEFINE n == Len(messages)
           rest == Tail(messages)
           wears == IF Head(messages) = Collect THEN w ELSE Head(messages)
<1>1. DOMAIN messages = 1..n /\ n \in Nat \ {0} /\ DOMAIN rest = 1..(n - 1)
  OBVIOUS
<1>2. \A j \in DOMAIN rest: rest[j] = messages[j + 1] /\ j + 1 \in DOMAIN messages
  BY <1>1
<1>3. Head(messages) = messages[1] /\ 1 \in DOMAIN messages
  BY <1>1
<1>4. CASE \E i \in DOMAIN messages:
             /\ messages[i] = s
             /\ \A j \in DOMAIN messages: j > i => messages[j] = Collect
  <2>1. PICK i \in DOMAIN messages:
             /\ messages[i] = s
             /\ \A j \in DOMAIN messages: j > i => messages[j] = Collect
    BY <1>4
  <2>2. CASE i = 1
    <3>1. wears = s
      BY <1>3, <2>1, <2>2, CardAssumption DEF Themes, Collect
    <3>2. \A j \in DOMAIN rest: rest[j] = Collect
      BY <1>1, <1>2, <2>1, <2>2
    <3> QED BY <3>1, <3>2 DEF Dressed
  <2>3. CASE i # 1
    <3>1. i - 1 \in DOMAIN rest /\ rest[i - 1] = s
      BY <1>1, <1>2, <2>1, <2>3
    <3>2. \A j \in DOMAIN rest: j > i - 1 => rest[j] = Collect
      BY <1>1, <1>2, <2>1
    <3> QED BY <3>1, <3>2 DEF Dressed
  <2> QED BY <2>2, <2>3
<1>5. CASE w = s /\ \A j \in DOMAIN messages: messages[j] = Collect
  <2>1. wears = s
    BY <1>3, <1>5
  <2>2. \A j \in DOMAIN rest: rest[j] = Collect
    BY <1>2, <1>5
  <2> QED BY <2>1, <2>2 DEF Dressed
<1> QED BY <1>4, <1>5 DEF Dressed

(* A field that has nothing to be heard of is dressed for what the page    *)
(* last pushed to it, or else for what it was born with.                   *)
Silent(f) == \A i \in DOMAIN outbox[f]: outbox[f][i] # "ready"
Due(f) == IF f \in pushed THEN StyleNow(attr, system) ELSE bornWith
WearInv ==
  /\ pushed \subseteq {f \in up: Silent(f)}
  /\ \A f \in up: Silent(f) => Dressed(inbox[f], worn[f], Due(f))

(* What a field is due to wear is always a style.                          *)
LEMMA DueIsStyle ==
  ASSUME ThemeInv
  PROVE  \A f \in up: Due(f) \in Styles
<1> USE DEF ThemeInv, SdkInv, SdkTypeOK, ThemeTypeOK, MountedFirst
<1>1. StyleNow(attr, system) \in Styles
  BY StyleIsSent DEF StyleNow
<1>2. up # {} => bornWith \in Styles
  BY DEF Mounted
<1> QED BY <1>1, <1>2 DEF Due

(* What a theme the page applies does to the fields. *)
LEMMA RepaintDresses ==
  ASSUME ThemeInv, WearInv, Toggle \/ SystemChanges
  PROVE  WearInv'
<1> USE DEF ThemeInv, SdkInv, SdkTypeOK
<1>1. Repaints /\ StyleNow(attr, system)' \in Styles
  BY ThemeMoves
<1>2. CASE NoPush /\ (Mounted => StyleNow(attr, system)' = StyleNow(attr, system))
  BY <1>2 DEF NoPush, sdkVars, WearInv, Due, Silent, MountedFirst
<1>3. CASE Push(StyleNow(attr, system)')
  <2> DEFINE s == StyleNow(attr, system)'
  <2>1. /\ UNCHANGED <<up, worn, outbox, bornWith>>
        /\ pushed' = {f \in up: Silent(f)}
        /\ \A f \in up: inbox'[f] = Append(inbox[f], s)
    BY <1>3 DEF Push, SetStyle, Post, Silent
  <2>2. ASSUME NEW f \in up', Silent(f)' PROVE Dressed(inbox'[f], worn'[f], Due(f)')
    <3>1. f \in up /\ f \in pushed' /\ Due(f)' = s
      BY <2>1, <2>2 DEF Silent, Due
    <3>2. inbox[f] \in Seq(Styles \cup {Collect})
      BY <3>1
    <3> HIDE DEF s
    <3>3. Dressed(Append(inbox[f], s), worn[f], s)
      BY <1>1, <3>2, LastStyleCounts DEF s
    <3> QED BY <2>1, <3>1, <3>3
  <2>3. pushed' \subseteq {f \in up': Silent(f)'}
    BY <2>1 DEF Silent
  <2> QED BY <2>2, <2>3 DEF WearInv
<1> QED BY <1>1, <1>2, <1>3 DEF Repaints

(* So does every other step: a message that is lost, late or repeated      *)
(* included.                                                               *)
LEMMA WearStep ==
  ASSUME ThemeInv, WearInv, [CardNext]_vars
  PROVE  WearInv'
<1> USE DEF ThemeInv, SdkInv, SdkTypeOK
<1>1. CASE Toggle \/ SystemChanges
  BY <1>1, RepaintDresses
<1>2. CASE Load \/ BundleRuns
  <2>1. ~Mounted /\ up = {} /\ UNCHANGED pushed
    BY <1>2, ThemeStarts DEF MountedFirst
  <2>2. up' = up
    BY <1>2 DEF Load, BundleRuns, Mount, sdkVars
  <2> QED BY <2>1, <2>2 DEF WearInv
<1> SUFFICES ASSUME ~(Toggle \/ SystemChanges \/ Load \/ BundleRuns) PROVE WearInv'
  BY <1>1, <1>2
<1>3. UNCHANGED <<attr, system, css, port, bornWith>> /\ StyleNow(attr, system)' = StyleNow(attr, system)
  <2>1. UNCHANGED <<themeVars, port, stage, bornWith>>
    BY StepOfTheme
  <2> QED BY <2>1 DEF themeVars, StyleNow, FieldStyle, ReactFieldStyle, Seam, ThemeShown, IsReact
<1>4. CASE UNCHANGED <<up, worn, inbox, outbox, pushed>>
  BY <1>3, <1>4 DEF WearInv, Due, Silent
<1>5. ASSUME NEW f \in Fields, FieldLoads(f) PROVE WearInv'
  <2>1. /\ f \notin up /\ up' = up \cup {f} /\ UNCHANGED <<worn, inbox, pushed>>
        /\ outbox' = [outbox EXCEPT ![f] = Append(@, "ready")]
    BY <1>5 DEF FieldLoads, FrameLoads
  <2>2. ~Silent(f)'
    <3>1. outbox'[f] = Append(outbox[f], "ready") /\ outbox[f] \in Seq({"ready", "value"})
      BY <2>1
    <3>2. Len(outbox[f]) + 1 \in DOMAIN outbox'[f] /\ outbox'[f][Len(outbox[f]) + 1] = "ready"
      BY <3>1
    <3> QED BY <3>2 DEF Silent
  <2>3. \A g \in up: g # f /\ Due(g)' = Due(g) /\ (Silent(g)' <=> Silent(g))
    BY <1>3, <2>1 DEF Silent, Due
  <2> QED BY <2>1, <2>2, <2>3 DEF WearInv
<1>6. ASSUME NEW f \in Fields, FieldReloads(f) PROVE WearInv'
  <2>1. /\ f \in up /\ up' = up \ {f} /\ pushed' = pushed \ {f} /\ outbox' = outbox
        /\ \A g \in up': worn'[g] = worn[g] /\ inbox'[g] = inbox[g]
    BY <1>6 DEF FieldReloads, FrameGoes
  <2>2. \A g \in up': Due(g)' = Due(g) /\ (Silent(g)' <=> Silent(g))
    BY <1>3, <2>1 DEF Silent, Due
  <2> QED BY <2>1, <2>2 DEF WearInv
<1>7. ASSUME NEW f \in Fields, FieldHears(f) PROVE WearInv'
  <2>1. /\ up' = up /\ pushed' = pushed /\ inbox[f] # <<>> /\ inbox' = [inbox EXCEPT ![f] = Tail(@)]
        /\ Head(inbox[f]) = Collect =>
             worn' = worn /\ outbox' = [outbox EXCEPT ![f] = Append(@, "value")]
        /\ Head(inbox[f]) # Collect =>
             worn' = [worn EXCEPT ![f] = Head(inbox[f])] /\ outbox' = outbox
    BY <1>7, Zenon DEF FieldHears, FrameHears
  <2>2. \A g \in up: Due(g)' = Due(g) /\ (Silent(g)' <=> Silent(g))
    <3>1. ASSUME NEW g \in up, outbox' = [outbox EXCEPT ![f] = Append(@, "value")]
          PROVE  Silent(g)' <=> Silent(g)
      <4>1. CASE g = f
        <5>1. outbox'[g] = Append(outbox[g], "value") /\ outbox[g] \in Seq({"ready", "value"})
          BY <3>1, <4>1
        <5>2. /\ DOMAIN outbox'[g] = DOMAIN outbox[g] \cup {Len(outbox[g]) + 1}
              /\ outbox'[g][Len(outbox[g]) + 1] = "value"
              /\ \A i \in DOMAIN outbox[g]: outbox'[g][i] = outbox[g][i]
          BY <5>1
        <5> QED BY <5>2 DEF Silent
      <4>2. CASE g # f
        BY <3>1, <4>2 DEF Silent
      <4> QED BY <4>1, <4>2
    <3>2. \A g \in up: Silent(g)' <=> Silent(g)
      BY <2>1, <3>1 DEF Silent
    <3> QED BY <1>3, <2>1, <3>2 DEF Due
  <2>3. ASSUME NEW g \in up, Silent(g) PROVE Dressed(inbox'[g], worn'[g], Due(g))
    <3>1. Dressed(inbox[g], worn[g], Due(g)) /\ Due(g) \in Styles
      BY <2>3, DueIsStyle DEF WearInv
    <3>2. CASE g = f
      <4>1. inbox'[g] = Tail(inbox[g])
            /\ worn'[g] = IF Head(inbox[g]) = Collect THEN worn[g] ELSE Head(inbox[g])
        BY <2>1, <3>2
      <4>2. inbox[g] \in Seq(Styles \cup {Collect}) /\ inbox[g] # <<>>
        BY <2>1, <3>2
      <4> QED BY <3>1, <4>1, <4>2, HearingDresses
    <3>3. CASE g # f
      BY <2>1, <3>1, <3>3
    <3> QED BY <3>2, <3>3
  <2> QED BY <2>1, <2>2, <2>3 DEF WearInv
<1>8. ASSUME NEW f \in Fields, ReadyArrives(f) PROVE WearInv'
  <2>1. /\ up' = up /\ worn' = worn /\ pushed' = pushed \ {f} /\ outbox[f] # <<>>
        /\ outbox' = [outbox EXCEPT ![f] = Tail(@)]
        /\ \A g \in up: inbox'[g] = IF g = f THEN Append(inbox[g], bornWith) ELSE inbox[g]
    BY <1>8 DEF ReadyArrives, HearReady, Post
  <2>2. ASSUME NEW g \in up, Silent(g)' PROVE Dressed(inbox'[g], worn'[g], Due(g)')
    <3>1. CASE g = f
      <4>1. Due(g)' = bornWith /\ bornWith \in Styles
        <5>1. Due(g)' = bornWith
          BY <1>3, <2>1, <3>1 DEF Due
        <5>2. bornWith \in Styles
          BY <2>1, CardAssumption DEF MountedFirst, Mounted
        <5> QED BY <5>1, <5>2
      <4>2. inbox[g] \in Seq(Styles \cup {Collect}) /\ inbox'[g] = Append(inbox[g], bornWith)
        BY <2>1, <3>1
      <4> QED BY <2>1, <4>1, <4>2, LastStyleCounts
    <3>2. CASE g # f
      <4>1. Silent(g) /\ Due(g)' = Due(g)
        BY <1>3, <2>1, <2>2, <3>2 DEF Silent, Due
      <4> QED BY <2>1, <3>2, <4>1 DEF WearInv
    <3> QED BY <3>1, <3>2
  <2>3. pushed' \subseteq {g \in up': Silent(g)'}
    BY <2>1 DEF WearInv, Silent
  <2> QED BY <2>1, <2>2, <2>3 DEF WearInv
<1>9. ASSUME NEW f \in Fields, ValueArrives(f) PROVE WearInv'
  <2>1. /\ UNCHANGED <<up, worn, inbox, pushed>> /\ outbox[f] # <<>> /\ Head(outbox[f]) = "value"
        /\ outbox' = [outbox EXCEPT ![f] = Tail(@)]
    BY <1>9 DEF ValueArrives, HearValue
  <2>2. ASSUME NEW g \in up PROVE Silent(g)' <=> Silent(g)
    <3>1. CASE g = f
      <4>1. outbox'[g] = Tail(outbox[g]) /\ outbox[g] \in Seq({"ready", "value"}) /\ outbox[g] # <<>>
            /\ outbox[g][1] = "value"
        BY <2>1, <3>1
      <4>2. /\ \A i \in DOMAIN outbox'[g]: i + 1 \in DOMAIN outbox[g] /\ outbox'[g][i] = outbox[g][i + 1]
            /\ \A i \in DOMAIN outbox[g]: i = 1 \/ (i - 1 \in DOMAIN outbox'[g] /\ outbox'[g][i - 1] = outbox[g][i])
        BY <4>1
      <4> QED BY <4>1, <4>2 DEF Silent
    <3>2. CASE g # f
      BY <2>1, <3>2 DEF Silent
    <3> QED BY <3>1, <3>2
  <2>3. \A g \in up: Due(g)' = Due(g)
    BY <1>3, <2>1 DEF Due
  <2> QED BY <2>1, <2>2, <2>3 DEF WearInv
<1>10. CASE Press
  <2>1. /\ UNCHANGED <<up, worn, outbox, pushed>>
        /\ \A g \in up: inbox'[g] = Append(inbox[g], Collect)
    BY <1>10 DEF Press, Tokenize, Post
  <2>2. \A g \in up: Due(g)' = Due(g) /\ (Silent(g)' <=> Silent(g))
    BY <1>3, <2>1 DEF Due, Silent
  <2>3. ASSUME NEW g \in up, Silent(g) PROVE Dressed(inbox'[g], worn'[g], Due(g))
    <3>1. Dressed(inbox[g], worn[g], Due(g)) /\ Due(g) \in Styles
      BY <2>3, DueIsStyle DEF WearInv
    <3>2. inbox[g] \in Seq(Styles \cup {Collect})
      OBVIOUS
    <3> QED BY <2>1, <3>1, <3>2, LastStyleCounts
  <2> QED BY <2>1, <2>2, <2>3 DEF WearInv
<1>11. CASE TokenArrives \/ (\E terminal \in BOOLEAN: ErrorArrives(terminal)) \/ SaleAccepted
         \/ SaleFails \/ UNCHANGED vars
  BY <1>4, <1>11 DEF TokenArrives, ErrorArrives, SaleAccepted, SaleFails, Settle, vars, sdkVars
<1> QED BY <1>5, <1>6, <1>7, <1>8, <1>9, <1>10, <1>11 DEF CardNext

(* A field at rest wears the last style it was told, for any number of     *)
(* fields, changes of theme and reloads, in any order of their messages.   *)
THEOREM FieldsAreDressed == CardSpec => []FieldsWearTheLastPush
<1>1. CardInit => ThemeInv /\ WearInv
  BY ThemeInitInv DEF CardInit, SdkInit, WearInv
<1>2. ThemeInv /\ WearInv /\ [CardNext]_vars => (ThemeInv /\ WearInv)'
  BY ThemeStepInv, WearStep
<1>3. ThemeInv /\ WearInv => FieldsWearTheLastPush
  <2>1. ASSUME WearInv, NEW f \in Fields, AtRest(f) PROVE worn[f] = Due(f)
    <3>1. f \in up /\ Silent(f) /\ DOMAIN inbox[f] = {}
      BY <2>1 DEF AtRest, Silent
    <3> QED BY <2>1, <3>1 DEF WearInv, Dressed
  <2> QED BY <2>1 DEF FieldsWearTheLastPush, Due
<1> QED BY <1>1, <1>2, <1>3, PTL DEF CardSpec
=============================================================================
