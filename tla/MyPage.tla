------------------------------- MODULE MyPage -------------------------------
(***************************************************************************)
(* My page and its two forms, composed with the session: MyPageView-       *)
(* Controller, EditNicknameViewController and PasswordChangeView-          *)
(* Controller, pushed one upon the other over the home screen, while       *)
(* logins, logouts and process ends go on underneath.                      *)
(*                                                                         *)
(* All logins are of one account.  Its nickname and its password are named *)
(* by the number of times they have been changed on the server, so that a  *)
(* new one is always another one.  A popped controller keeps its           *)
(* navigation controller until the animation ends.                         *)
(***************************************************************************)
EXTENDS Session

CONSTANTS
    MaxCalls,     \* bound: requests of these screens under way at a time
    MaxChanges    \* bound: changes of the nickname and the password together

ASSUME PageAssumption == MaxCalls \in Nat /\ MaxChanges \in Nat

Slots == 1 .. MaxCalls
Forms == {"nickname", "password"}
Versions == 0 .. MaxChanges
Wrong == -1      \* a text that is not the current password
Blank == -1      \* the label before the first answer

VARIABLES
    screen,        \* top of the navigation stack of the home screen
    leaving,       \* the animation that removes the last form is running
    label,         \* nickname on my page; whether its newest fetch brought it;
                   \* history: known when the page was opened
    errors,        \* refusals of the server that the password form shows
    calls,         \* requests to /users under way
    nickname, password,   \* on the server
    known,         \* history: newest nickname whose answer closed its form
    overlap, lost  \* history: the last form had more than one way to be closed;
                   \* my page was closed by the answer to a form

stack == <<screen, leaving>>
account == <<nickname, password>>
history == <<known, overlap, lost>>
pageVars == <<stack, label, errors, calls, account, history>>

\* mine: the controller that sent it is still in the stack, or leaving it;
\* newest: my page has sent no fetch since.
Idle == [kind |-> "idle", token |-> None, mine |-> FALSE, newest |-> FALSE,
         old |-> Wrong, same |-> FALSE, reply |-> "none", value |-> 0]
NoLabel == [value |-> Blank, newest |-> FALSE, seen |-> 0]
Labels == [value: {Blank} \cup Versions, newest: BOOLEAN, seen: Versions]

PageTypeOK ==
    /\ TypeOK
    /\ screen \in {"home", "my"} \cup Forms /\ leaving \in BOOLEAN
    /\ label \in Labels
    /\ errors \subseteq {"wrong", "same"}
    /\ calls \in [Slots -> [kind: {"idle", "fetch"} \cup Forms, token: {None} \cup Logins,
                            mine: BOOLEAN, newest: BOOLEAN,
                            old: {Wrong} \cup Versions, same: BOOLEAN,
                            reply: {"none", "ok", "wrong", "same"}, value: Versions]]
    /\ nickname \in Versions /\ password \in Versions /\ known \in Versions
    /\ overlap \in BOOLEAN /\ lost \in BOOLEAN

PageInit ==
    /\ Init
    /\ screen = "home" /\ leaving = FALSE
    /\ label = NoLabel /\ errors = {}
    /\ calls = [c \in Slots |-> Idle]
    /\ nickname = 0 /\ password = 0
    /\ known = 0 /\ overlap = FALSE /\ lost = FALSE

\* A tap reaches the top screen when no animation is running.
Touchable == Ready /\ root = "home" /\ ~leaving

FreeIn(cs) == {c \in Slots : cs[c] = Idle}
Free(cs) == CHOOSE c \in FreeIn(cs) : \A d \in FreeIn(cs) : c <= d
Close(c) == [calls EXCEPT ![c] = Idle]
\* A request of the form on top is under way.
UnderWay == \E c \in Slots : calls[c].kind \in Forms /\ calls[c].mine
\* A change of the password that the server refuses, now and later: changes
\* count up.
Refused(call) == call.kind = "password" /\ (call.same \/ call.old # password)
\* The controllers of these kinds of requests have left the stack: an answer
\* shows nowhere any more, a form's request may still change the account.
Abandon(cs, kinds) ==
    [c \in Slots |->
        IF cs[c].kind \notin kinds THEN cs[c]
        ELSE IF cs[c].kind = "fetch" \/ cs[c].reply # "none" \/ Refused(cs[c]) THEN Idle
        ELSE [cs[c] EXCEPT !.mine = FALSE, !.token = None]]

---------------------------------------------------------------------------
(* MyPageViewController. *)

\* Mutant: the request carries the AccessToken.
FetchUserInfoAccess(cs, c) ==
    IF keychain["AccessToken"] = None THEN cs
    ELSE [d \in Slots |-> IF d = c THEN [Idle EXCEPT !.kind = "fetch", !.mine = TRUE, !.newest = TRUE,
                                                     !.token = keychain["AccessToken"]]
                          ELSE [cs[d] EXCEPT !.newest = FALSE]]

\* The requests after fetchUserInfo, in slot c; no request without a RefreshToken.
FetchUserInfo(cs, c) ==
    IF keychain["RefreshToken"] = None THEN cs
    ELSE [d \in Slots |-> IF d = c THEN [Idle EXCEPT !.kind = "fetch", !.mine = TRUE, !.newest = TRUE,
                                                     !.token = keychain["RefreshToken"]]
                          ELSE [cs[d] EXCEPT !.newest = FALSE]]

\* presentToMyPage of the home screen: a new page with empty labels.
PresentToMyPage ==
    /\ Touchable /\ screen = "home"
    /\ screen' = "my" /\ label' = [NoLabel EXCEPT !.seen = known]
    /\ overlap' = FALSE /\ lost' = FALSE
    /\ FreeIn(calls) # {} /\ calls' = FetchUserInfo(calls, Free(calls))
    /\ UNCHANGED <<leaving, errors, account, known>>

\* editInfoButtonTapped and changePwdButtonTapped push a new form.
FormButtonTapped(f) ==
    /\ Touchable /\ screen = "my"
    /\ screen' = f /\ errors' = {} /\ overlap' = FALSE
    /\ UNCHANGED <<leaving, label, calls, account, known, lost>>

\* The fetch succeeds: the labels of the page that sent it.
FetchArrives(c) ==
    /\ Ready
    /\ calls[c].kind = "fetch" /\ calls[c].reply = "ok"
    /\ calls' = Close(c)
    /\ label' = IF calls[c].mine THEN [label EXCEPT !.value = calls[c].value, !.newest = calls[c].newest]
                ELSE label
    /\ UNCHANGED <<stack, errors, account, history>>

---------------------------------------------------------------------------
(* Leaving a form. *)

\* Mutant: my page fetches only when it is loaded.
PopFormNoFetch(cs) ==
    /\ screen' = "my" /\ leaving' = TRUE /\ errors' = {} /\ calls' = cs /\ UNCHANGED label

\* popViewController with a form on top: my page appears and fetches again.
PopForm(cs) ==
    /\ screen' = "my" /\ leaving' = TRUE /\ errors' = {}
    /\ FreeIn(cs) # {} /\ calls' = FetchUserInfo(cs, Free(cs))
    /\ label' = [label EXCEPT !.newest = (@ /\ keychain["RefreshToken"] = None)]

\* popViewController with my page on top.
PopMyPage(cs) ==
    /\ screen' = "home" /\ calls' = Abandon(cs, {"fetch"}) /\ label' = NoLabel

\* customBackButtonTapped, on a form or on my page.
CustomBackButtonTapped ==
    /\ Touchable
    /\ \/ /\ screen \in Forms /\ PopForm(calls)
          /\ overlap' = (overlap \/ UnderWay)
       \/ /\ screen = "my" /\ PopMyPage(calls)
          /\ UNCHANGED <<leaving, errors, overlap>>
    /\ UNCHANGED <<account, known, lost>>

AnimationEnds ==
    /\ leaving /\ leaving' = FALSE
    /\ calls' = Abandon(calls, Forms)
    /\ overlap' = lost
    /\ UNCHANGED <<screen, label, errors, account, known, lost>>

\* Mutant: a saved form returns to the home screen.
FormSavedToRoot(c) ==
    /\ screen \in Forms /\ calls[c].mine
    /\ PopMyPage(Close(c)) /\ lost' = TRUE
    /\ UNCHANGED <<leaving, errors, known>>

\* The success branch of both forms pops whatever is on top, if the form still
\* has its navigation controller.  A second pop during the animation of the
\* first may or may not be carried out.
FormSaved(c) ==
    \/ /\ screen \in Forms /\ calls[c].mine
       /\ PopForm(Close(c))
       /\ known' = IF calls[c].kind = "nickname" /\ calls[c].value > known
                   THEN calls[c].value ELSE known
       /\ UNCHANGED lost
    \/ /\ leaving /\ screen = "my" /\ calls[c].mine
       /\ PopMyPage(Close(c)) /\ lost' = TRUE
       /\ UNCHANGED <<leaving, errors, known>>
    \/ /\ screen \in Forms => ~calls[c].mine
       /\ calls' = Close(c)
       /\ UNCHANGED <<stack, label, errors, known, lost>>

---------------------------------------------------------------------------
(* EditNicknameViewController. *)

\* saveButtonTapped with a text; without one nothing but a red border happens.
\* Nothing stops a second tap while a request is out.
SaveButtonTapped ==
    /\ Touchable /\ screen = "nickname"
    /\ keychain["RefreshToken"] # None
    /\ overlap' = (overlap \/ UnderWay)
    /\ FreeIn(calls) # {}
    /\ calls' = [calls EXCEPT ![Free(calls)] =
                    [Idle EXCEPT !.kind = "nickname", !.mine = TRUE,
                                 !.token = keychain["RefreshToken"]]]
    /\ UNCHANGED <<stack, label, errors, account, known, lost>>

NicknameArrives(c) ==
    /\ Ready
    /\ calls[c].kind = "nickname" /\ calls[c].reply = "ok"
    /\ FormSaved(c)
    /\ UNCHANGED <<account, overlap>>

---------------------------------------------------------------------------
(* PasswordChangeViewController. *)

\* completeButtonTapped: validateUserInfo hides or overwrites what the labels
\* said of an earlier request; a valid form is sent.  The user types the current
\* password or a wrong one, and a new one or the same again.
CompleteButtonTapped(isValid, old, same) ==
    /\ Touchable /\ screen = "password"
    /\ errors' = {}
    /\ IF isValid /\ keychain["RefreshToken"] # None
       THEN /\ overlap' = (overlap \/ UnderWay)
            /\ FreeIn(calls) # {}
            /\ calls' = [calls EXCEPT ![Free(calls)] =
                            [Idle EXCEPT !.kind = "password", !.mine = TRUE,
                                         !.token = keychain["RefreshToken"],
                                         !.old = old, !.same = same]]
       ELSE UNCHANGED <<calls, overlap>>
    /\ UNCHANGED <<stack, label, account, known, lost>>

\* Mutant: the two messages are mixed up.
HandleErrorMessageSwapped(message) == errors \cup ({"wrong", "same"} \ {message})

\* The two messages have a label each, so that both may be shown.
HandleErrorMessage(message) == errors \cup ({"wrong", "same"} \cap {message})

PasswordArrives(c) ==
    /\ Ready
    /\ calls[c].kind = "password"
    /\ \/ calls[c].reply = "ok" /\ FormSaved(c)
       \/ /\ calls[c].reply \in {"wrong", "same"}
          /\ calls' = Close(c)
          /\ errors' = IF screen = "password" /\ calls[c].mine
                       THEN HandleErrorMessage(calls[c].reply) ELSE errors
          /\ UNCHANGED <<stack, label, known, lost>>
    /\ UNCHANGED <<account, overlap>>

---------------------------------------------------------------------------
(* The network and the server. *)

\* The completion prints a message: a failure, or a refusal without meaning to
\* the screen.
CallFails(c) ==
    /\ Ready
    /\ calls[c].kind # "idle"
    /\ calls' = Close(c)
    /\ UNCHANGED <<stack, label, errors, account, history>>

\* The server answers, to nobody if the controller has left the stack.  A token it
\* no longer honours is to the screens a failure like any other (CallFails).
ServerAnswers(c) ==
    LET call == calls[c]
        Reply(text, value) ==
            IF call.mine THEN [calls EXCEPT ![c].reply = text, ![c].value = value] ELSE Close(c)
    IN  /\ call.reply = "none"
        /\ \/ /\ call.kind = "fetch"
              /\ calls' = Reply("ok", nickname) /\ UNCHANGED account
           \/ /\ call.kind = "nickname" /\ nickname + password < MaxChanges
              /\ nickname' = nickname + 1
              /\ calls' = Reply("ok", nickname + 1) /\ UNCHANGED password
           \/ /\ call.kind = "password" /\ call.old # password
              /\ calls' = Reply("wrong", 0) /\ UNCHANGED account
           \/ /\ call.kind = "password" /\ call.old = password /\ call.same
              /\ calls' = Reply("same", 0) /\ UNCHANGED account
           \/ /\ call.kind = "password" /\ call.old = password /\ ~call.same
              /\ nickname + password < MaxChanges /\ password' = password + 1
              /\ calls' = Reply("ok", 0) /\ UNCHANGED nickname
        /\ UNCHANGED <<stack, label, errors, history>>

---------------------------------------------------------------------------
(* The composition. *)

\* The navigation stack goes; what is under way belongs to no screen any more,
\* and may still reach the server.
PagesGone ==
    /\ screen' = "home" /\ leaving' = FALSE
    /\ label' = NoLabel /\ errors' = {}
    /\ calls' = Abandon(calls, {"fetch"} \cup Forms)
    /\ overlap' = FALSE /\ lost' = FALSE
    /\ UNCHANGED <<account, known>>

\* Steps of the session that leave the pages alone.
SessionStep ==
    /\ \/ KeychainCall \/ WillConnect
       \/ \E n \in Logins : LoginTapped(n) \/ ServerGrants(n) \/ LoginArrives(n) \/ LoginFails(n)
       \/ \E m \in Logouts : ServerEndsSession(m) \/ LogoutArrives(m) \/ LogoutFails(m)
    /\ UNCHANGED pageVars

\* The logout button is on my page.
LogoutOnMyPage(m) ==
    /\ Touchable /\ screen = "my"
    /\ LogoutButtonTapped(m)
    /\ UNCHANGED pageVars

PageStep ==
    \/ PresentToMyPage \/ CustomBackButtonTapped \/ AnimationEnds \/ SaveButtonTapped
    \/ \E f \in Forms : FormButtonTapped(f)
    \/ \E isValid, same \in BOOLEAN, old \in {Wrong, password} :
          CompleteButtonTapped(isValid, old, same)
    \/ \E c \in Slots : \/ FetchArrives(c) \/ NicknameArrives(c) \/ PasswordArrives(c)
                        \/ CallFails(c) \/ ServerAnswers(c)

PageNext ==
    \/ SessionStep
    \/ SwitchRoot /\ PagesGone
    \/ Killed /\ PagesGone
    \/ \E m \in Logouts : LogoutOnMyPage(m)
    \/ PageStep /\ UNCHANGED vars

PageSpec ==
    PageInit /\ [][PageNext]_<<vars, pageVars>>
             /\ WF_<<vars, pageVars>>(KeychainCall /\ UNCHANGED pageVars)
             /\ WF_<<vars, pageVars>>(SwitchRoot /\ PagesGone)

---------------------------------------------------------------------------
(* Properties. *)

\* Whatever the order in which the fetches of my page are answered, the page never
\* shows a nickname older than the newest one known when it was opened; and if the
\* newest fetch was the last to be answered, none older than any whose answer has
\* closed its form since.  (An older answer that comes last may take back a change
\* made during the visit, and after an answer to a form that had been left the
\* page is out of date until it is opened again.)
LabelOfThisVisit ==
    root = "home" /\ screen = "my" /\ keychain["RefreshToken"] # None /\ label.value # Blank =>
        label.value >= IF label.newest THEN known ELSE label.seen

\* The form calls a current password wrong only if it was not the password when
\* the button was tapped, or if another change went through in the meantime, as
\* after a double tap: the change has then been made, whatever the form says.
WrongMeansWrongOrChanged ==
    [][errors' \ errors = {"wrong"} =>
          \E c \in Slots : /\ calls[c].kind = "password" /\ calls[c].mine /\ calls'[c] = Idle
                           /\ calls[c].old = Wrong \/ password > calls[c].old
      ]_<<vars, pageVars>>

\* The answer to a form closes my page as well only if a second request was sent
\* from that form, or the back button tapped, while one was under way.
OnlyOverlapLosesMyPage == lost => overlap

\* While the home screen is up, what its pages have under way was sent in the
\* name of the session whose RefreshToken is stored, until a logout removes it:
\* no answer of an earlier session is shown under a later one.
PagesSpeakForTheSession ==
    root = "home" /\ keychain["RefreshToken"] # None =>
        \A c \in Slots : calls[c].mine => calls[c].token = keychain["RefreshToken"]
=============================================================================
