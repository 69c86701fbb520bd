------------------------------- MODULE SignUp -------------------------------
(***************************************************************************)
(* The sign-up screen, SignUpViewController: ask for a code by mail, have  *)
(* it checked, sign up.  The three buttons share the variable email, and   *)
(* the completions write the flags and labels of a form that the user may  *)
(* have edited since.                                                      *)
(*                                                                         *)
(* The text fields are inputs of the taps.  A text is Empty, Bad (refused  *)
(* by the format check) or one that the check accepts.  A label is named   *)
(* by its message, "none" when it is hidden or empty.                      *)
(***************************************************************************)
EXTENDS Integers, FiniteSets

CONSTANTS
    Emails,        \* texts that isValidEmailFormat accepts
    Nicknames,     \* non-empty nicknames
    Passwords,     \* texts that isValidPasswordFormat accepts
    Empty, Bad,
    Slots          \* bound: requests in flight

ASSUME SignUpAssumption ==
    /\ Empty \notin Emails \cup Nicknames \cup Passwords
    /\ Bad \notin Emails \cup Passwords \cup {Empty}

VARIABLES
    screen,        \* "form", or "login" once the form is dismissed
    email, nickname, password,
    isValidEmail,  \* the one flag that is read after the tap that sets it
    emailError,    \* emailErrorLabel
    codeLabel,     \* emailVertifyErrorLabel
    checkEnabled,  \* emailVertifyCheckedButton.isEnabled
    net,           \* requests in flight
    taken,         \* the server: addresses that had an account before
    made,          \* the server: accounts made from this form
    coded,         \* the server: addresses a code was sent to
    verified,      \* the server: addresses a code was accepted for
    asked,         \* history: addresses the server was asked a code or an account for
    closing        \* history: Verifiable when the first accepted code closed the check

values == <<email, nickname, password>>
labels == <<isValidEmail, emailError, codeLabel, checkEnabled>>
server == <<taken, made, coded, verified, asked>>
vars == <<screen, values, labels, net, server, closing>>

Texts == [email: Emails \cup {Empty, Bad}, nickname: Nicknames \cup {Empty},
          password: Passwords \cup {Empty, Bad}]
Blank == [email |-> Empty, nickname |-> Empty, password |-> Empty]
Idle == [kind |-> "idle", sent |-> Blank, entered |-> Blank, reply |-> "none"]

\* A request with the values it carries and the texts that were on the form.
Request(kind, sent, entered) ==
    [kind |-> kind, sent |-> sent, entered |-> entered, reply |-> "none"]
Requests == [kind: {"idle", "send", "verify", "signup", "block"}, sent: Texts, entered: Texts,
             reply: {"none", "ok", "exists", "mismatch", "refused", "unheard"}]

TypeOK ==
    /\ screen \in {"form", "login"}
    /\ email \in Emails \cup {Empty} /\ nickname \in Nicknames \cup {Empty}
    /\ password \in Passwords \cup {Empty}
    /\ isValidEmail \in BOOLEAN /\ checkEnabled \in BOOLEAN
    /\ emailError \in {"none", "format", "exists"}
    /\ codeLabel \in {"none", "check", "mismatch", "done"}
    /\ net \in [Slots -> Requests]
    /\ taken \subseteq Emails /\ made \subseteq Emails
    /\ coded \subseteq Emails /\ verified \subseteq Emails /\ asked \subseteq Emails
    /\ closing \subseteq Emails \cup {Empty, Bad}

\* A fresh form; any of the addresses may have an account.
Init ==
    /\ screen = "form"
    /\ email = Empty /\ nickname = Empty /\ password = Empty
    /\ isValidEmail = FALSE /\ emailError = "none"
    /\ codeLabel = "none" /\ checkEnabled = TRUE
    /\ net = [s \in Slots |-> Idle]
    /\ taken \in SUBSET Emails /\ made = {} /\ coded = {} /\ verified = {} /\ asked = {}
    /\ closing = {}

OnForm == screen = "form"
Free(s) == net[s] = Idle
Send(s, request) == Free(s) /\ net' = [net EXCEPT ![s] = request]
Release(s) == net' = [net EXCEPT ![s] = Idle]

---------------------------------------------------------------------------
(* The buttons. *)

\* Mutant: the format is not looked at.
EmailVertifyAnyText(text) ==
    /\ OnForm
    /\ \/ /\ text = Empty
          /\ emailError' = "none"
          /\ UNCHANGED <<email, net>>
       \/ /\ text # Empty
          /\ email' = text
          /\ \E s \in Slots : Send(s, Request("send", [Blank EXCEPT !.email = text], Blank))
          /\ UNCHANGED emailError
    /\ UNCHANGED <<screen, nickname, password, isValidEmail, codeLabel, checkEnabled, server, closing>>

\* Mutant: asking for a code to another address opens the check again.
EmailVertifyReopens(text) ==
    /\ OnForm
    /\ \/ /\ text = Empty
          /\ emailError' = "none"
          /\ UNCHANGED <<email, net, checkEnabled>>
       \/ /\ text = Bad
          /\ emailError' = IF isValidEmail THEN "none" ELSE "format"
          /\ UNCHANGED <<email, net, checkEnabled>>
       \/ /\ text \in Emails
          /\ email' = text
          /\ checkEnabled' = (checkEnabled \/ text # email)
          /\ \E s \in Slots : Send(s, Request("send", [Blank EXCEPT !.email = text], Blank))
          /\ UNCHANGED emailError
    /\ UNCHANGED <<screen, nickname, password, isValidEmail, codeLabel, server, closing>>

\* emailVertifyButtonTapped.  A bad address is reported with the flag of the
\* last complete validation, so that a valid one before hides the message.
EmailVertifyButtonTapped(text) ==
    /\ OnForm
    /\ \/ /\ text = Empty
          /\ emailError' = "none"
          /\ UNCHANGED <<email, net>>
       \/ /\ text = Bad
          /\ emailError' = IF isValidEmail THEN "none" ELSE "format"
          /\ UNCHANGED <<email, net>>
       \/ /\ text \in Emails
          /\ email' = text
          /\ \E s \in Slots : Send(s, Request("send", [Blank EXCEPT !.email = text], Blank))
          /\ UNCHANGED emailError
    /\ UNCHANGED <<screen, nickname, password, isValidEmail, codeLabel, checkEnabled, server, closing>>

\* vertifyCodeButtonTapped, with a code in the field or not; the address is the
\* one stored last.  isValidVertifyCode is never set, so the message is shown.
VertifyCodeButtonTapped(filled) ==
    /\ OnForm /\ checkEnabled
    /\ \/ /\ filled
          /\ \E s \in Slots : Send(s, Request("verify", [Blank EXCEPT !.email = email], Blank))
          /\ UNCHANGED codeLabel
       \/ /\ ~filled
          /\ codeLabel' = "check"
          /\ UNCHANGED net
    /\ UNCHANGED <<screen, values, isValidEmail, emailError, checkEnabled, server, closing>>

\* The four flags of a complete validation.
FormIsValid(t, repeat) ==
    /\ t.email \in Emails
    /\ t.nickname # Empty
    /\ t.password \in Passwords
    /\ repeat # Empty /\ repeat = t.password

\* Mutant: the address stays the one that the code was asked for.
ValidateKeepsEmail(t, repeat) ==
    /\ isValidEmail' = (t.email \in Emails)
    /\ email' = IF FormIsValid(t, repeat) /\ email = Empty THEN t.email ELSE email
    /\ nickname' = IF FormIsValid(t, repeat) THEN t.nickname ELSE nickname
    /\ password' = IF FormIsValid(t, repeat) THEN t.password ELSE password
    /\ emailError' = IF isValidEmail' THEN "none" ELSE "format"

\* validateUserInfo: the values are only stored when all of them are valid.
ValidateUserInfo(t, repeat) ==
    /\ isValidEmail' = (t.email \in Emails)
    /\ email' = IF FormIsValid(t, repeat) THEN t.email ELSE email
    /\ nickname' = IF FormIsValid(t, repeat) THEN t.nickname ELSE nickname
    /\ password' = IF FormIsValid(t, repeat) THEN t.password ELSE password
    /\ emailError' = IF isValidEmail' THEN "none" ELSE "format"

CompleteButtonTapped(t, repeat) ==
    /\ OnForm
    /\ ValidateUserInfo(t, repeat)
    /\ \/ /\ FormIsValid(t, repeat)
          /\ \E s \in Slots :
               Send(s, Request("signup", [email |-> email', nickname |-> nickname',
                                          password |-> password'], t))
       \/ ~FormIsValid(t, repeat) /\ UNCHANGED net
    /\ UNCHANGED <<screen, codeLabel, checkEnabled, server, closing>>

---------------------------------------------------------------------------
(* The server. *)

Accounts == taken \cup made

\* The answer to a request that the form has given up is heard by nobody.
Answer(s, reply) ==
    net' = [net EXCEPT ![s] = IF @.reply = "unheard" THEN Idle ELSE [@ EXCEPT !.reply = reply]]

\* A code is sent to an address without an account, checked for one that has
\* been sent a code; an account needs a new address, and perhaps a verified one.
ServerAnswers(s) ==
    /\ net[s].reply \in {"none", "unheard"}
    /\ LET addr == net[s].sent.email
       IN  \/ /\ net[s].kind = "send"
              /\ Answer(s, IF addr \in Accounts THEN "exists" ELSE "ok")
              /\ coded' = IF addr \in Accounts THEN coded ELSE coded \cup {addr}
              /\ UNCHANGED <<made, verified>>
           \/ /\ net[s].kind = "verify"
              /\ \/ Answer(s, "mismatch") /\ UNCHANGED verified
                 \/ addr \in coded /\ Answer(s, "ok") /\ verified' = verified \cup {addr}
              /\ UNCHANGED <<made, coded>>
           \/ /\ net[s].kind = "signup"
              /\ \/ addr \in Accounts /\ Answer(s, "exists") /\ UNCHANGED made
                 \/ addr \notin Accounts /\ Answer(s, "ok") /\ made' = made \cup {addr}
                 \/ addr \notin verified /\ Answer(s, "refused") /\ UNCHANGED made
              /\ UNCHANGED <<coded, verified>>
    /\ asked' = IF net[s].kind = "verify" THEN asked ELSE asked \cup {net[s].sent.email}
    /\ UNCHANGED <<screen, values, labels, taken, closing>>

---------------------------------------------------------------------------
(* The completions, which also run after the form has been dismissed. *)

Arrived(s, kind, replies) == net[s].kind = kind /\ net[s].reply \in replies

\* Mutant: every refusal is reported as an address that exists.
HandleErrorMessageAlways(message) ==
    /\ isValidEmail' = FALSE /\ emailError' = "exists"
    /\ UNCHANGED codeLabel

\* handleErrorMessage; other messages only reach the console.
HandleErrorMessage(message) ==
    /\ isValidEmail' = (isValidEmail /\ message # "exists")
    /\ emailError' = IF message = "exists" THEN "exists" ELSE emailError
    /\ codeLabel' = IF message = "mismatch" THEN "mismatch" ELSE codeLabel

SendArrives(s) ==
    /\ Arrived(s, "send", {"ok", "exists"})
    /\ HandleErrorMessage(net[s].reply)
    /\ Release(s)
    /\ UNCHANGED <<screen, values, checkEnabled, server, closing>>

\* The code is right: a block is queued on the main queue.
VertifyArrives(s) ==
    /\ Arrived(s, "verify", {"ok"})
    /\ net' = [net EXCEPT ![s].kind = "block"]
    /\ UNCHANGED <<screen, values, labels, server, closing>>

\* The addresses that are verified or can still become so.
Verifiable == verified \cup {net[s].sent.email : s \in {r \in Slots : net[r].kind = "verify"}}

\* The block: the check button is disabled and the label says "done".  The label
\* is never hidden: it starts with no text, and errorUpdateUI is only called for
\* it with isValidVertifyCode, which stays FALSE.
VertifiedBlock(s) ==
    /\ net[s].kind = "block"
    /\ checkEnabled' = FALSE /\ codeLabel' = "done"
    /\ closing' = IF closing = {} THEN Verifiable ELSE closing
    /\ Release(s)
    /\ UNCHANGED <<screen, values, isValidEmail, emailError, server>>

VertifyRefused(s) ==
    /\ Arrived(s, "verify", {"mismatch"})
    /\ HandleErrorMessage(net[s].reply)
    /\ Release(s)
    /\ UNCHANGED <<screen, values, checkEnabled, server, closing>>

SignupArrives(s) ==
    /\ Arrived(s, "signup", {"ok"})
    /\ screen' = "login"
    /\ Release(s)
    /\ UNCHANGED <<values, labels, server, closing>>

\* isValidEmail is cleared whatever the reason.
SignupRefused(s) ==
    /\ Arrived(s, "signup", {"exists", "refused"})
    /\ isValidEmail' = FALSE
    /\ emailError' = IF net[s].reply = "exists" THEN "exists" ELSE emailError
    /\ Release(s)
    /\ UNCHANGED <<screen, values, codeLabel, checkEnabled, server, closing>>

\* No answer, or one that cannot be decoded: a console message.  The server may
\* still carry out a request that has timed out, or never see it.
RequestFails(s) ==
    /\ net[s].kind \in {"send", "verify", "signup"}
    /\ \/ Release(s)
       \/ net[s].reply = "none" /\ net' = [net EXCEPT ![s].reply = "unheard"]
    /\ UNCHANGED <<screen, values, labels, server, closing>>

---------------------------------------------------------------------------
Next ==
    \/ \E text \in Emails \cup {Empty, Bad} : EmailVertifyButtonTapped(text)
    \/ \E filled \in BOOLEAN : VertifyCodeButtonTapped(filled)
    \/ \E t \in Texts, repeat \in Passwords \cup {Empty, Bad} : CompleteButtonTapped(t, repeat)
    \/ \E s \in Slots :
         \/ ServerAnswers(s) \/ SendArrives(s) \/ VertifyArrives(s) \/ VertifiedBlock(s)
         \/ VertifyRefused(s) \/ SignupArrives(s) \/ SignupRefused(s) \/ RequestFails(s)

Spec == Init /\ [][Next]_vars

---------------------------------------------------------------------------
(* Properties. *)

\* A sign-up carries the texts of one tap, all of them valid: an address that
\* emailVertifyButtonTapped has stored before, or values kept from an earlier
\* tap, never get into it.
SentIsEntered ==
    \A s \in Slots : net[s].kind = "signup" =>
        /\ net[s].sent = net[s].entered
        /\ FormIsValid(net[s].sent, net[s].sent.password)

\* One accepted code closes the check for as long as the form lives.  A check may
\* still be tapped until the block of the accepted code has run; from then on no
\* tap, answer or refusal opens it again, and no address is ever verified that was
\* not verified, or being checked, when the block ran.  A user who then corrects
\* the address is sent a code that this form can no longer submit.
CheckedForGood == closing # {} => verified \subseteq closing

\* What the form tells rests on what the server has said, whatever the order of
\* the answers and whatever has been typed since.  "Exists" means that an address
\* the form has asked for has an account, though not always the one asked for
\* last; a disabled check button, or "done", that a code has been accepted; and a
\* dismissed form that it has made an account, also when a second sign-up was
\* refused because of the first.
FormTellsTheTruth ==
    /\ emailError = "exists" => asked \cap Accounts # {}
    /\ ~checkEnabled \/ codeLabel = "done" => verified # {}
    /\ screen = "login" => made # {}
=============================================================================
