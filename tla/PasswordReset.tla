---------------------------- MODULE PasswordReset ----------------------------
(***************************************************************************)
(* The forgotten-password screens: FindPasswordViewController asks for a   *)
(* code by mail and has it verified, ChangePasswordViewController then     *)
(* sends the new password.  Both keep what they send in variables that     *)
(* later taps overwrite while requests are under way.                      *)
(*                                                                         *)
(* The text fields change freely between taps, so their contents are       *)
(* inputs of the taps.  A password is a valid one, by isValidPasswordFormat,*)
(* or Bad; a code is right or wrong only for the server.                   *)
(***************************************************************************)
EXTENDS Integers, Sequences, FiniteSets

CONSTANTS
    Emails,        \* non-empty texts of the e-mail field
    Passwords,     \* texts that isValidPasswordFormat accepts
    Empty,         \* the empty text
    Bad,           \* a text that isValidPasswordFormat rejects
    Slots          \* bound: requests in flight on each screen

ASSUME ResetAssumption ==
    /\ Empty \notin Emails \cup Passwords
    /\ Bad \notin Passwords \cup {Empty}

VARIABLES
    screen,        \* "find", "change" (presented over it), "login"
    email,         \* FindPasswordViewController.email
    changeEmail,   \* ChangePasswordViewController.email
    newPassword,   \* ChangePasswordViewController.newPassword
    verified,      \* history: e-mails that the server has verified a code for
    resent,        \* history: an e-mail was replaced during a verification
    account,       \* password of changeEmail on the server
    overlapped,    \* history: a change was sent while the server might still
                   \* carry out an earlier one
    checks,        \* verifications in flight
    changes        \* password changes in flight

find == <<email, verified, resent, checks>>
change == <<changeEmail, newPassword, account, overlapped, changes>>
vars == <<screen, find, change>>

Idle == [status |-> "idle", email |-> Empty, password |-> Empty]
Request(addr, pwd) == [status |-> "sent", email |-> addr, password |-> pwd]
Requests == [status: {"idle", "sent", "accepted", "forgotten"}, email: Emails \cup {Empty},
             password: Passwords \cup {Empty}]

TypeOK ==
    /\ screen \in {"find", "change", "login"}
    /\ email \in Emails \cup {Empty} /\ changeEmail \in Emails \cup {Empty}
    /\ newPassword \in Passwords \cup {Empty}
    /\ verified \subseteq Emails \cup {Empty}
    /\ checks \in [Slots -> Requests] /\ changes \in [Slots -> Requests]
    /\ account \in Passwords \cup {Empty, "old"}
    /\ overlapped \in BOOLEAN /\ resent \in BOOLEAN

Init ==
    /\ screen = "find"
    /\ email = Empty /\ changeEmail = Empty /\ newPassword = Empty
    /\ verified = {} /\ resent = FALSE
    /\ account = "old" /\ overlapped = FALSE
    /\ checks = [s \in Slots |-> Idle] /\ changes = [s \in Slots |-> Idle]

---------------------------------------------------------------------------
(* FindPasswordViewController. *)

\* sendButtonTapped: the variable is overwritten; the answer only reaches the
\* console, so the request itself leaves no trace.
SendButtonTapped(text) ==
    /\ screen = "find"
    /\ email' = text
    /\ resent' = (resent \/ (text # email /\ \E s \in Slots : checks[s] # Idle))
    /\ UNCHANGED <<screen, verified, checks, change>>

\* changePasswordButtonTapped, with some code in the field.
ChangePasswordButtonTapped(s) ==
    /\ screen = "find"
    /\ checks[s] = Idle
    /\ checks' = [checks EXCEPT ![s] = Request(email, Empty)]
    /\ UNCHANGED <<screen, email, verified, resent, change>>

\* The server only knows codes that it has sent to an e-mail.
ServerVerifies(s) ==
    /\ checks[s].status = "sent"
    /\ checks[s].email # Empty
    /\ checks' = [checks EXCEPT ![s].status = "accepted"]
    /\ verified' = verified \cup {checks[s].email}
    /\ UNCHANGED <<screen, email, resent, change>>

\* present: a new change screen, unless another screen is presented already.
PresentChangeScreen ==
    \/ /\ screen = "find"
       /\ screen' = "change" /\ changeEmail' = email
       /\ UNCHANGED <<newPassword, account, overlapped, changes>>
    \/ /\ screen # "find"
       /\ UNCHANGED <<screen, change>>

\* The verification succeeds: the change screen gets the e-mail that the
\* variable holds now.
VerificationArrives(s) ==
    /\ checks[s].status = "accepted"
    /\ checks' = [checks EXCEPT ![s] = Idle]
    /\ PresentChangeScreen
    /\ UNCHANGED <<email, verified, resent>>

\* Mutant: isSuccess is not looked at.
VerificationFailsPresents(s) ==
    /\ checks[s] # Idle
    /\ checks' = [checks EXCEPT ![s] = Idle]
    /\ PresentChangeScreen
    /\ UNCHANGED <<email, verified, resent>>

VerificationFails(s) ==
    /\ checks[s] # Idle
    /\ checks' = [checks EXCEPT ![s] = Idle]
    /\ UNCHANGED <<screen, email, verified, resent, change>>

---------------------------------------------------------------------------
(* ChangePasswordViewController. *)

\* isValidnewPassword and isPasswordMatching
FormIsValid(text, repeat) == text \in Passwords /\ repeat # Empty /\ repeat = text

\* validateUserInfo keeps the last password that was valid and repeated.
ValidateUserInfo(text, repeat) ==
    newPassword' = IF FormIsValid(text, repeat) THEN text ELSE newPassword

\* What every tap records of the changes under way.
Overlaps == overlapped' = (overlapped \/ \E s \in Slots : changes[s] # Idle)

\* Mutant: the text of the field is sent.
ChangeCompleteSendsField(s, text, repeat) ==
    /\ screen = "change"
    /\ changes[s] = Idle
    /\ ValidateUserInfo(text, repeat) /\ Overlaps
    /\ changes' = [changes EXCEPT ![s] = Request(changeEmail, text)]
    /\ UNCHANGED <<screen, changeEmail, account, find>>

\* Mutant: the request is put together before the form is validated.
ChangeCompleteSendsBefore(s, text, repeat) ==
    /\ screen = "change"
    /\ changes[s] = Idle
    /\ ValidateUserInfo(text, repeat) /\ Overlaps
    /\ changes' = [changes EXCEPT ![s] = Request(changeEmail, newPassword)]
    /\ UNCHANGED <<screen, changeEmail, account, find>>

\* changePawwordCompleteButtonTapped sends what newPassword holds, whatever
\* the validation has said.
ChangeCompleteButtonTapped(s, text, repeat) ==
    /\ screen = "change"
    /\ changes[s] = Idle
    /\ ValidateUserInfo(text, repeat) /\ Overlaps
    /\ changes' = [changes EXCEPT ![s] = Request(changeEmail, newPassword')]
    /\ UNCHANGED <<screen, changeEmail, account, find>>

\* The server carries out a change, perhaps after the application has given up
\* waiting for the answer.
ServerChanges(s) ==
    /\ changes[s].status \in {"sent", "forgotten"}
    /\ account' = changes[s].password
    /\ changes' = IF changes[s].status = "sent" THEN [changes EXCEPT ![s].status = "accepted"]
                  ELSE [changes EXCEPT ![s] = Idle]
    /\ UNCHANGED <<screen, changeEmail, newPassword, overlapped, find>>

\* The login screen becomes the root.
ChangeArrives(s) ==
    /\ changes[s].status = "accepted"
    /\ changes' = [changes EXCEPT ![s] = Idle]
    /\ screen' = "login"
    /\ UNCHANGED <<changeEmail, newPassword, account, overlapped, find>>

\* A refusal, a lost request or answer, or a timeout of a request that may still
\* reach the server.
ChangeFails(s) ==
    /\ changes[s].status \in {"sent", "accepted"}
    /\ \/ changes' = [changes EXCEPT ![s] = Idle]
       \/ changes[s].status = "sent" /\ changes' = [changes EXCEPT ![s].status = "forgotten"]
    /\ UNCHANGED <<screen, changeEmail, newPassword, account, overlapped, find>>

---------------------------------------------------------------------------
Texts == Passwords \cup {Empty, Bad}

Next ==
    \/ \E text \in Emails : SendButtonTapped(text)
    \/ \E s \in Slots : \/ ChangePasswordButtonTapped(s) \/ ServerVerifies(s)
                        \/ VerificationArrives(s) \/ VerificationFails(s)
                        \/ ServerChanges(s) \/ ChangeArrives(s) \/ ChangeFails(s)
    \/ \E s \in Slots, text \in Texts, repeat \in Texts :
         ChangeCompleteButtonTapped(s, text, repeat)

Spec == Init /\ [][Next]_vars

---------------------------------------------------------------------------
(* Properties. *)

\* The change screen is for an e-mail whose code the server has accepted,
\* unless the user has asked for a code to another e-mail while a verification
\* was under way: nothing else separates the two.
OnlyResendingMisleads == screen = "change" /\ ~resent => changeEmail \in verified

\* Once the login screen is back, the account has the password that the screen
\* stored last: the last valid and repeated entry.  A form called invalid in
\* between, failed attempts and lost answers do not come between them; two
\* changes under way at once do.  (Before the first valid entry the stored
\* password is the empty one, which a tap sends like any other.)
LoginWithStoredPassword == screen = "login" /\ ~overlapped => account = newPassword
=============================================================================
