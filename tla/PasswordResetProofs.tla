------------------------ MODULE PasswordResetProofs ------------------------
(***************************************************************************)
(* The invariants of PasswordReset, for any e-mails, passwords and number  *)
(* of requests in flight.                                                  *)
(***************************************************************************)
EXTENDS PasswordReset, TLAPS

\* Until an e-mail is replaced during a verification, every verification under
\* way is for the e-mail that FindPasswordViewController holds.
ChecksAreForEmail == ~resent => \A s \in Slots : checks[s] # Idle => checks[s].email = email

\* An accepted verification is one that the server knows of.
AcceptedIsVerified ==
    \A s \in Slots : checks[s].status = "accepted" => checks[s].email \in verified

\* As long as no two changes overlap, the one under way is of the password that
\* the screen stores, and so is what the server has accepted.
UnderWayIsStored ==
    ~overlapped => \A s \in Slots : changes[s] # Idle => changes[s].password = newPassword
AcceptedIsStored ==
    ~overlapped => \A s \in Slots : changes[s].status = "accepted" => account = newPassword

FindInv == ChecksAreForEmail /\ AcceptedIsVerified /\ OnlyResendingMisleads
ChangeInv == UnderWayIsStored /\ AcceptedIsStored /\ LoginWithStoredPassword
IndInv == TypeOK /\ FindInv /\ ChangeInv

---------------------------------------------------------------------------
(* The verification, on FindPasswordViewController. *)

\* Overwriting the variable email while a verification is under way is what the
\* history variable resent records; otherwise no verification is left behind.
LEMMA SendKeeps ==
    ASSUME IndInv, NEW text \in Emails, SendButtonTapped(text)
    PROVE  IndInv'
<1> USE DEF IndInv, TypeOK, FindInv, ChangeInv, SendButtonTapped, change
<1>1. TypeOK'
  OBVIOUS
<1>2. ChecksAreForEmail'
  BY DEF ChecksAreForEmail
<1>3. AcceptedIsVerified' /\ OnlyResendingMisleads'
  BY DEF AcceptedIsVerified, OnlyResendingMisleads
<1>4. ChangeInv'
  BY DEF UnderWayIsStored, AcceptedIsStored, LoginWithStoredPassword
<1>5. QED  BY <1>1, <1>2, <1>3, <1>4

\* A new verification is for the e-mail of the moment.
LEMMA CheckIsSentKeeps ==
    ASSUME IndInv, NEW s \in Slots, ChangePasswordButtonTapped(s)
    PROVE  IndInv'
<1> USE DEF IndInv, TypeOK, FindInv, ChangeInv, ChangePasswordButtonTapped, change
<1>1. TypeOK'
  BY DEF Requests, Request
<1>2. ChecksAreForEmail'
  BY DEF ChecksAreForEmail, Request
<1>3. AcceptedIsVerified' /\ OnlyResendingMisleads'
  BY DEF AcceptedIsVerified, OnlyResendingMisleads, Request
<1>4. ChangeInv'
  BY DEF UnderWayIsStored, AcceptedIsStored, LoginWithStoredPassword
<1>5. QED  BY <1>1, <1>2, <1>3, <1>4

\* The server's answer keeps the request's e-mail.
LEMMA ServerVerifiesKeeps ==
    ASSUME IndInv, NEW s \in Slots, ServerVerifies(s)
    PROVE  IndInv'
<1> USE DEF IndInv, TypeOK, FindInv, ChangeInv, ServerVerifies, change
<1>1. TypeOK'
  BY DEF Requests
<1>2. ChecksAreForEmail'
  BY DEF ChecksAreForEmail, Requests, Idle
<1>3. AcceptedIsVerified' /\ OnlyResendingMisleads'
  BY DEF AcceptedIsVerified, OnlyResendingMisleads, Requests
<1>4. ChangeInv'
  BY DEF UnderWayIsStored, AcceptedIsStored, LoginWithStoredPassword
<1>5. QED  BY <1>1, <1>2, <1>3, <1>4

\* The change screen takes over the variable email, which an accepted
\* verification is for unless it was replaced.
LEMMA VerificationArrivesKeeps ==
    ASSUME IndInv, NEW s \in Slots, VerificationArrives(s)
    PROVE  IndInv'
<1> USE DEF IndInv, TypeOK, FindInv, ChangeInv, VerificationArrives, PresentChangeScreen, change
<1>1. TypeOK'
  BY DEF Requests, Idle
<1>2. ChecksAreForEmail'
  BY DEF ChecksAreForEmail
<1>3. AcceptedIsVerified'
  BY DEF AcceptedIsVerified, Idle
<1>4. checks[s] # Idle
  BY DEF Idle
<1>5. OnlyResendingMisleads'
  BY <1>4 DEF AcceptedIsVerified, ChecksAreForEmail, OnlyResendingMisleads
<1>6. ChangeInv'
  BY DEF UnderWayIsStored, AcceptedIsStored, LoginWithStoredPassword
<1>7. QED  BY <1>1, <1>2, <1>3, <1>5, <1>6

\* An alert is shown and the request is forgotten.
LEMMA VerificationFailsKeeps ==
    ASSUME IndInv, NEW s \in Slots, VerificationFails(s)
    PROVE  IndInv'
<1> USE DEF IndInv, TypeOK, FindInv, ChangeInv, VerificationFails, change
<1>1. TypeOK'
  BY DEF Requests, Idle
<1>2. ChecksAreForEmail' /\ OnlyResendingMisleads'
  BY DEF ChecksAreForEmail, OnlyResendingMisleads
<1>3. AcceptedIsVerified'
  BY DEF AcceptedIsVerified, Idle
<1>4. ChangeInv'
  BY DEF UnderWayIsStored, AcceptedIsStored, LoginWithStoredPassword
<1>5. QED  BY <1>1, <1>2, <1>3, <1>4

---------------------------------------------------------------------------
(* The new password, on ChangePasswordViewController. *)

\* No step of the change screen touches what the verification rests on.
LEMMA FindUntouched ==
    ASSUME FindInv, UNCHANGED <<changeEmail, find>>, screen' = screen \/ screen' = "login"
    PROVE  FindInv'
BY DEF FindInv, ChecksAreForEmail, AcceptedIsVerified, OnlyResendingMisleads, find

\* A tap sends the stored password, whatever the form holds.  It keeps to itself
\* only if nothing else is under way.
LEMMA ChangeIsSentKeeps ==
    ASSUME IndInv, NEW s \in Slots, NEW text \in Texts, NEW repeat \in Texts,
           ChangeCompleteButtonTapped(s, text, repeat)
    PROVE  IndInv'
<1> USE DEF IndInv, ChangeInv, ChangeCompleteButtonTapped, ValidateUserInfo, FormIsValid, Overlaps
<1>1. FindInv'
  BY FindUntouched
<1>2. TypeOK'
  BY DEF TypeOK, Requests, Request, find
<1>3. changes'[s] = Request(changeEmail, newPassword') /\ \A t \in Slots : t # s => changes'[t] = changes[t]
  BY DEF TypeOK
<1>4. ~overlapped' => \A t \in Slots : changes[t] = Idle
  OBVIOUS
<1>5. UnderWayIsStored'
  BY <1>3, <1>4 DEF UnderWayIsStored, Request
<1>6. AcceptedIsStored' /\ LoginWithStoredPassword'
  BY <1>3, <1>4 DEF AcceptedIsStored, LoginWithStoredPassword, Request, Idle
<1>7. QED  BY <1>1, <1>2, <1>5, <1>6

\* The server takes the password of the request as it is, however late.
LEMMA ServerChangesKeeps ==
    ASSUME IndInv, NEW s \in Slots, ServerChanges(s)
    PROVE  IndInv'
<1> USE DEF IndInv, ChangeInv, ServerChanges
<1>1. FindInv'
  BY FindUntouched
<1>2. TypeOK'
  BY DEF TypeOK, Requests, Idle, find
<1>3. /\ changes[s] # Idle /\ account' = changes[s].password
      /\ \A t \in Slots : changes'[t] # Idle =>
           changes[t] # Idle /\ changes'[t].password = changes[t].password
  BY DEF TypeOK, Requests, Idle
<1>4. UnderWayIsStored'
  BY <1>3 DEF UnderWayIsStored
<1>5. AcceptedIsStored' /\ LoginWithStoredPassword'
  BY <1>3 DEF UnderWayIsStored, AcceptedIsStored, LoginWithStoredPassword
<1>6. QED  BY <1>1, <1>2, <1>4, <1>5

\* The login screen becomes the root, or the failure is printed.
LEMMA ChangeEndsKeeps ==
    ASSUME IndInv, NEW s \in Slots, ChangeArrives(s) \/ ChangeFails(s)
    PROVE  IndInv'
<1> USE DEF IndInv, ChangeInv, ChangeArrives, ChangeFails
<1>1. FindInv'
  BY FindUntouched
<1>2. TypeOK'
  BY DEF TypeOK, Requests, Idle, find
<1>3. /\ \A t \in Slots : changes'[t] # Idle =>
           changes[t] # Idle /\ changes'[t].password = changes[t].password
      /\ \A t \in Slots : changes'[t].status = "accepted" => changes[t].status = "accepted"
  <2>1. changes \in [Slots -> Requests] /\ Idle.status = "idle" /\ changes[s] # Idle
    BY DEF TypeOK, Idle
  <2>2. CASE changes' = [changes EXCEPT ![s] = Idle]
    BY <2>1, <2>2
  <2>3. CASE changes' = [changes EXCEPT ![s].status = "forgotten"]
    BY <2>1, <2>3 DEF Requests
  <2>4. QED  BY <2>2, <2>3
<1>4. UnderWayIsStored' /\ AcceptedIsStored'
  BY <1>3 DEF UnderWayIsStored, AcceptedIsStored
<1>5. LoginWithStoredPassword'
  BY DEF AcceptedIsStored, LoginWithStoredPassword
<1>6. QED  BY <1>1, <1>2, <1>4, <1>5

---------------------------------------------------------------------------
\* The screens start empty and with nothing under way.
LEMMA InitEstablishes == Init => IndInv
<1> SUFFICES ASSUME Init PROVE IndInv
  OBVIOUS
<1> USE DEF Init
<1>1. Idle \in Requests /\ Idle.status = "idle"
  BY DEF Idle, Requests
<1>2. TypeOK
  BY <1>1 DEF TypeOK
<1>3. FindInv
  BY <1>1 DEF FindInv, ChecksAreForEmail, AcceptedIsVerified, OnlyResendingMisleads
<1>4. ChangeInv
  BY <1>1 DEF ChangeInv, UnderWayIsStored, AcceptedIsStored, LoginWithStoredPassword
<1>5. QED  BY <1>2, <1>3, <1>4 DEF IndInv

\* No tap, answer or failure of either screen breaks the invariant.
LEMMA NextKeeps == IndInv /\ [Next]_vars => IndInv'
<1> SUFFICES ASSUME IndInv, [Next]_vars PROVE IndInv'
  OBVIOUS
<1>1. CASE UNCHANGED vars
  BY <1>1 DEF vars, find, change, IndInv, TypeOK, FindInv, ChecksAreForEmail,
              AcceptedIsVerified, OnlyResendingMisleads, ChangeInv, UnderWayIsStored,
              AcceptedIsStored, LoginWithStoredPassword
<1>2. CASE \E text \in Emails : SendButtonTapped(text)
  BY <1>2, SendKeeps
<1>3. CASE \E s \in Slots : \/ ChangePasswordButtonTapped(s) \/ ServerVerifies(s)
                            \/ VerificationArrives(s) \/ VerificationFails(s)
                            \/ ServerChanges(s) \/ ChangeArrives(s) \/ ChangeFails(s)
  BY <1>3, CheckIsSentKeeps, ServerVerifiesKeeps, VerificationArrivesKeeps,
     VerificationFailsKeeps, ServerChangesKeeps, ChangeEndsKeeps
<1>4. CASE \E s \in Slots, text \in Texts, repeat \in Texts :
             ChangeCompleteButtonTapped(s, text, repeat)
  BY <1>4, ChangeIsSentKeeps
<1>5. QED  BY <1>1, <1>2, <1>3, <1>4 DEF Next

\* The inductive invariant holds of every behaviour of the two screens.
LEMMA Inductive == Spec => []IndInv
BY InitEstablishes, NextKeeps, PTL DEF Spec

\* The variables of the two screens, and the requests under way, keep their
\* types in every behaviour.
THEOREM TypeCorrect == Spec => []TypeOK
<1>1. IndInv => TypeOK
  BY DEF IndInv
<1>2. QED  BY <1>1, Inductive, PTL

\* ChangePasswordViewController is presented for an e-mail whose code the server
\* has accepted, unless sendButtonTapped has replaced the e-mail of a
\* verification under way.
THEOREM VerifiedUnlessResent == Spec => []OnlyResendingMisleads
<1>1. IndInv => OnlyResendingMisleads
  BY DEF IndInv, FindInv
<1>2. QED  BY <1>1, Inductive, PTL

\* changePawwordCompleteButtonTapped sends also when validateUserInfo has refused
\* the form; all the same, unless two changes overlap, the login screen comes back
\* with the stored password as the one of the account.
THEOREM LoginAfterChange == Spec => []LoginWithStoredPassword
<1>1. IndInv => LoginWithStoredPassword
  BY DEF IndInv, ChangeInv
<1>2. QED  BY <1>1, Inductive, PTL
=============================================================================
