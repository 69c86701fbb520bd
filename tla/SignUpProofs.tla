---------------------------- MODULE SignUpProofs ----------------------------
(***************************************************************************)
(* The invariants of SignUp, for any addresses, nicknames, passwords and   *)
(* number of requests in flight.                                           *)
(***************************************************************************)
EXTENDS SignUp, TLAPS

\* A request under way and what the server has done about it, so that what its
\* completion will show is true: acc are the accounts, a the addresses asked
\* for, v the verified ones, m the accounts made from the form.
GoodRequest(r, acc, a, v, m) ==
    /\ r \in Requests
    /\ r.kind \in {"send", "signup"} => r.sent.email \in Emails
    /\ r.kind = "signup" => /\ r.sent = r.entered
                            /\ FormIsValid(r.sent, r.sent.password)
    /\ r.reply = "exists" => r.sent.email \in a /\ r.sent.email \in acc
    /\ r.kind = "verify" /\ r.reply = "ok" => v # {}
    /\ r.kind = "block" => v # {}
    /\ r.kind = "signup" /\ r.reply = "ok" => m # {}

GoodNet(n, acc, a, v, m) ==
    n \in [Slots -> Requests] /\ \A s \in Slots : GoodRequest(n[s], acc, a, v, m)

FormOK ==
    /\ screen \in {"form", "login"}
    /\ email \in Emails \cup {Empty} /\ nickname \in Nicknames \cup {Empty}
    /\ password \in Passwords \cup {Empty}
    /\ isValidEmail \in BOOLEAN /\ checkEnabled \in BOOLEAN
    /\ emailError \in {"none", "format", "exists"}
    /\ codeLabel \in {"none", "check", "mismatch", "done"}

ServerOK ==
    /\ taken \subseteq Emails /\ made \subseteq Emails
    /\ coded \subseteq Emails /\ verified \subseteq Emails /\ asked \subseteq Emails

IndInv ==
    /\ FormOK
    /\ ServerOK
    /\ GoodNet(net, Accounts, asked, verified, made)
    /\ FormTellsTheTruth

---------------------------------------------------------------------------
(* Requests. *)

\* The server forgets nothing, so that a request stays good.
LEMMA GoodStaysGood ==
    ASSUME NEW r, NEW acc, NEW a, NEW v, NEW m, NEW acc2, NEW a2, NEW v2, NEW m2,
           GoodRequest(r, acc, a, v, m),
           acc \subseteq acc2, a \subseteq a2, v \subseteq v2, m \subseteq m2
    PROVE  GoodRequest(r, acc2, a2, v2, m2)
BY DEF GoodRequest

\* Sending or releasing puts one good request into a slot.
LEMMA GoodNetExcept ==
    ASSUME NEW n, NEW acc, NEW a, NEW v, NEW m, NEW acc2, NEW a2, NEW v2, NEW m2,
           GoodNet(n, acc, a, v, m),
           acc \subseteq acc2, a \subseteq a2, v \subseteq v2, m \subseteq m2,
           NEW s \in Slots, NEW r, GoodRequest(r, acc2, a2, v2, m2)
    PROVE  GoodNet([n EXCEPT ![s] = r], acc2, a2, v2, m2)
<1> DEFINE n2 == [n EXCEPT ![s] = r]
<1>1. r \in Requests /\ n \in [Slots -> Requests]
  BY DEF GoodRequest, GoodNet
<1>2. n2 \in [Slots -> Requests]
  BY <1>1
<1>3. ASSUME NEW q \in Slots PROVE GoodRequest(n2[q], acc2, a2, v2, m2)
  <2>1. CASE q = s
    BY <2>1, <1>1
  <2>2. CASE q # s
    <3>1. n2[q] = n[q]
      BY <2>2, <1>1
    <3>2. GoodRequest(n[q], acc, a, v, m)
      BY DEF GoodNet
    <3>3. QED  BY <3>1, <3>2, GoodStaysGood
  <2>3. QED  BY <2>1, <2>2
<1>4. QED  BY <1>2, <1>3 DEF GoodNet

\* A free slot promises nothing.
LEMMA IdleIsGood ==
    ASSUME NEW acc, NEW a, NEW v, NEW m
    PROVE  GoodRequest(Idle, acc, a, v, m)
BY DEF GoodRequest, Idle, Requests, Blank, Texts

\* The completions release their slot and keep the rest of the requests good.
LEMMA ReleaseKeepsNet ==
    ASSUME IndInv, NEW s \in Slots, Release(s), UNCHANGED server
    PROVE  GoodNet(net, Accounts, asked, verified, made)' /\ ServerOK'
<1>1. /\ Accounts = Accounts' /\ asked = asked'
      /\ verified = verified' /\ made = made'
  BY DEF server, Accounts
<1>2. GoodRequest(Idle, Accounts, asked, verified, made)
  BY IdleIsGood
<1>3. GoodNet([net EXCEPT ![s] = Idle], Accounts, asked, verified, made)
  BY <1>2, GoodNetExcept DEF IndInv
<1>4. QED  BY <1>1, <1>3 DEF Release, GoodNet, server, ServerOK, IndInv

\* The buttons put a request into a free slot.
LEMMA SendKeepsNet ==
    ASSUME IndInv, NEW s \in Slots, NEW r, Send(s, r), UNCHANGED server,
           GoodRequest(r, Accounts, asked, verified, made)
    PROVE  GoodNet(net, Accounts, asked, verified, made)' /\ ServerOK'
<1>1. /\ Accounts = Accounts' /\ asked = asked'
      /\ verified = verified' /\ made = made'
  BY DEF server, Accounts
<1>2. GoodNet([net EXCEPT ![s] = r], Accounts', asked', verified', made')
  BY <1>1, GoodNetExcept DEF IndInv
<1>3. QED  BY <1>2 DEF Send, GoodNet, server, ServerOK, IndInv

\* Nothing happens to the requests.
LEMMA SameNet ==
    ASSUME IndInv, UNCHANGED <<net, server>>
    PROVE  GoodNet(net, Accounts, asked, verified, made)' /\ ServerOK'
BY DEF IndInv, GoodNet, GoodRequest, FormIsValid, Accounts, server, ServerOK

---------------------------------------------------------------------------
(* The buttons. *)

\* emailVertifyButtonTapped only asks for a code to an address of the right form.
LEMMA EmailVertifyKeeps ==
    ASSUME IndInv, NEW text \in Emails \cup {Empty, Bad}, EmailVertifyButtonTapped(text)
    PROVE  IndInv'
<1> USE DEF EmailVertifyButtonTapped
<1>1. UNCHANGED server
  OBVIOUS
<1>2. FormOK'
  BY DEF IndInv, FormOK
<1>3. FormTellsTheTruth'
  BY DEF IndInv, FormTellsTheTruth, Accounts, server
<1>4. GoodNet(net, Accounts, asked, verified, made)' /\ ServerOK'
  <2>1. CASE text \in {Empty, Bad}
    <3>1. UNCHANGED net
      BY <2>1, SignUpAssumption
    <3>2. QED  BY <3>1, <1>1, SameNet
  <2>2. CASE text \in Emails
    <3> DEFINE r == Request("send", [Blank EXCEPT !.email = text], Blank)
    <3>1. PICK s \in Slots : Send(s, r)
      BY <2>2, SignUpAssumption
    <3>2. GoodRequest(r, Accounts, asked, verified, made)
      BY <2>2 DEF GoodRequest, Request, Requests, Blank, Texts
    <3>3. QED  BY <3>1, <3>2, <1>1, SendKeepsNet
  <2>3. QED  BY <2>1, <2>2
<1>5. QED  BY <1>2, <1>3, <1>4 DEF IndInv

\* vertifyCodeButtonTapped sends the stored address, which may still be empty.
LEMMA VertifyCodeKeeps ==
    ASSUME IndInv, NEW filled \in BOOLEAN, VertifyCodeButtonTapped(filled)
    PROVE  IndInv'
<1> USE DEF VertifyCodeButtonTapped
<1>1. UNCHANGED server
  OBVIOUS
<1>2. FormOK'
  BY DEF IndInv, FormOK, values
<1>3. FormTellsTheTruth'
  BY DEF IndInv, FormTellsTheTruth, Accounts, server
<1>4. GoodNet(net, Accounts, asked, verified, made)' /\ ServerOK'
  <2>1. CASE UNCHANGED net
    BY <2>1, <1>1, SameNet
  <2>2. CASE filled
    <3> DEFINE r == Request("verify", [Blank EXCEPT !.email = email], Blank)
    <3>1. PICK s \in Slots : Send(s, r)
      BY <2>2
    <3>2. GoodRequest(r, Accounts, asked, verified, made)
      BY DEF GoodRequest, Request, Requests, Blank, Texts, IndInv, FormOK
    <3>3. QED  BY <3>1, <3>2, <1>1, SendKeepsNet
  <2>3. QED  BY <2>1, <2>2
<1>5. QED  BY <1>2, <1>3, <1>4 DEF IndInv

\* validateUserInfo stores the four texts of this tap together, so that the
\* request carries them and nothing older.
LEMMA CompleteKeeps ==
    ASSUME IndInv, NEW t \in Texts, NEW repeat \in Passwords \cup {Empty, Bad},
           CompleteButtonTapped(t, repeat)
    PROVE  IndInv'
<1> USE DEF CompleteButtonTapped, ValidateUserInfo
<1>1. UNCHANGED server
  OBVIOUS
<1>2. FormOK'
  BY DEF IndInv, FormOK, FormIsValid, Texts
<1>3. FormTellsTheTruth'
  BY DEF IndInv, FormTellsTheTruth, Accounts, server
<1>4. GoodNet(net, Accounts, asked, verified, made)' /\ ServerOK'
  <2>1. CASE ~FormIsValid(t, repeat)
    BY <2>1, <1>1, SameNet
  <2>2. CASE FormIsValid(t, repeat)
    <3> DEFINE sent == [email |-> email', nickname |-> nickname', password |-> password']
               r == Request("signup", sent, t)
    <3>1. PICK s \in Slots : Send(s, r)
      BY <2>2
    <3>2. sent = t
      BY <2>2 DEF Texts
    <3>3. FormIsValid(t, t.password) /\ t.email \in Emails
      BY <2>2 DEF FormIsValid
    <3> HIDE DEF sent
    <3>4. GoodRequest(r, Accounts, asked, verified, made)
      BY <3>2, <3>3 DEF GoodRequest, Request, Requests
    <3>5. QED  BY <3>1, <3>4, <1>1, SendKeepsNet
  <2>3. QED  BY <2>1, <2>2
<1>5. QED  BY <1>2, <1>3, <1>4 DEF IndInv

---------------------------------------------------------------------------
(* The server. *)

\* An answer is true when it is given, and what it rests on stays.
LEMMA ServerAnswersKeeps ==
    ASSUME IndInv, NEW s \in Slots, ServerAnswers(s)
    PROVE  IndInv'
<1> DEFINE r == net[s]
           addr == net[s].sent.email
<1>1. /\ GoodRequest(r, Accounts, asked, verified, made) /\ r \in Requests
      /\ net \in [Slots -> Requests]
  BY DEF IndInv, GoodNet, GoodRequest
<1>2. r.kind \in {"send", "verify", "signup"}
  BY DEF ServerAnswers
<1>3. PICK answer \in {"ok", "exists", "mismatch", "refused"} :
        /\ net' = [net EXCEPT ![s] = IF r.reply = "unheard" THEN Idle
                                      ELSE [r EXCEPT !.reply = answer]]
        /\ answer = "exists" => r.kind # "verify" /\ addr \in Accounts
        /\ r.kind = "verify" /\ answer = "ok" => addr \in verified'
        /\ r.kind = "signup" /\ answer = "ok" => addr \in made'
  BY <1>1 DEF ServerAnswers, Answer
<1>4. /\ Accounts \subseteq Accounts' /\ asked \subseteq asked'
      /\ verified \subseteq verified' /\ made \subseteq made'
  BY DEF ServerAnswers, Accounts
<1>5. ServerOK'
  BY <1>1 DEF IndInv, ServerOK, ServerAnswers, GoodRequest
<1>6. FormOK' /\ FormTellsTheTruth'
  <2>1. UNCHANGED <<screen, values, labels>>
    BY DEF ServerAnswers
  <2>2. FormOK'
    BY <2>1 DEF IndInv, FormOK, values, labels
  <2>3. FormTellsTheTruth'
    BY <2>1, <1>4 DEF IndInv, FormTellsTheTruth, labels
  <2>4. QED  BY <2>2, <2>3
<1>7. GoodNet(net', Accounts', asked', verified', made')
  <2> DEFINE heard == [r EXCEPT !.reply = answer]
             r2 == IF r.reply = "unheard" THEN Idle ELSE heard
  <2>1. net' = [net EXCEPT ![s] = r2]
    BY <1>1, <1>3
  <2>2. r.kind # "verify" => addr \in asked'
    BY DEF ServerAnswers
  <2>3. /\ heard \in Requests /\ heard.reply = answer
        /\ heard.kind = r.kind /\ heard.sent = r.sent /\ heard.entered = r.entered
    BY <1>1 DEF Requests
  <2>4. r2 \in Requests /\ GoodRequest(r2, Accounts', asked', verified', made')
    <3>1. GoodRequest(heard, Accounts', asked', verified', made')
      BY <1>1, <1>2, <1>3, <1>4, <2>2, <2>3 DEF GoodRequest
    <3>2. Idle \in Requests /\ GoodRequest(Idle, Accounts', asked', verified', made')
      BY IdleIsGood DEF GoodRequest
    <3> HIDE DEF heard
    <3>3. QED  BY <2>3, <3>1, <3>2
  <2> HIDE DEF r2
  <2>5. GoodNet(net, Accounts, asked, verified, made)
    BY DEF IndInv
  <2>6. GoodNet([net EXCEPT ![s] = r2], Accounts', asked', verified', made')
    <3> DEFINE acc2 == Accounts'
               a2 == asked'
               v2 == verified'
               m2 == made'
    <3>1. /\ Accounts \subseteq acc2 /\ asked \subseteq a2
          /\ verified \subseteq v2 /\ made \subseteq m2
          /\ GoodRequest(r2, acc2, a2, v2, m2)
      BY <1>4, <2>4
    <3> HIDE DEF acc2, a2, v2, m2
    <3>2. ASSUME NEW q \in Slots PROVE GoodRequest(net[q], acc2, a2, v2, m2)
      <4>1. GoodRequest(net[q], Accounts, asked, verified, made)
        BY <2>5 DEF GoodNet
      <4>2. QED  BY <3>1, <4>1, GoodStaysGood
    <3>3. [net EXCEPT ![s] = r2] \in [Slots -> Requests]
      BY <1>1, <2>4
    <3>4. \A q \in Slots : GoodRequest([net EXCEPT ![s] = r2][q], acc2, a2, v2, m2)
      BY <1>1, <3>1, <3>2
    <3>5. GoodNet([net EXCEPT ![s] = r2], acc2, a2, v2, m2)
      BY <3>3, <3>4 DEF GoodNet
    <3>6. QED  BY <3>5 DEF acc2, a2, v2, m2
  <2>7. QED  BY <2>1, <2>6
<1>8. QED  BY <1>5, <1>6, <1>7 DEF IndInv

---------------------------------------------------------------------------
(* The completions. *)

\* "Exists" is shown on behalf of the address that the request was for.
LEMMA RefusalKeeps ==
    ASSUME IndInv, NEW s \in Slots,
           SendArrives(s) \/ VertifyRefused(s) \/ SignupRefused(s)
    PROVE  IndInv'
<1>1. GoodRequest(net[s], Accounts, asked, verified, made)
  BY DEF IndInv, GoodNet
<1>2. Release(s) /\ UNCHANGED server
  BY DEF SendArrives, VertifyRefused, SignupRefused
<1>3. /\ emailError' = IF net[s].reply = "exists" THEN "exists" ELSE emailError
      /\ isValidEmail' \in BOOLEAN
      /\ codeLabel' \in {codeLabel, "mismatch"}
      /\ UNCHANGED <<screen, values, checkEnabled>>
  BY DEF IndInv, FormOK, SendArrives, VertifyRefused, SignupRefused, HandleErrorMessage
<1>4. FormOK'
  BY <1>3 DEF IndInv, FormOK, values
<1>5. FormTellsTheTruth'
  BY <1>1, <1>2, <1>3 DEF IndInv, FormTellsTheTruth, GoodRequest, Accounts, server
<1>6. QED  BY <1>2, <1>4, <1>5, ReleaseKeepsNet DEF IndInv

\* An accepted code travels to the main queue in the same slot.
LEMMA VertifyArrivesKeeps ==
    ASSUME IndInv, NEW s \in Slots, VertifyArrives(s)
    PROVE  IndInv'
<1> DEFINE r == net[s]
           r2 == [r EXCEPT !.kind = "block"]
<1>1. /\ GoodRequest(r, Accounts, asked, verified, made) /\ r \in Requests
      /\ net \in [Slots -> Requests]
  BY DEF IndInv, GoodNet, GoodRequest
<1>2. net' = [net EXCEPT ![s] = r2] /\ UNCHANGED <<screen, values, labels, server>>
  BY <1>1 DEF VertifyArrives
<1>3. r2 \in Requests /\ r2.kind = "block" /\ r2.reply = "ok" /\ verified # {}
  BY <1>1 DEF Requests, VertifyArrives, Arrived, GoodRequest
<1>4. GoodRequest(r2, Accounts, asked, verified, made)
  BY <1>3 DEF GoodRequest
<1> HIDE DEF r2
<1>5. GoodNet([net EXCEPT ![s] = r2], Accounts, asked, verified, made)
  BY <1>4, GoodNetExcept DEF IndInv
<1>6. GoodNet(net, Accounts, asked, verified, made)' /\ ServerOK'
  BY <1>2, <1>5 DEF IndInv, ServerOK, server, Accounts
<1>7. FormOK' /\ FormTellsTheTruth'
  BY <1>2 DEF IndInv, FormOK, FormTellsTheTruth, values, labels, server, Accounts
<1>8. QED  BY <1>6, <1>7 DEF IndInv

\* The block disables the check button and says "done"; a code was accepted.
LEMMA VertifiedBlockKeeps ==
    ASSUME IndInv, NEW s \in Slots, VertifiedBlock(s)
    PROVE  IndInv'
<1>1. verified # {}
  BY DEF IndInv, GoodNet, GoodRequest, VertifiedBlock
<1>2. Release(s) /\ UNCHANGED server
  BY DEF VertifiedBlock
<1>3. FormOK'
  BY DEF VertifiedBlock, IndInv, FormOK, values
<1>4. FormTellsTheTruth'
  BY <1>1 DEF VertifiedBlock, IndInv, FormTellsTheTruth, Accounts, server
<1>5. QED  BY <1>2, <1>3, <1>4, ReleaseKeepsNet DEF IndInv

\* The form is dismissed only when the server has made an account.
LEMMA SignupArrivesKeeps ==
    ASSUME IndInv, NEW s \in Slots, SignupArrives(s)
    PROVE  IndInv'
<1>1. made # {}
  BY DEF IndInv, GoodNet, GoodRequest, SignupArrives, Arrived
<1>2. Release(s) /\ UNCHANGED server
  BY DEF SignupArrives
<1>3. FormOK'
  BY DEF SignupArrives, IndInv, FormOK, values, labels
<1>4. FormTellsTheTruth'
  BY <1>1 DEF SignupArrives, IndInv, FormTellsTheTruth, Accounts, server, labels
<1>5. QED  BY <1>2, <1>3, <1>4, ReleaseKeepsNet DEF IndInv

\* A failure only reaches the console; a request that has timed out may still be
\* carried out, but its answer is heard by nobody.
LEMMA RequestFailsKeeps ==
    ASSUME IndInv, NEW s \in Slots, RequestFails(s)
    PROVE  IndInv'
<1>1. UNCHANGED server
  BY DEF RequestFails
<1>2. FormOK' /\ FormTellsTheTruth'
  BY DEF RequestFails, IndInv, FormOK, FormTellsTheTruth, Accounts, server, labels, values
<1>3. CASE Release(s)
  BY <1>1, <1>2, <1>3, ReleaseKeepsNet DEF IndInv
<1>4. CASE net' = [net EXCEPT ![s].reply = "unheard"]
  <2> DEFINE r == net[s]
             r2 == [r EXCEPT !.reply = "unheard"]
  <2>1. /\ GoodRequest(r, Accounts, asked, verified, made) /\ r \in Requests
        /\ net \in [Slots -> Requests]
    BY DEF IndInv, GoodNet, GoodRequest
  <2>2. net' = [net EXCEPT ![s] = r2]
    BY <1>4, <2>1
  <2>3. /\ r2 \in Requests /\ r2.reply = "unheard"
        /\ r2.kind = r.kind /\ r2.sent = r.sent /\ r2.entered = r.entered
    BY <2>1 DEF Requests
  <2>4. r.kind # "block"
    BY DEF RequestFails
  <2>5. GoodRequest(r2, Accounts, asked, verified, made)
    BY <2>1, <2>3, <2>4 DEF GoodRequest
  <2> HIDE DEF r2
  <2>6. GoodNet([net EXCEPT ![s] = r2], Accounts, asked, verified, made)
    BY <2>5, GoodNetExcept DEF IndInv
  <2>7. GoodNet(net, Accounts, asked, verified, made)' /\ ServerOK'
    BY <1>1, <2>2, <2>6 DEF IndInv, ServerOK, server, Accounts
  <2>8. QED  BY <1>2, <2>7 DEF IndInv
<1>5. QED  BY <1>3, <1>4 DEF RequestFails

---------------------------------------------------------------------------
\* A fresh form has told nothing and asked nothing.
LEMMA InitEstablishes == Init => IndInv
<1> SUFFICES ASSUME Init PROVE IndInv
  OBVIOUS
<1>1. FormOK /\ ServerOK
  BY DEF Init, FormOK, ServerOK
<1>2. FormTellsTheTruth
  BY DEF Init, FormTellsTheTruth
<1>3. Idle \in Requests /\ GoodRequest(Idle, Accounts, asked, verified, made)
  BY IdleIsGood DEF GoodRequest
<1>4. GoodNet(net, Accounts, asked, verified, made)
  BY <1>3 DEF Init, GoodNet
<1>5. QED  BY <1>1, <1>2, <1>4 DEF IndInv

\* No tap, answer or completion breaks the invariant.
LEMMA NextKeeps == IndInv /\ [Next]_vars => IndInv'
<1> SUFFICES ASSUME IndInv, [Next]_vars PROVE IndInv'
  OBVIOUS
<1>1. CASE UNCHANGED vars
  <2>1. UNCHANGED <<net, server>>
    BY <1>1 DEF vars
  <2>2. FormOK' /\ FormTellsTheTruth'
    BY <1>1 DEF vars, values, labels, server, IndInv, FormOK, FormTellsTheTruth, Accounts
  <2>3. QED  BY <2>1, <2>2, SameNet DEF IndInv
<1>2. CASE \E text \in Emails \cup {Empty, Bad} : EmailVertifyButtonTapped(text)
  BY <1>2, EmailVertifyKeeps
<1>3. CASE \E filled \in BOOLEAN : VertifyCodeButtonTapped(filled)
  BY <1>3, VertifyCodeKeeps
<1>4. CASE \E t \in Texts, repeat \in Passwords \cup {Empty, Bad} :
             CompleteButtonTapped(t, repeat)
  BY <1>4, CompleteKeeps
<1>5. CASE \E s \in Slots :
             \/ ServerAnswers(s) \/ SendArrives(s) \/ VertifyArrives(s) \/ VertifiedBlock(s)
             \/ VertifyRefused(s) \/ SignupArrives(s) \/ SignupRefused(s) \/ RequestFails(s)
  BY <1>5, ServerAnswersKeeps, RefusalKeeps, VertifyArrivesKeeps, VertifiedBlockKeeps,
     SignupArrivesKeeps, RequestFailsKeeps
<1>6. QED  BY <1>1, <1>2, <1>3, <1>4, <1>5 DEF Next

\* The inductive invariant holds of every behaviour of the form.
LEMMA Inductive == Spec => []IndInv
BY InitEstablishes, NextKeeps, PTL DEF Spec

\* completeButtonTapped sends the texts of one tap, all of them valid, also when
\* emailVertifyButtonTapped has stored another address before.
THEOREM OnlyEnteredIsSent == Spec => []SentIsEntered
<1>1. IndInv => SentIsEntered
  BY DEF IndInv, GoodNet, GoodRequest, SentIsEntered
<1>2. QED  BY <1>1, Inductive, PTL

\* Whatever the order of the completions, "exists", "done", the disabled check
\* button and the dismissed form rest on what the server has done.
THEOREM NeverALie == Spec => []FormTellsTheTruth
<1>1. IndInv => FormTellsTheTruth
  BY DEF IndInv
<1>2. QED  BY <1>1, Inductive, PTL

---------------------------------------------------------------------------
(* After an accepted code. *)

\* Only a tap on the check button adds an address that can become verified: an
\* answer to a check that is under way, given up or not, adds nothing.
LEMMA NoNewCheck ==
    ASSUME IndInv, Next, ~(\E filled \in BOOLEAN : VertifyCodeButtonTapped(filled))
    PROVE  Verifiable' \subseteq Verifiable
<1>1. net \in [Slots -> Requests]
  BY DEF IndInv, GoodNet
<1>2. Idle.kind = "idle"
  BY DEF Idle
<1>3. /\ verified' \subseteq Verifiable
      /\ \A q \in Slots : net'[q].kind = "verify" =>
           net[q].kind = "verify" /\ net'[q].sent = net[q].sent
  <2>1. CASE \E text \in Emails \cup {Empty, Bad} : EmailVertifyButtonTapped(text)
    BY <1>1, <2>1 DEF EmailVertifyButtonTapped, Send, Request, server, Verifiable
  <2>2. CASE \E t \in Texts, repeat \in Passwords \cup {Empty, Bad} :
               CompleteButtonTapped(t, repeat)
    BY <1>1, <2>2 DEF CompleteButtonTapped, Send, Request, server, Verifiable
  <2>3. ASSUME NEW s \in Slots, ServerAnswers(s)
        PROVE  <1>3!1 /\ <1>3!2
    <3>1. PICK answer : net' = [net EXCEPT ![s] = IF net[s].reply = "unheard" THEN Idle
                                                  ELSE [net[s] EXCEPT !.reply = answer]]
      BY <1>1, <2>3 DEF ServerAnswers, Answer
    <3>2. \/ verified' = verified
          \/ net[s].kind = "verify" /\ verified' = verified \cup {net[s].sent.email}
      BY <2>3 DEF ServerAnswers, Answer
    <3>3. QED  BY <1>1, <1>2, <3>1, <3>2 DEF Verifiable, Requests
  <2>4. ASSUME NEW s \in Slots, VertifyArrives(s)
        PROVE  <1>3!1 /\ <1>3!2
    BY <1>1, <2>4 DEF VertifyArrives, Requests, server, Verifiable
  <2>5. ASSUME NEW s \in Slots, RequestFails(s)
        PROVE  <1>3!1 /\ <1>3!2
    <3>1. UNCHANGED server
      BY <2>5 DEF RequestFails
    <3>2. \/ net' = [net EXCEPT ![s] = Idle]
          \/ net' = [net EXCEPT ![s].reply = "unheard"]
      BY <2>5 DEF RequestFails, Release
    <3>3. QED  BY <1>1, <1>2, <3>1, <3>2 DEF Verifiable, server, Requests
  <2>6. ASSUME NEW s \in Slots,
               \/ SendArrives(s) \/ VertifiedBlock(s) \/ VertifyRefused(s)
               \/ SignupArrives(s) \/ SignupRefused(s)
        PROVE  <1>3!1 /\ <1>3!2
    <3>1. Release(s) /\ UNCHANGED server
      BY <2>6 DEF SendArrives, VertifiedBlock, VertifyRefused, SignupArrives, SignupRefused
    <3>2. QED  BY <1>1, <1>2, <3>1 DEF Verifiable, Release, server
  <2>7. QED  BY <2>1, <2>2, <2>3, <2>4, <2>5, <2>6 DEF Next
<1>4. QED  BY <1>3 DEF Verifiable

\* The check is closed for good by the first block that runs.
ClosedOK ==
    /\ closing \subseteq Emails \cup {Empty, Bad}
    /\ closing # {} => ~checkEnabled /\ Verifiable \subseteq closing

\* Nothing opens the check again, and without it nothing new can be verified.
LEMMA StaysClosed ==
    ASSUME IndInv, ClosedOK, Next
    PROVE  ClosedOK'
<1>1. CASE \E s \in Slots : VertifiedBlock(s)
  <2>1. /\ ~checkEnabled' /\ closing' = IF closing = {} THEN Verifiable ELSE closing
    BY <1>1 DEF VertifiedBlock
  <2>2. ~(\E filled \in BOOLEAN : VertifyCodeButtonTapped(filled))
    BY <2>1 DEF VertifyCodeButtonTapped
  <2>3. Verifiable' \subseteq Verifiable
    BY <2>2, NoNewCheck
  <2>4. Verifiable \subseteq Emails \cup {Empty, Bad}
    BY DEF Verifiable, IndInv, ServerOK, GoodNet, Requests, Texts
  <2>5. QED  BY <2>1, <2>3, <2>4 DEF ClosedOK
<1>2. CASE ~(\E s \in Slots : VertifiedBlock(s))
  <2>1. UNCHANGED <<closing, checkEnabled>>
    BY <1>2 DEF Next, EmailVertifyButtonTapped, VertifyCodeButtonTapped, CompleteButtonTapped,
                ServerAnswers, SendArrives, VertifyArrives, VertifyRefused, SignupArrives,
                SignupRefused, RequestFails, labels
  <2>2. CASE closing = {}
    BY <2>1, <2>2 DEF ClosedOK
  <2>3. CASE closing # {}
    <3>1. ~(\E filled \in BOOLEAN : VertifyCodeButtonTapped(filled))
      BY <2>3 DEF ClosedOK, VertifyCodeButtonTapped
    <3>2. Verifiable' \subseteq Verifiable
      BY <3>1, NoNewCheck
    <3>3. QED  BY <2>1, <2>3, <3>2 DEF ClosedOK
  <2>4. QED  BY <2>2, <2>3
<1>3. QED  BY <1>1, <1>2

\* It holds of every behaviour of the form.
LEMMA Closed == Spec => []ClosedOK
<1>1. Init => ClosedOK
  BY DEF Init, ClosedOK
<1>2. ClosedOK /\ UNCHANGED vars => ClosedOK'
  BY DEF ClosedOK, Verifiable, vars, labels, server
<1>3. IndInv /\ ClosedOK /\ [Next]_vars => ClosedOK'
  BY <1>2, StaysClosed
<1>4. QED  BY <1>1, <1>3, Inductive, PTL DEF Spec

\* Once the block of an accepted code has disabled emailVertifyCheckedButton, no
\* address is ever verified from this form whose check was not under way or
\* accepted at that moment, whatever is tapped and answered afterwards.
THEOREM NoCheckAfterSuccess == Spec => []CheckedForGood
<1>1. ClosedOK => CheckedForGood
  BY DEF ClosedOK, CheckedForGood, Verifiable
<1>2. QED  BY <1>1, Closed, PTL

\* The form's variables, the requests under way and the server keep their types.
THEOREM TypeCorrect == Spec => []TypeOK
<1>1. IndInv /\ ClosedOK => TypeOK
  BY DEF IndInv, ClosedOK, FormOK, ServerOK, GoodNet, TypeOK
<1>2. QED  BY <1>1, Inductive, Closed, PTL
=============================================================================
