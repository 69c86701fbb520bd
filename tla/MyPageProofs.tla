---------------------------- MODULE MyPageProofs ----------------------------
(***************************************************************************)
(* The invariants of the session and of my page, for any number of logins, *)
(* logouts, requests under way and changes.                                *)
(*                                                                         *)
(* The first part is about the steps of Session alone, which PageSpec takes *)
(* too; the second adds the pages.                                         *)
(***************************************************************************)
EXTENDS MyPage, SequenceTheorems, WellFoundedInduction, TLAPS

Access == keychain["AccessToken"]
Refresh == keychain["RefreshToken"]

\* The keychain calls that a login and a logout have left.
Put(k, v) == [key |-> k, value |-> v]
Login4(n) == <<Put("AccessToken", None), Put("AccessToken", n),
               Put("RefreshToken", None), Put("RefreshToken", n)>>
Login3(n) == <<Put("AccessToken", n), Put("RefreshToken", None), Put("RefreshToken", n)>>
Login2(n) == <<Put("RefreshToken", None), Put("RefreshToken", n)>>
Login1(n) == <<Put("RefreshToken", n)>>
Logout2 == <<Put("AccessToken", None), Put("RefreshToken", None)>>
Logout1 == <<Put("RefreshToken", None)>>

\* The completion of a login runs on the login screen; once the AccessToken is
\* written it is the one of this login.
LoginHandler ==
    /\ running.kind = "login" /\ root = "login"
    /\ running.session \in Logins /\ logins[running.session] = "closed"
    /\ \/ running.todo \in {Login4(running.session), Login3(running.session)}
       \/ /\ running.todo \in {Login2(running.session), Login1(running.session)}
          /\ Access = running.session

\* A logout of session x has been answered; two of them have.
Done(m, x) == logouts[m].status = "done" /\ logouts[m].session = x
Ended(x) == \E m \in Logouts : Done(m, x)
Repeated(x) == \E m, o \in Logouts : m # o /\ Done(m, x) /\ Done(o, x)

\* The completion of a logout runs on the home screen, or, if it is not the first
\* of its session, on the login screen.
LogoutHandler ==
    /\ running.kind = "logout" /\ root # "off"
    /\ running.session \in Logins /\ Ended(running.session)
    /\ running.todo = Logout2 \/ (running.todo = Logout1 /\ Access = None)
    /\ ~interrupted => \/ \A k \in Keys : keychain[k] \in {None, running.session}
                       \/ Repeated(running.session)

HandlerOK ==
    \/ running = NoHandler /\ (~interrupted => Access = Refresh)
    \/ LoginHandler
    \/ LogoutHandler

Active(m) == logouts[m].status \in {"sent", "granted"}

\* The home screen has no logins under way and keeps its RefreshToken until a
\* logout has the login screen scheduled; a stored token is of a login whose
\* answer has arrived.
RootOK ==
    /\ root = "off" => running = NoHandler /\ ~switchPending /\ \A m \in Logouts : ~Active(m)
    /\ root # "login" => \A n \in Logins : logins[n] \in {"unused", "closed"}
    /\ switchPending /\ root = "home" => Access = None
    /\ root = "home" /\ ~switchPending => Refresh # None
    /\ \A k \in Keys : keychain[k] # None => logins[keychain[k]] = "closed"

\* All logouts under way are of one session, whose AccessToken the home screen
\* holds; from the first answer to one of them on, that session has been ended.
LogoutsOK ==
    /\ \A m \in Logouts : Active(m) =>
         /\ logouts[m].session \in Logins /\ logins[logouts[m].session] = "closed"
         /\ root = "home" => Access \in {None, logouts[m].session}
         /\ root = "login" \/ switchPending \/ running.kind = "logout" => Ended(logouts[m].session)
    /\ \A m, o \in Logouts : Active(m) /\ Active(o) => logouts[m].session = logouts[o].session

\* The home screen is up without a RefreshToken.
TokenLost == root = "home" /\ Refresh = None

SessionInv == TypeOK /\ HandlerOK /\ RootOK /\ LogoutsOK

---------------------------------------------------------------------------
(* Keychain calls. *)

\* No login has the number that stands for "no token".
LEMMA NoneIsNoLogin == None \notin Logins
BY SessionAssumption DEF None, Logins

\* A list that begins with the write of v for k, and goes on with rest.
Begins(s, k, v, rest) == Head(s).key = k /\ Head(s).value = v /\ Tail(s) = rest

\* What one call takes off the list of a login or a logout.
LEMMA CallsLeft ==
    ASSUME NEW n
    PROVE  /\ Begins(Login4(n), "AccessToken", None, Login3(n)) /\ Login3(n) # <<>>
           /\ Begins(Login3(n), "AccessToken", n, Login2(n)) /\ Login2(n) # <<>>
           /\ Begins(Login2(n), "RefreshToken", None, Login1(n)) /\ Login1(n) # <<>>
           /\ Begins(Login1(n), "RefreshToken", n, <<>>)
           /\ Begins(Logout2, "AccessToken", None, Logout1) /\ Logout1 # <<>>
           /\ Begins(Logout1, "RefreshToken", None, <<>>)
BY DEF Login4, Login3, Login2, Login1, Logout2, Logout1, Put, Begins

\* Concatenation of short lists.
LEMMA ShortLists ==
    ASSUME NEW a, NEW b, NEW c, NEW d
    PROVE  /\ <<a>> \o <<b>> = <<a, b>>
           /\ <<a, b>> \o <<c, d>> = <<a, b, c, d>>
<1> DEFINE T == {a, b, c, d}
<1>1. <<a>> \in Seq(T) /\ <<b>> \in Seq(T) /\ <<a, b>> \in Seq(T) /\ <<c, d>> \in Seq(T)
      /\ <<a, b, c, d>> \in Seq(T)
  OBVIOUS
<1>2. <<a>> \o <<b>> = <<a, b>>
  <2> DEFINE s == <<a>> \o <<b>>
             t == <<a, b>>
  <2>1. s \in Seq(T) /\ Len(s) = 2 /\ s[1] = a /\ s[2] = b
    BY <1>1, ConcatProperties
  <2>2. t \in Seq(T) /\ Len(t) = 2 /\ t[1] = a /\ t[2] = b
    BY <1>1
  <2> HIDE DEF s, t, T
  <2>3. \A i \in 1 .. Len(s) : s[i] = t[i]
    BY <2>1, <2>2
  <2>4. s = t
    BY <2>1, <2>2, <2>3, SeqEqual
  <2>5. QED  BY <2>4 DEF s, t
<1>3. <<a, b>> \o <<c, d>> = <<a, b, c, d>>
  <2> DEFINE s == <<a, b>> \o <<c, d>>
             t == <<a, b, c, d>>
  <2>1. s \in Seq(T) /\ Len(s) = 4 /\ s[1] = a /\ s[2] = b /\ s[3] = c /\ s[4] = d
    BY <1>1, ConcatProperties
  <2>2. t \in Seq(T) /\ Len(t) = 4 /\ t[1] = a /\ t[2] = b /\ t[3] = c /\ t[4] = d
    BY <1>1
  <2> HIDE DEF s, t, T
  <2>3. \A i \in 1 .. Len(s) : s[i] = t[i]
    BY <2>1, <2>2
  <2>4. s = t
    BY <2>1, <2>2, <2>3, SeqEqual
  <2>5. QED  BY <2>4 DEF s, t
<1>4. QED  BY <1>2, <1>3

\* The lists as the completions make them.
LEMMA ListsAsMade ==
    ASSUME NEW n
    PROVE  /\ Save(n, "AccessToken") \o Save(n, "RefreshToken") = Login4(n)
           /\ Delete("AccessToken") \o Delete("RefreshToken") = Logout2
<1> DEFINE a == Put("AccessToken", None)
           b == Put("AccessToken", n)
           c == Put("RefreshToken", None)
           d == Put("RefreshToken", n)
<1>1. /\ Delete("AccessToken") = <<a>> /\ Delete("RefreshToken") = <<c>>
      /\ Save(n, "AccessToken") = <<a>> \o <<b>> /\ Save(n, "RefreshToken") = <<c>> \o <<d>>
  BY DEF Delete, Save, Put
<1>2. Login4(n) = <<a, b, c, d>> /\ Logout2 = <<a, c>>
  BY DEF Login4, Logout2
<1> HIDE DEF a, b, c, d
<1>3. <<a>> \o <<b>> = <<a, b>>
  BY ShortLists
<1>4. <<c>> \o <<d>> = <<c, d>>
  BY ShortLists
<1>5. <<a>> \o <<c>> = <<a, c>>
  BY ShortLists
<1>6. <<a, b>> \o <<c, d>> = <<a, b, c, d>>
  BY ShortLists
<1>7. Save(n, "AccessToken") \o Save(n, "RefreshToken") = Login4(n)
  BY <1>1, <1>2, <1>3, <1>4, <1>6, Zenon
<1>8. Delete("AccessToken") \o Delete("RefreshToken") = Logout2
  BY <1>1, <1>2, <1>5, Zenon
<1>9. QED  BY <1>7, <1>8

\* They are lists of keychain writes.
LEMMA ListsAreWrites ==
    ASSUME NEW n \in Logins
    PROVE  /\ Login4(n) \in Writes /\ Login3(n) \in Writes /\ Login2(n) \in Writes
           /\ Login1(n) \in Writes /\ Logout2 \in Writes /\ Logout1 \in Writes
BY DEF Login4, Login3, Login2, Login1, Logout2, Logout1, Writes, Put, Keys

\* Nothing is running for nobody.
LEMMA NoHandlerType ==
    /\ NoHandler \in [kind: {"none", "login", "logout"}, session: {None} \cup Logins, todo: Writes]
    /\ NoHandler.kind = "none" /\ NoHandler.todo = <<>>
BY DEF NoHandler, Writes

\* What the logouts have done is told by their records.
LEMMA SameLogouts ==
    ASSUME logouts' = logouts
    PROVE  /\ \A x : (Ended(x)' <=> Ended(x)) /\ (Repeated(x)' <=> Repeated(x))
           /\ \A m \in Logouts : Active(m)' <=> Active(m)
BY DEF Ended, Repeated, Done, Active

\* One keychain call of a login: until the last one the completion stays, after
\* it both tokens are of this login.
LEMMA LoginCallKeeps ==
    ASSUME SessionInv, KeychainCall, LoginHandler
    PROVE  SessionInv'
<1> DEFINE n == running.session
<1>1. n \in Logins /\ logins[n] = "closed" /\ n # None /\ root = "login" /\ running.kind = "login"
  BY NoneIsNoLogin DEF LoginHandler
<1>2. /\ UNCHANGED <<root, logins, logouts>>
      /\ interrupted' = (interrupted /\ Tail(running.todo) # <<>>)
      /\ switchPending' = (switchPending \/ (Tail(running.todo) = <<>> /\ running.kind = "logout"))
      /\ running' = IF Tail(running.todo) = <<>> THEN NoHandler
                    ELSE [running EXCEPT !.todo = Tail(running.todo)]
      /\ keychain' = [keychain EXCEPT ![Head(running.todo).key] = Head(running.todo).value]
  BY DEF KeychainCall, requests
<1>3. switchPending' = switchPending /\ interrupted' \in BOOLEAN
  BY <1>1, <1>2 DEF SessionInv, TypeOK
<1>4. \/ /\ running.todo = Login4(n) /\ Access' = None /\ Refresh' = Refresh
         /\ running' = [running EXCEPT !.todo = Login3(n)]
      \/ /\ running.todo = Login3(n) /\ Access' = n /\ Refresh' = Refresh
         /\ running' = [running EXCEPT !.todo = Login2(n)]
      \/ /\ running.todo = Login2(n) /\ Access' = n /\ Refresh' = None
         /\ running' = [running EXCEPT !.todo = Login1(n)]
      \/ /\ running.todo = Login1(n) /\ Access' = n /\ Refresh' = n
         /\ running' = NoHandler
  <2>1. CASE running.todo = Login4(n)
    <3>1. Begins(running.todo, "AccessToken", None, Login3(n)) /\ Login3(n) # <<>>
      BY <2>1, CallsLeft
    <3>2. QED  BY <1>2, <2>1, <3>1 DEF Begins, Access, Refresh, SessionInv, TypeOK, Keys
  <2>2. CASE running.todo = Login3(n)
    <3>1. Begins(running.todo, "AccessToken", n, Login2(n)) /\ Login2(n) # <<>>
      BY <2>2, CallsLeft
    <3>2. QED  BY <1>2, <2>2, <3>1 DEF Begins, Access, Refresh, SessionInv, TypeOK, Keys
  <2>3. CASE running.todo = Login2(n) /\ Access = n
    <3>1. Begins(running.todo, "RefreshToken", None, Login1(n)) /\ Login1(n) # <<>>
      BY <2>3, CallsLeft
    <3>2. QED  BY <1>2, <2>3, <3>1 DEF Begins, Access, Refresh, SessionInv, TypeOK, Keys
  <2>4. CASE running.todo = Login1(n) /\ Access = n
    <3>1. Begins(running.todo, "RefreshToken", n, <<>>)
      BY <2>4, CallsLeft
    <3>2. QED  BY <1>2, <2>4, <3>1 DEF Begins, Access, Refresh, SessionInv, TypeOK, Keys
  <2>5. QED  BY <2>1, <2>2, <2>3, <2>4 DEF LoginHandler
<1>5. /\ keychain' \in [Keys -> {None} \cup Logins]
      /\ \A k \in Keys : keychain'[k] \in {keychain[k], None, n}
  <2>1. keychain' = [k \in Keys |-> keychain'[k]]
    BY <1>2 DEF SessionInv, TypeOK
  <2>2. \A k \in Keys : keychain'[k] \in {keychain[k], None, n}
    BY <1>4 DEF Access, Refresh, Keys
  <2>3. QED  BY <1>1, <2>1, <2>2 DEF SessionInv, TypeOK
<1>6. /\ running' \in [kind: {"none", "login", "logout"}, session: {None} \cup Logins, todo: Writes]
      /\ running' = NoHandler \/ /\ running'.kind = "login" /\ running'.session = n
                                 /\ running'.todo \in {Login3(n), Login2(n), Login1(n)}
  BY <1>1, <1>4, ListsAreWrites, NoHandlerType DEF SessionInv, TypeOK
<1>7. TypeOK'
  BY <1>2, <1>3, <1>5, <1>6 DEF SessionInv, TypeOK
<1>8. HandlerOK'
  <2>1. CASE running' = NoHandler
    BY <1>1, <1>4, <2>1, NoHandlerType DEF HandlerOK
  <2>2. CASE running' # NoHandler
    <3>1. LoginHandler'
      BY <1>1, <1>2, <1>4, <2>2 DEF LoginHandler, SessionInv, TypeOK
    <3>2. QED  BY <3>1 DEF HandlerOK
  <2>3. QED  BY <2>1, <2>2
<1>9. RootOK'
  BY <1>1, <1>2, <1>3, <1>5 DEF SessionInv, RootOK, Active
<1>10. LogoutsOK'
  BY <1>1, <1>2, <1>3, <1>6, NoHandlerType DEF SessionInv, LogoutsOK, Active, Ended, Done
<1>11. QED  BY <1>7, <1>8, <1>9, <1>10 DEF SessionInv

\* One keychain call of a logout: the last one deletes the RefreshToken and has
\* the login screen scheduled in the same completion.
LEMMA LogoutCallKeeps ==
    ASSUME SessionInv, KeychainCall, LogoutHandler
    PROVE  SessionInv'
<1> DEFINE n == running.session
<1>1. n \in Logins /\ root # "off" /\ running.kind = "logout" /\ Ended(n)
  BY DEF LogoutHandler
<1>2. /\ UNCHANGED <<root, logins, logouts>>
      /\ interrupted' = (interrupted /\ Tail(running.todo) # <<>>)
      /\ switchPending' = (switchPending \/ (Tail(running.todo) = <<>> /\ running.kind = "logout"))
      /\ running' = IF Tail(running.todo) = <<>> THEN NoHandler
                    ELSE [running EXCEPT !.todo = Tail(running.todo)]
      /\ keychain' = [keychain EXCEPT ![Head(running.todo).key] = Head(running.todo).value]
  BY DEF KeychainCall, requests
<1>0. interrupted' \in BOOLEAN /\ (interrupted => interrupted' \/ running' = NoHandler)
  BY <1>2 DEF SessionInv, TypeOK
<1>3. \/ /\ running.todo = Logout2 /\ Access' = None /\ Refresh' = Refresh
         /\ running' = [running EXCEPT !.todo = Logout1] /\ switchPending' = switchPending
      \/ /\ running.todo = Logout1 /\ Access' = None /\ Refresh' = None
         /\ running' = NoHandler /\ switchPending' = TRUE
  <2>1. CASE running.todo = Logout2
    <3>1. Begins(running.todo, "AccessToken", None, Logout1) /\ Logout1 # <<>>
      BY <2>1, CallsLeft
    <3>2. QED  BY <1>2, <2>1, <3>1 DEF Begins, Access, Refresh, SessionInv, TypeOK, Keys
  <2>2. CASE running.todo = Logout1 /\ Access = None
    <3>1. Begins(running.todo, "RefreshToken", None, <<>>)
      BY <2>2, CallsLeft
    <3>2. QED  BY <1>1, <1>2, <2>2, <3>1 DEF Begins, Access, Refresh, SessionInv, TypeOK, Keys
  <2>3. QED  BY <2>1, <2>2 DEF LogoutHandler
<1>4. /\ keychain' \in [Keys -> {None} \cup Logins]
      /\ \A k \in Keys : keychain'[k] \in {keychain[k], None}
  <2>1. keychain' = [k \in Keys |-> keychain'[k]]
    BY <1>2 DEF SessionInv, TypeOK
  <2>2. \A k \in Keys : keychain'[k] \in {keychain[k], None}
    BY <1>3 DEF Access, Refresh, Keys
  <2>3. QED  BY <1>1, <2>1, <2>2 DEF SessionInv, TypeOK
<1>5. /\ running' \in [kind: {"none", "login", "logout"}, session: {None} \cup Logins, todo: Writes]
      /\ running' = NoHandler \/ /\ running'.kind = "logout" /\ running'.session = n
                                 /\ running'.todo = Logout1
  BY <1>1, <1>3, ListsAreWrites, NoHandlerType DEF SessionInv, TypeOK
<1>6. TypeOK'
  BY <1>0, <1>2, <1>3, <1>4, <1>5 DEF SessionInv, TypeOK
<1>7. HandlerOK'
  <2>1. CASE running' = NoHandler
    BY <1>1, <1>3, <2>1, NoHandlerType DEF HandlerOK, SessionInv, TypeOK
  <2>2. CASE running' # NoHandler
    <3>1. ~interrupted' => \/ \A k \in Keys : keychain'[k] \in {None, n}
                           \/ Repeated(n)
      BY <1>0, <1>4, <2>2 DEF LogoutHandler
    <3>2. \A x : (Ended(x)' <=> Ended(x)) /\ (Repeated(x)' <=> Repeated(x))
      BY <1>2, SameLogouts
    <3>4. running'.session = n /\ running'.kind = "logout" /\ running'.todo = Logout1 /\ Access' = None
      BY <1>3, <1>5, <2>2
    <3>5. LogoutHandler'
      BY <1>1, <1>2, <3>1, <3>2, <3>4 DEF LogoutHandler
    <3>3. QED  BY <3>5 DEF HandlerOK
  <2>3. QED  BY <2>1, <2>2
<1>8. RootOK'
  BY <1>1, <1>2, <1>3, <1>4 DEF SessionInv, RootOK, Active
<1>9. LogoutsOK'
  BY <1>1, <1>2, <1>3, SameLogouts DEF SessionInv, LogoutsOK, Ended, Done, Active
<1>10. QED  BY <1>6, <1>7, <1>8, <1>9 DEF SessionInv

\* No other completion makes keychain calls.
LEMMA KeychainCallKeeps ==
    ASSUME SessionInv, KeychainCall
    PROVE  SessionInv'
<1>1. running # NoHandler
  BY NoHandlerType DEF KeychainCall
<1>2. QED  BY <1>1, LoginCallKeeps, LogoutCallKeeps DEF SessionInv, HandlerOK

---------------------------------------------------------------------------
(* Requests. *)

\* The steps of a login request while no completion is running.
LEMMA LoginRequestKeeps ==
    ASSUME SessionInv, NEW n \in Logins, LoginTapped(n) \/ LoginFails(n)
    PROVE  SessionInv'
<1>1. /\ UNCHANGED <<keychain, root, running, switchPending, logouts, interrupted>>
      /\ running = NoHandler /\ logins[n] # "closed"
      /\ \/ logins' = [logins EXCEPT ![n] = "sent"] /\ root = "login"
         \/ logins' = [logins EXCEPT ![n] = "closed"]
  BY DEF LoginTapped, LoginFails, Ready, NextLogin
<1>2. TypeOK'
  BY <1>1 DEF SessionInv, TypeOK, Status
<1>3. \A o \in Logins : logins[o] = "closed" => logins'[o] = "closed"
  BY <1>1 DEF SessionInv, TypeOK
<1>4. HandlerOK'
  BY <1>1, NoHandlerType DEF SessionInv, HandlerOK, LoginHandler, LogoutHandler, Access, Refresh,
                       Ended, Repeated, Done
<1>5. RootOK'
  BY <1>1, <1>3 DEF SessionInv, TypeOK, RootOK, Active, Access, Refresh
<1>6. LogoutsOK'
  BY <1>1, <1>3 DEF SessionInv, LogoutsOK, Active, Ended, Done, Access
<1>7. QED  BY <1>2, <1>4, <1>5, <1>6 DEF SessionInv

\* No token under way or stored is of the new session.
LEMMA ServerGrantsKeeps ==
    ASSUME SessionInv, NEW n \in Logins, ServerGrants(n)
    PROVE  SessionInv'
<1>1. /\ UNCHANGED <<keychain, root, running, switchPending, logouts, interrupted>>
      /\ logins[n] = "sent" /\ logins' = [logins EXCEPT ![n] = "granted"]
  BY DEF ServerGrants
<1>2. TypeOK'
  BY <1>1 DEF SessionInv, TypeOK, Status
<1>3. \A o \in Logins : logins[o] = "closed" => logins'[o] = "closed" /\ o # n
  BY <1>1 DEF SessionInv, TypeOK
<1>4. HandlerOK'
  BY <1>1, <1>3 DEF SessionInv, HandlerOK, LoginHandler, LogoutHandler, Access, Refresh,
                       Ended, Repeated, Done
<1>5. RootOK'
  BY <1>1, <1>3 DEF SessionInv, TypeOK, RootOK, Active, Access, Refresh
<1>6. LogoutsOK'
  BY <1>1, <1>3 DEF SessionInv, LogoutsOK, Active, Ended, Done, Access
<1>7. QED  BY <1>2, <1>4, <1>5, <1>6 DEF SessionInv

\* The answer to a login arrives on the login screen.
LEMMA LoginArrivesKeeps ==
    ASSUME SessionInv, NEW n \in Logins, LoginArrives(n)
    PROVE  SessionInv'
<1>1. /\ UNCHANGED <<keychain, root, switchPending, logouts, interrupted>>
      /\ running = NoHandler /\ root # "off" /\ logins[n] = "granted"
      /\ logins' = [logins EXCEPT ![n] = "closed"]
      /\ running' = [kind |-> "login", session |-> n, todo |-> Login4(n)]
  BY ListsAsMade DEF LoginArrives, Ready
<1>2. root = "login"
  BY <1>1 DEF SessionInv, RootOK, TypeOK
<1>3. TypeOK'
  BY <1>1, ListsAreWrites DEF SessionInv, TypeOK, Status
<1>4. \A o \in Logins : logins[o] = "closed" => logins'[o] = "closed"
  BY <1>1 DEF SessionInv, TypeOK
<1>5. LoginHandler'
  BY <1>1, <1>2 DEF LoginHandler, SessionInv, TypeOK
<1>6. RootOK'
  BY <1>1, <1>2, <1>4 DEF SessionInv, TypeOK, RootOK, Active, Access, Refresh
<1>7. LogoutsOK'
  BY <1>1, <1>2, <1>4 DEF SessionInv, LogoutsOK, Active, Access, Ended, Done
<1>8. QED  BY <1>3, <1>5, <1>6, <1>7 DEF SessionInv, HandlerOK

\* A logout is asked for with the AccessToken that the logouts under way carry.
LEMMA LogoutTappedKeeps ==
    ASSUME SessionInv, NEW m \in Logouts, LogoutButtonTapped(m)
    PROVE  SessionInv'
<1>1. /\ UNCHANGED <<keychain, root, running, switchPending, logins, interrupted>>
      /\ running = NoHandler /\ root = "home" /\ Access # None
      /\ logouts[m].status = "unused"
      /\ logouts' = [logouts EXCEPT ![m] = [status |-> "sent", session |-> Access]]
  BY DEF LogoutButtonTapped, NextLogout, Ready, Access
<1>2. Access \in Logins /\ logins[Access] = "closed" /\ ~switchPending
  BY <1>1 DEF SessionInv, TypeOK, RootOK, Access, Keys
<1>3. TypeOK'
  BY <1>1, <1>2 DEF SessionInv, TypeOK, Status
<1>4. HandlerOK'
  BY <1>1 DEF SessionInv, HandlerOK, LoginHandler, LogoutHandler, Access, Refresh,
                       Ended, Repeated, Done
<1>5. RootOK'
  BY <1>1 DEF SessionInv, TypeOK, RootOK, Active, Access, Refresh
<1>6. /\ \A o \in Logouts : o # m => logouts'[o] = logouts[o]
      /\ logouts'[m].status = "sent" /\ logouts'[m].session = Access /\ Access' = Access
  BY <1>1 DEF SessionInv, TypeOK, Access
<1>7. LogoutsOK'
  BY <1>1, <1>2, <1>6, NoHandlerType DEF SessionInv, LogoutsOK, Active
<1>8. QED  BY <1>3, <1>4, <1>5, <1>7 DEF SessionInv

\* A logout under way stays under way when the server grants it.
LEMMA ServerEndsKeeps ==
    ASSUME SessionInv, NEW m \in Logouts, ServerEndsSession(m)
    PROVE  SessionInv'
<1>1. /\ UNCHANGED <<keychain, root, running, switchPending, logins, interrupted>>
      /\ logouts[m].status = "sent"
      /\ logouts' = [logouts EXCEPT ![m].status = "granted"]
      /\ Access' = Access /\ Refresh' = Refresh
  BY DEF ServerEndsSession, Access, Refresh
<1>2. TypeOK'
  BY <1>1 DEF SessionInv, TypeOK, Status
<1>3. /\ \A o \in Logouts : o # m => logouts'[o] = logouts[o]
      /\ logouts'[m].status = "granted" /\ logouts'[m].session = logouts[m].session
  BY <1>1 DEF SessionInv, TypeOK
<1>4. /\ \A o \in Logouts : \A x : Done(o, x)' <=> Done(o, x)
      /\ \A o \in Logouts : Active(o)' <=> Active(o)
  BY <1>1, <1>3 DEF Done, Active
<1>5. HandlerOK'
  BY <1>1, <1>4 DEF SessionInv, HandlerOK, LoginHandler, LogoutHandler, Ended, Repeated
<1>6. RootOK'
  BY <1>1, <1>4 DEF SessionInv, RootOK
<1>7. LogoutsOK'
  BY <1>1, <1>3, <1>4 DEF SessionInv, LogoutsOK, Ended
<1>8. QED  BY <1>2, <1>5, <1>6, <1>7 DEF SessionInv

\* The completion of a logout begins with the keychain of its session if the home
\* screen is up.  On the login screen it is not the first one of its session.
LEMMA LogoutArrivesKeeps ==
    ASSUME SessionInv, NEW m \in Logouts, LogoutArrives(m)
    PROVE  SessionInv'
<1> DEFINE x == logouts[m].session
<1>1. /\ UNCHANGED <<keychain, root, switchPending, logins, interrupted>>
      /\ running = NoHandler /\ root # "off" /\ logouts[m].status = "granted"
      /\ logouts' = [logouts EXCEPT ![m].status = "done"]
      /\ running' = [kind |-> "logout", session |-> x, todo |-> Logout2]
      /\ Access' = Access /\ Refresh' = Refresh
  BY ListsAsMade DEF LogoutArrives, Ready, Access, Refresh
<1>2. /\ Active(m) /\ x \in Logins
      /\ root = "home" => Access \in {None, x}
      /\ root = "login" => Ended(x)
  BY <1>1 DEF SessionInv, LogoutsOK, Active
<1>3. TypeOK'
  BY <1>1, <1>2, ListsAreWrites DEF SessionInv, TypeOK, Status
<1>4. /\ \A o \in Logouts : o # m => logouts'[o] = logouts[o]
      /\ logouts'[m].status = "done" /\ logouts'[m].session = x
  BY <1>1 DEF SessionInv, TypeOK
<1>5. Ended(x)' /\ (Ended(x) => Repeated(x)')
  <2>1. \A o \in Logouts : Done(o, x) => o # m /\ Done(o, x)'
    BY <1>1, <1>4 DEF Done
  <2>2. Done(m, x)'
    BY <1>4 DEF Done
  <2>3. QED  BY <2>1, <2>2 DEF Ended, Repeated
<1>6. ~interrupted /\ root = "home" => \A k \in Keys : keychain[k] \in {None, x}
  BY <1>1, <1>2, NoHandlerType
     DEF SessionInv, HandlerOK, LoginHandler, LogoutHandler, Access, Refresh, Keys
<1>7. LogoutHandler'
  <2>1. root \in {"home", "login"}
    BY <1>1 DEF SessionInv, TypeOK
  <2>2. ~interrupted => (\A k \in Keys : keychain[k] \in {None, x}) \/ Repeated(x)'
    BY <1>2, <1>5, <1>6, <2>1
  <2>3. QED  BY <1>1, <1>2, <1>5, <2>2 DEF LogoutHandler, Ended, Repeated, Done
<1>8. /\ \A o \in Logouts : Active(o)' => Active(o) /\ o # m
      /\ \A o \in Logouts : Active(o)' => logouts'[o] = logouts[o]
  BY <1>4 DEF Active
<1>9. RootOK'
  BY <1>1, <1>8 DEF SessionInv, RootOK
<1>10. LogoutsOK'
  <2>1. \A o \in Logouts : Active(o)' => logouts'[o].session = x
    BY <1>2, <1>8 DEF SessionInv, LogoutsOK
  <2>2. \A o \in Logouts : Active(o)' => Ended(logouts[o].session)'
    BY <1>4, <1>5, <1>8, <2>1 DEF Ended, Done
  <2>3. QED  BY <1>1, <1>4, <1>5, <1>8, <2>1 DEF SessionInv, LogoutsOK, Ended, Done
<1>11. QED  BY <1>3, <1>7, <1>9, <1>10 DEF SessionInv, HandlerOK

\* A failure closes the request and nothing else.
LEMMA LogoutFailsKeeps ==
    ASSUME SessionInv, NEW m \in Logouts, LogoutFails(m)
    PROVE  SessionInv'
<1>1. /\ UNCHANGED <<keychain, root, running, switchPending, logins, interrupted>>
      /\ logouts[m].status \in {"sent", "granted"}
      /\ logouts' = [logouts EXCEPT ![m] = Closed]
      /\ Access' = Access /\ Refresh' = Refresh
  BY DEF LogoutFails, Access, Refresh
<1>2. TypeOK'
  BY <1>1 DEF SessionInv, TypeOK, Status, Closed
<1>3. /\ \A o \in Logouts : o # m => logouts'[o] = logouts[o]
      /\ logouts'[m].status = "closed"
  BY <1>1 DEF SessionInv, TypeOK, Closed
<1>4. /\ \A o \in Logouts : \A x : Done(o, x)' <=> Done(o, x)
      /\ \A o \in Logouts : Active(o)' => Active(o) /\ logouts'[o] = logouts[o]
  BY <1>1, <1>3 DEF Done, Active
<1>5. HandlerOK'
  BY <1>1, <1>4 DEF SessionInv, HandlerOK, LoginHandler, LogoutHandler, Ended, Repeated
<1>6. RootOK'
  BY <1>1, <1>4 DEF SessionInv, RootOK
<1>7. LogoutsOK'
  BY <1>1, <1>4 DEF SessionInv, LogoutsOK, Ended
<1>8. QED  BY <1>2, <1>5, <1>6, <1>7 DEF SessionInv

---------------------------------------------------------------------------
(* The process. *)

\* The login screen comes up when a logout has deleted both tokens, or once more
\* after the second of two.
LEMMA SwitchRootKeeps ==
    ASSUME SessionInv, SwitchRoot
    PROVE  SessionInv'
<1>1. /\ UNCHANGED <<keychain, running, logins, logouts, interrupted>>
      /\ running = NoHandler /\ switchPending /\ root' = "login" /\ switchPending' = FALSE
      /\ Access' = Access /\ Refresh' = Refresh
  BY DEF SwitchRoot, Ready, requests, Access, Refresh
<1>2. TypeOK'
  BY <1>1 DEF SessionInv, TypeOK
<1>3. HandlerOK'
  BY <1>1, NoHandlerType DEF SessionInv, HandlerOK, LoginHandler, LogoutHandler
<1>4. RootOK'
  BY <1>1 DEF SessionInv, RootOK, Active
<1>5. LogoutsOK'
  BY <1>1, SameLogouts DEF SessionInv, LogoutsOK
<1>6. QED  BY <1>2, <1>3, <1>4, <1>5 DEF SessionInv

\* SceneDelegate shows the home screen only with a RefreshToken.
LEMMA WillConnectKeeps ==
    ASSUME SessionInv, WillConnect
    PROVE  SessionInv'
<1>1. /\ UNCHANGED <<keychain, running, switchPending, logins, logouts, interrupted>>
      /\ root = "off" /\ root' = IF Refresh # None THEN "home" ELSE "login"
      /\ Access' = Access /\ Refresh' = Refresh
  BY DEF WillConnect, requests, Access, Refresh
<1>2. running = NoHandler /\ \A m \in Logouts : ~Active(m)
  BY <1>1 DEF SessionInv, RootOK
<1>3. TypeOK'
  BY <1>1 DEF SessionInv, TypeOK
<1>4. HandlerOK'
  BY <1>1, <1>2, NoHandlerType DEF SessionInv, HandlerOK, LoginHandler, LogoutHandler
<1>5. RootOK'
  BY <1>1, <1>2 DEF SessionInv, RootOK, Active
<1>6. LogoutsOK'
  BY <1>1, <1>2, NoHandlerType DEF SessionInv, LogoutsOK, Active
<1>7. QED  BY <1>3, <1>4, <1>5, <1>6 DEF SessionInv

\* With the process go the requests under way; a completion that was cut short
\* is remembered.
LEMMA KilledKeeps ==
    ASSUME SessionInv, Killed
    PROVE  SessionInv'
<1>1. /\ UNCHANGED keychain /\ root' = "off" /\ running' = NoHandler
      /\ switchPending' = FALSE /\ interrupted' = (interrupted \/ running # NoHandler)
      /\ Access' = Access /\ Refresh' = Refresh
      /\ logins' = [n \in Logins |-> IF logins[n] = "unused" THEN "unused" ELSE "closed"]
      /\ logouts' = [m \in Logouts |-> IF logouts[m].status = "unused" THEN logouts[m]
                                       ELSE Closed]
  BY DEF Killed, Access, Refresh
<1>2. TypeOK'
  BY <1>1, NoHandlerType DEF SessionInv, TypeOK, Status, Closed
<1>3. HandlerOK'
  BY <1>1, NoHandlerType DEF SessionInv, HandlerOK, LoginHandler, LogoutHandler
<1>4. \A m \in Logouts : logouts'[m].status \in {"unused", "closed"}
  BY <1>1 DEF SessionInv, TypeOK, Closed
<1>5. RootOK'
  BY <1>1, <1>4 DEF SessionInv, TypeOK, RootOK, Active
<1>6. LogoutsOK'
  BY <1>1, <1>4 DEF LogoutsOK, Active
<1>7. QED  BY <1>2, <1>3, <1>5, <1>6 DEF SessionInv

---------------------------------------------------------------------------
\* A new installation has no tokens and no requests.
LEMMA SessionInit == Init => SessionInv
<1> SUFFICES ASSUME Init PROVE SessionInv
  OBVIOUS
<1>1. TypeOK
  BY NoHandlerType DEF Init, TypeOK, Status
<1>2. HandlerOK /\ RootOK /\ LogoutsOK
  BY NoHandlerType DEF Init, HandlerOK, RootOK, LogoutsOK, Active, Access, Refresh, Keys
<1>3. QED  BY <1>1, <1>2 DEF SessionInv

\* No step of the session, and no step that leaves it alone, breaks the invariant.
LEMMA SessionNext == SessionInv /\ [Next]_vars => SessionInv'
<1> SUFFICES ASSUME SessionInv, [Next]_vars PROVE SessionInv'
  OBVIOUS
<1>1. CASE UNCHANGED vars
  <2>1. UNCHANGED <<keychain, root, running, switchPending, logins, logouts, interrupted>>
    BY <1>1 DEF vars, requests
  <2>2. TypeOK'
    BY <2>1 DEF SessionInv, TypeOK
  <2>3. HandlerOK'
    BY <2>1 DEF SessionInv, HandlerOK, LoginHandler, LogoutHandler, Access, Refresh,
                       Ended, Repeated, Done
  <2>4. RootOK' /\ LogoutsOK'
    BY <2>1 DEF SessionInv, RootOK, LogoutsOK, Active, Access, Refresh, Ended, Done
  <2>5. QED  BY <2>2, <2>3, <2>4 DEF SessionInv
<1>2. CASE KeychainCall \/ SwitchRoot \/ WillConnect \/ Killed
  BY <1>2, KeychainCallKeeps, SwitchRootKeeps, WillConnectKeeps, KilledKeeps
<1>3. CASE \E n \in Logins : \/ LoginTapped(n) \/ ServerGrants(n)
                             \/ LoginArrives(n) \/ LoginFails(n)
  BY <1>3, LoginRequestKeeps, ServerGrantsKeeps, LoginArrivesKeeps
<1>4. CASE \E m \in Logouts : \/ LogoutButtonTapped(m) \/ ServerEndsSession(m)
                              \/ LogoutArrives(m) \/ LogoutFails(m)
  BY <1>4, LogoutTappedKeeps, ServerEndsKeeps, LogoutArrivesKeeps, LogoutFailsKeeps
<1>5. QED  BY <1>1, <1>2, <1>3, <1>4 DEF Next

---------------------------------------------------------------------------
(* The requests of the pages. *)

CallType ==
    [kind: {"idle", "fetch"} \cup Forms, token: {None} \cup Logins, mine: BOOLEAN,
     newest: BOOLEAN, old: {Wrong} \cup Versions, same: BOOLEAN,
     reply: {"none", "ok", "wrong", "same"}, value: Versions]

\* A free slot is empty; an answered nickname is one that the server has had; a
\* password entered as the current one has been it, and is not any more if the
\* server calls it wrong.
GoodCall(r, nick, pwd) ==
    /\ r \in CallType
    /\ r.kind = "idle" => r = Idle
    /\ r.kind = "nickname" => r.value <= nick
    /\ r.kind = "password" => /\ r.old = Wrong \/ r.old <= pwd
                              /\ r.reply = "wrong" => r.old = Wrong \/ r.old < pwd

GoodCalls(cs, nick, pwd) ==
    cs \in [Slots -> CallType] /\ \A c \in Slots : GoodCall(cs[c], nick, pwd)

\* A form in the stack, or leaving it, waits for the answer.
Live(cs, c) == cs[c].kind \in Forms /\ cs[c].mine

Speaks(cs, token) == \A c \in Slots : cs[c].mine => cs[c].token = token

\* The answer to the newest fetch knows every nickname that closed its form.
Fresh(cs, least) ==
    \A c \in Slots : cs[c].kind = "fetch" /\ cs[c].mine /\ cs[c].newest /\ cs[c].reply = "ok"
                         => cs[c].value >= least

\* The answers to the fetches of the page know this nickname.
Recent(cs, least) ==
    \A c \in Slots : cs[c].kind = "fetch" /\ cs[c].mine /\ cs[c].reply = "ok" => cs[c].value >= least

Fetching(cs, c) == cs[c].kind = "fetch" /\ cs[c].mine

PagesTyped ==
    /\ screen \in {"home", "my"} \cup Forms /\ leaving \in BOOLEAN
    /\ label \in Labels
    /\ errors \subseteq {"wrong", "same"}
    /\ nickname \in Versions /\ password \in Versions /\ known \in Versions
    /\ overlap \in BOOLEAN /\ lost \in BOOLEAN
    /\ known <= nickname

\* What is under way on the home screen, and what its label shows.
HomeOK ==
    root = "home" /\ Refresh # None =>
        /\ Speaks(calls, Refresh)
        /\ Fresh(calls, known)
        /\ screen = "my" /\ label.newest => label.value >= known

\* What my page shows, or will show, is not older than what was known when it was
\* opened; a page that is closed shows nothing any more.
LabelOK ==
    /\ label.seen <= known
    /\ label.value # Blank => label.value >= label.seen
    /\ Recent(calls, label.seen)
    /\ screen = "home" => \A c \in Slots : ~Fetching(calls, c)

\* A form's request outlives the form only during the animation; two of them, or
\* one during the animation, are an overlap.
StackOK ==
    /\ leaving => screen \notin Forms
    /\ screen \notin Forms /\ ~leaving => \A c \in Slots : ~Live(calls, c)
    /\ \A c, d \in Slots : Live(calls, c) /\ Live(calls, d) /\ c # d => overlap
    /\ leaving => \A c \in Slots : Live(calls, c) => overlap
    /\ lost => overlap /\ screen = "home"
    /\ root # "home" => screen = "home" /\ ~leaving /\ \A c \in Slots : ~calls[c].mine

PagesInv ==
    PagesTyped /\ GoodCalls(calls, nickname, password) /\ HomeOK /\ LabelOK /\ StackOK
PageInv == SessionInv /\ PagesInv

\* Numbers of changes are natural numbers, Wrong is none of them.
LEMMA VersionsAreNumbers == Versions \subseteq Nat /\ Wrong \notin Versions /\ 0 \in Versions
BY PageAssumption DEF Versions, Wrong

\* An empty slot.
LEMMA IdleIsGood ==
    ASSUME NEW nick \in Nat, NEW pwd
    PROVE  GoodCall(Idle, nick, pwd) /\ Idle.kind = "idle" /\ Idle.mine = FALSE
BY VersionsAreNumbers DEF GoodCall, CallType, Idle, Forms

\* A request of cs2 is one of cs, forgotten or not to be shown any more.
Fades(cs, cs2) ==
    /\ cs2 \in [Slots -> CallType]
    /\ \A c \in Slots :
         \/ cs2[c] = Idle
         \/ /\ cs2[c].kind = cs[c].kind /\ cs2[c].old = cs[c].old
            /\ cs2[c].same = cs[c].same /\ cs2[c].reply = cs[c].reply
            /\ cs2[c].value = cs[c].value /\ cs2[c].token \in {None, cs[c].token}
            /\ cs2[c].mine => cs[c].mine /\ cs2[c].token = cs[c].token
            /\ cs2[c].newest => cs[c].newest

\* Requests that fade keep what is said of them.
LEMMA FadingKeeps ==
    ASSUME NEW cs, NEW cs2, Fades(cs, cs2), NEW nick \in Nat, NEW pwd, GoodCalls(cs, nick, pwd)
    PROVE  /\ GoodCalls(cs2, nick, pwd)
           /\ \A token : Speaks(cs, token) => Speaks(cs2, token)
           /\ \A least : Fresh(cs, least) => Fresh(cs2, least)
           /\ \A least : Recent(cs, least) => Recent(cs2, least)
           /\ \A c \in Slots : Fetching(cs2, c) => Fetching(cs, c)
           /\ \A c \in Slots : Live(cs2, c) => Live(cs, c)
           /\ \A c \in Slots : cs2[c].mine => cs[c].mine
<1>0. Idle.mine = FALSE /\ Idle.kind = "idle" /\ Idle \in CallType
  BY IdleIsGood DEF GoodCall
<1>1. ASSUME NEW c \in Slots PROVE GoodCall(cs2[c], nick, pwd)
  <2>1. CASE cs2[c] = Idle
    BY <2>1, IdleIsGood
  <2>2. CASE cs2[c] # Idle
    <3>1. /\ GoodCall(cs[c], nick, pwd) /\ cs2[c] \in CallType
          /\ cs2[c].kind = cs[c].kind /\ cs2[c].token \in {None, cs[c].token}
          /\ cs2[c].old = cs[c].old
          /\ cs2[c].same = cs[c].same /\ cs2[c].reply = cs[c].reply
          /\ cs2[c].value = cs[c].value
          /\ cs2[c].mine => cs[c].mine
          /\ cs2[c].newest => cs[c].newest
      BY <2>2 DEF Fades, GoodCalls
    <3>2. cs2[c].kind # "idle"
      <4> SUFFICES ASSUME cs2[c].kind = "idle" PROVE FALSE
        OBVIOUS
      <4>1. cs[c] = Idle
        BY <3>1 DEF GoodCall
      <4>2. cs2[c].mine = FALSE /\ cs2[c].newest = FALSE
        BY <3>1, <4>1 DEF Idle, CallType
      <4>3. cs2[c] = [kind |-> cs2[c].kind, token |-> cs2[c].token, mine |-> cs2[c].mine,
                      newest |-> cs2[c].newest, old |-> cs2[c].old, same |-> cs2[c].same,
                      reply |-> cs2[c].reply, value |-> cs2[c].value]
        BY <3>1 DEF CallType
      <4>4. /\ cs[c].kind = "idle" /\ cs[c].token = None /\ cs[c].old = Wrong
            /\ cs[c].same = FALSE /\ cs[c].reply = "none" /\ cs[c].value = 0
        BY <4>1 DEF Idle
      <4>5. cs2[c] = [kind |-> "idle", token |-> None, mine |-> FALSE, newest |-> FALSE,
                      old |-> Wrong, same |-> FALSE, reply |-> "none", value |-> 0]
        BY <3>1, <4>2, <4>3, <4>4, Zenon
      <4>6. QED  BY <2>2, <4>5 DEF Idle
    <3>3. QED  BY <3>1, <3>2 DEF GoodCall
  <2>3. QED  BY <2>1, <2>2
<1>2. GoodCalls(cs2, nick, pwd)
  BY <1>1 DEF GoodCalls, Fades
<1>3. \A c \in Slots : cs2[c].mine => /\ cs[c].mine /\ cs2[c].kind = cs[c].kind
                                      /\ cs2[c].token = cs[c].token
                                      /\ cs2[c].reply = cs[c].reply
                                      /\ cs2[c].value = cs[c].value
                                      /\ cs2[c].newest => cs[c].newest
  BY <1>0 DEF Fades
<1>4. QED  BY <1>2, <1>3 DEF Speaks, Fresh, Recent, Fetching, Live

\* A completion closes its request.
LEMMA CloseFades ==
    ASSUME NEW cs \in [Slots -> CallType], NEW c \in Slots
    PROVE  Fades(cs, [cs EXCEPT ![c] = Idle])
<1>1. Idle \in CallType
  BY IdleIsGood DEF GoodCall
<1>2. QED  BY <1>1 DEF Fades

\* A controller leaves the stack.
LEMMA AbandonFades ==
    ASSUME NEW cs \in [Slots -> CallType], NEW kinds
    PROVE  /\ Fades(cs, Abandon(cs, kinds))
           /\ \A c \in Slots : Abandon(cs, kinds)[c].mine => cs[c].kind \notin kinds
<1>1. Idle \in CallType /\ Idle.mine = FALSE
  BY IdleIsGood DEF GoodCall
<1>2. Abandon(cs, kinds) \in [Slots -> CallType]
  <2>1. \A c \in Slots : [cs[c] EXCEPT !.mine = FALSE, !.token = None] \in CallType
    BY DEF CallType
  <2>2. QED  BY <1>1, <2>1 DEF Abandon
<1>3. ASSUME NEW c \in Slots
      PROVE  /\ Abandon(cs, kinds)[c] = Idle \/ Abandon(cs, kinds)[c] = cs[c]
                \/ Abandon(cs, kinds)[c] = [cs[c] EXCEPT !.mine = FALSE, !.token = None]
             /\ cs[c].kind \in kinds => Abandon(cs, kinds)[c] = Idle
                               \/ Abandon(cs, kinds)[c] = [cs[c] EXCEPT !.mine = FALSE, !.token = None]
  BY DEF Abandon
<1>4. ASSUME NEW c \in Slots
      PROVE  LET r == [cs[c] EXCEPT !.mine = FALSE, !.token = None]
             IN  /\ r.kind = cs[c].kind /\ r.token = None /\ r.old = cs[c].old
                 /\ r.same = cs[c].same /\ r.reply = cs[c].reply /\ r.value = cs[c].value
                 /\ r.mine = FALSE /\ r.newest = cs[c].newest
  BY DEF CallType
<1>5. QED  BY <1>1, <1>2, <1>3, <1>4 DEF Fades

\* The first free slot is a free slot.
LEMMA FreeIsFree ==
    ASSUME NEW cs, FreeIn(cs) # {}
    PROVE  Free(cs) \in Slots /\ cs[Free(cs)] = Idle
<1>1. FreeIn(cs) \in SUBSET Nat
  BY PageAssumption DEF FreeIn, Slots
<1>2. \E c \in FreeIn(cs) : \A d \in FreeIn(cs) : c <= d
  <2>1. PICK c \in FreeIn(cs) : \A d \in FreeIn(cs) : ~(<<d, c>> \in OpToRel(<, Nat))
    BY <1>1, WFMin, NatLessThanWellFounded
  <2>2. \A d \in FreeIn(cs) : ~(d < c)
    BY <1>1, <2>1 DEF OpToRel
  <2>3. QED  BY <1>1, <2>2
<1>3. Free(cs) \in FreeIn(cs)
  BY <1>2 DEF Free
<1>4. QED  BY <1>3 DEF FreeIn

\* fetchUserInfo takes a free slot for a fetch with the stored token, next to which
\* no other fetch is the newest; or it does nothing.
LEMMA FetchKeeps ==
    ASSUME SessionInv, NEW cs, NEW nick \in Nat, NEW pwd, GoodCalls(cs, nick, pwd),
           NEW c \in Slots, cs[c] = Idle
    PROVE  LET cs2 == FetchUserInfo(cs, c)
           IN  /\ GoodCalls(cs2, nick, pwd)
               /\ \A d \in Slots : Live(cs2, d) => Live(cs, d)
               /\ \A least : Recent(cs, least) => Recent(cs2, least)
               /\ Refresh # None => /\ Speaks(cs, Refresh) => Speaks(cs2, Refresh)
                                    /\ \A least : Fresh(cs2, least)
<1> DEFINE cs2 == FetchUserInfo(cs, c)
<1>1. CASE Refresh = None
  <2>1. cs2 = cs
    BY <1>1 DEF FetchUserInfo, Refresh
  <2>2. QED  BY <1>1, <2>1
<1>2. CASE Refresh # None
  <2> DEFINE r == [Idle EXCEPT !.kind = "fetch", !.mine = TRUE, !.newest = TRUE,
                               !.token = Refresh]
             old(d) == [cs[d] EXCEPT !.newest = FALSE]
  <2>1. cs2 = [d \in Slots |-> IF d = c THEN r ELSE old(d)]
    BY <1>2 DEF FetchUserInfo, Refresh
  <2>2. /\ r \in CallType /\ r.kind = "fetch" /\ r.mine = TRUE /\ r.token = Refresh
        /\ r.reply = "none"
    BY VersionsAreNumbers DEF Idle, CallType, SessionInv, TypeOK, Refresh, Keys
  <2>3. \A d \in Slots : cs[d] \in CallType
    BY DEF GoodCalls
  <2>4. ASSUME NEW d \in Slots
        PROVE  /\ old(d) \in CallType /\ old(d).kind = cs[d].kind /\ old(d).mine = cs[d].mine
               /\ old(d).token = cs[d].token /\ old(d).newest = FALSE /\ old(d).old = cs[d].old
               /\ old(d).same = cs[d].same /\ old(d).reply = cs[d].reply
               /\ old(d).value = cs[d].value
    BY <2>3 DEF CallType
  <2> DEFINE faded == [d \in Slots |-> IF d = c THEN Idle ELSE old(d)]
  <2>5. Idle \in CallType /\ Idle.mine = FALSE
    BY IdleIsGood DEF GoodCall
  <2> HIDE DEF r, old
  <2>6. Fades(cs, faded)
    BY <2>4, <2>5 DEF Fades
  <2>7. GoodCalls(faded, nick, pwd) /\ (Speaks(cs, Refresh) => Speaks(faded, Refresh))
    BY <2>6, FadingKeeps
  <2>8. \A d \in Slots : d # c => cs2[d] = faded[d]
    BY <2>1
  <2>9. cs2[c] = r /\ cs2 \in [Slots -> CallType]
    BY <2>1, <2>2, <2>4
  <2>10. GoodCall(r, nick, pwd)
    BY <2>2 DEF GoodCall
  <2> HIDE DEF cs2, faded
  <2>11. GoodCalls(cs2, nick, pwd)
    BY <2>7, <2>8, <2>9, <2>10 DEF GoodCalls
  <2>12. Speaks(cs, Refresh) => Speaks(cs2, Refresh)
    BY <2>2, <2>7, <2>8, <2>9 DEF Speaks
  <2>13. \A d \in Slots : d # c => cs2[d].newest = FALSE /\ (Live(cs2, d) => Live(cs, d))
    <3>1. \A d \in Slots : d # c => cs2[d] = old(d)
      BY <2>8 DEF faded
    <3>2. QED  BY <2>4, <3>1 DEF Live
  <2>14. ~Live(cs2, c)
    BY <2>2, <2>9 DEF Live, Forms
  <2>15. \A least : Fresh(cs2, least)
    BY <2>2, <2>9, <2>13 DEF Fresh
  <2>17. \A least : Recent(cs, least) => Recent(cs2, least)
    <3>1. \A least : Recent(cs, least) => Recent(faded, least)
      BY <2>6, FadingKeeps
    <3>2. QED  BY <2>2, <2>8, <2>9, <3>1 DEF Recent
  <2>16. QED  BY <2>11, <2>12, <2>13, <2>14, <2>15, <2>17 DEF cs2
<1>3. QED  BY <1>1, <1>2

---------------------------------------------------------------------------
(* Leaving a screen. *)

\* A page that has gone: nothing is shown and nothing will be.
LEMMA NoLabelOK ==
    ASSUME label' = NoLabel, known' \in Nat, calls' \in [Slots -> CallType],
           \A c \in Slots : ~Fetching(calls', c)
    PROVE  LabelOK'
<1>1. label'.seen = 0 /\ label'.value = Blank
  BY DEF NoLabel
<1>2. Recent(calls', label'.seen)
  BY DEF Recent, Fetching
<1>3. QED  BY <1>1, <1>2 DEF LabelOK, Fetching

\* The label before any answer has its type.
LEMMA NoLabelType == NoLabel \in Labels /\ NoLabel.newest = FALSE /\ NoLabel.value = Blank
BY VersionsAreNumbers DEF NoLabel, Labels, Blank

\* Steps of the pages see one root and one keychain.
LEMMA SameSession ==
    ASSUME UNCHANGED vars
    PROVE  root' = root /\ keychain' = keychain /\ Refresh' = Refresh
BY DEF vars, Refresh

\* A form is popped and my page fetches: the label waits for that fetch.
LEMMA PopFormKeeps ==
    ASSUME PageInv, UNCHANGED <<vars, account, lost>>, NEW cs, Fades(calls, cs), PopForm(cs),
           screen \in Forms, known' \in Versions, known <= known', known' <= nickname,
           overlap' \in BOOLEAN,
           \A c \in Slots : Live(cs, c) => overlap'
    PROVE  PagesInv'
<1>0. nickname \in Nat /\ known \in Nat /\ known' \in Nat
  BY VersionsAreNumbers DEF PageInv, PagesInv, PagesTyped
<1>1. /\ root' = root /\ Refresh' = Refresh /\ root = "home"
      /\ nickname' = nickname /\ password' = password
  BY SameSession DEF PageInv, PagesInv, StackOK, Forms, account
<1>2. PICK c \in Slots : cs[c] = Idle /\ calls' = FetchUserInfo(cs, c)
  BY FreeIsFree DEF PopForm
<1>3. /\ GoodCalls(cs, nickname, password)
      /\ \A token : Speaks(calls, token) => Speaks(cs, token)
      /\ \A least : Recent(calls, least) => Recent(cs, least)
  BY <1>0, FadingKeeps DEF PageInv, PagesInv
<1>4. /\ GoodCalls(calls', nickname, password)
      /\ \A d \in Slots : Live(calls', d) => Live(cs, d)
      /\ \A least : Recent(cs, least) => Recent(calls', least)
      /\ Refresh # None => /\ Speaks(cs, Refresh) => Speaks(calls', Refresh)
                           /\ \A least : Fresh(calls', least)
  BY <1>0, <1>2, <1>3, FetchKeeps DEF PageInv
<1>5. /\ screen' = "my" /\ leaving' = TRUE /\ errors' = {}
      /\ label' = [label EXCEPT !.newest = (@ /\ Refresh = None)]
  BY DEF PopForm, Refresh
<1>6. PagesTyped'
  BY <1>1, <1>5 DEF PageInv, PagesInv, PagesTyped, Labels
<1>10. LabelOK'
  <2>1. label'.seen = label.seen /\ label'.value = label.value /\ label.seen \in Nat
    BY <1>5, VersionsAreNumbers DEF PageInv, PagesInv, PagesTyped, Labels
  <2>2. label'.seen <= known'
    BY <1>0, <2>1 DEF PageInv, PagesInv, LabelOK
  <2>3. QED  BY <1>3, <1>4, <1>5, <2>1, <2>2 DEF PageInv, PagesInv, LabelOK
<1>7. HomeOK'
  <2>1. Refresh # None => label'.newest = FALSE
    BY <1>5 DEF PageInv, PagesInv, PagesTyped, Labels
  <2>2. QED  BY <1>1, <1>3, <1>4, <2>1 DEF PageInv, PagesInv, HomeOK
<1>8. StackOK'
  BY <1>1, <1>4, <1>5 DEF PageInv, PagesInv, StackOK, Forms, Live
<1>9. QED  BY <1>1, <1>4, <1>6, <1>7, <1>8, <1>10 DEF PagesInv

\* My page is popped: its fetches show nowhere any more.
LEMMA PopMyPageKeeps ==
    ASSUME PageInv, UNCHANGED <<vars, account, leaving, errors, known, overlap>>,
           NEW cs, Fades(calls, cs), PopMyPage(cs), screen = "my", lost' \in BOOLEAN,
           lost' => overlap
    PROVE  PagesInv'
<1>0. nickname \in Nat
  BY VersionsAreNumbers DEF PageInv, PagesInv, PagesTyped
<1>1. /\ root' = root /\ Refresh' = Refresh /\ root = "home"
      /\ nickname' = nickname /\ password' = password
  BY SameSession DEF PageInv, PagesInv, StackOK, Forms, account
<1>2. /\ GoodCalls(cs, nickname, password) /\ cs \in [Slots -> CallType]
      /\ \A token : Speaks(calls, token) => Speaks(cs, token)
      /\ \A least : Fresh(calls, least) => Fresh(cs, least)
      /\ \A c \in Slots : Live(cs, c) => Live(calls, c)
  BY <1>0, FadingKeeps DEF PageInv, PagesInv, Fades
<1>3. calls' = Abandon(cs, {"fetch"}) /\ Fades(cs, calls') /\ screen' = "home" /\ label' = NoLabel
      /\ \A c \in Slots : calls'[c].mine => cs[c].kind # "fetch"
  BY <1>2, AbandonFades DEF PopMyPage
<1>4. /\ GoodCalls(calls', nickname, password)
      /\ \A token : Speaks(cs, token) => Speaks(calls', token)
      /\ \A least : Fresh(cs, least) => Fresh(calls', least)
      /\ \A c \in Slots : Live(calls', c) => Live(cs, c)
      /\ \A c \in Slots : Fetching(calls', c) => Fetching(cs, c)
  BY <1>0, <1>2, <1>3, FadingKeeps
<1>5. PagesTyped'
  BY <1>1, <1>3, NoLabelType DEF PageInv, PagesInv, PagesTyped
<1>6. HomeOK'
  BY <1>1, <1>2, <1>3, <1>4, NoLabelType DEF PageInv, PagesInv, HomeOK
<1>10. LabelOK'
  <2>1. known' \in Nat /\ calls' \in [Slots -> CallType]
    BY <1>4, VersionsAreNumbers DEF PageInv, PagesInv, PagesTyped, GoodCalls
  <2>2. \A c \in Slots : ~Fetching(calls', c)
    BY <1>3, <1>4 DEF Fetching
  <2>3. QED  BY <1>3, <2>1, <2>2, NoLabelOK
<1>7. \A c \in Slots : Live(calls', c) => Live(calls, c)
  BY <1>2, <1>4
<1>8. StackOK'
  BY <1>1, <1>3, <1>7 DEF PageInv, PagesInv, StackOK, Forms
<1>9. QED  BY <1>1, <1>4, <1>5, <1>6, <1>8, <1>10 DEF PagesInv

---------------------------------------------------------------------------
(* The steps of the pages. *)

\* What an answer may make of the label.
GoodLabel(l) ==
    /\ l \in Labels /\ l.seen = label.seen
    /\ l.value # Blank => l.value >= label.seen
    /\ root = "home" /\ Refresh # None /\ screen = "my" /\ l.newest => l.value >= known

\* The label as it is.
LEMMA LabelIsGood == PageInv => GoodLabel(label)
BY DEF PageInv, PagesInv, PagesTyped, HomeOK, LabelOK, GoodLabel

\* Requests end, the screens stay.
LEMMA FadingPagesKeep ==
    ASSUME PageInv, UNCHANGED <<vars, stack, account, history>>, Fades(calls, calls'),
           GoodLabel(label'), errors' \subseteq {"wrong", "same"}
    PROVE  PagesInv'
<1>0. nickname \in Nat
  BY VersionsAreNumbers DEF PageInv, PagesInv, PagesTyped
<1>1. /\ root' = root /\ Refresh' = Refresh
      /\ UNCHANGED <<screen, leaving, nickname, password, known, overlap, lost>>
  BY SameSession DEF account, history, stack
<1>2. /\ GoodCalls(calls', nickname, password)
      /\ \A token : Speaks(calls, token) => Speaks(calls', token)
      /\ \A least : Fresh(calls, least) => Fresh(calls', least)
      /\ \A least : Recent(calls, least) => Recent(calls', least)
      /\ \A c \in Slots : Fetching(calls', c) => Fetching(calls, c)
      /\ \A c \in Slots : Live(calls', c) => Live(calls, c)
      /\ \A c \in Slots : calls'[c].mine => calls[c].mine
  BY <1>0, FadingKeeps DEF PageInv, PagesInv
<1>3. PagesTyped'
  BY <1>1 DEF PageInv, PagesInv, PagesTyped, GoodLabel
<1>4. HomeOK'
  BY <1>1, <1>2 DEF PageInv, PagesInv, HomeOK, GoodLabel
<1>7. LabelOK'
  BY <1>1, <1>2 DEF PageInv, PagesInv, LabelOK, GoodLabel
<1>5. StackOK'
  BY <1>1, <1>2 DEF PageInv, PagesInv, StackOK
<1>6. QED  BY <1>1, <1>2, <1>3, <1>4, <1>5, <1>7 DEF PagesInv

\* Closing a request is one way of fading.
LEMMA ClosedFades ==
    ASSUME PageInv, NEW c \in Slots
    PROVE  /\ Fades(calls, Close(c))
           /\ \A d \in Slots : Live(Close(c), d) => Live(calls, d) /\ d # c
<1>1. calls \in [Slots -> CallType]
  BY DEF PageInv, PagesInv, GoodCalls
<1>2. Idle.mine = FALSE
  BY IdleIsGood
<1>3. QED  BY <1>1, <1>2, CloseFades DEF Close, Live

\* A new page: its label is empty until its fetch is answered.
LEMMA PresentKeeps ==
    ASSUME PageInv, UNCHANGED vars, PresentToMyPage
    PROVE  PagesInv'
<1>0. nickname \in Nat
  BY VersionsAreNumbers DEF PageInv, PagesInv, PagesTyped
<1>1. /\ root' = root /\ Refresh' = Refresh /\ root = "home" /\ ~leaving /\ screen = "home"
      /\ screen' = "my" /\ label' = [NoLabel EXCEPT !.seen = known] /\ overlap' = FALSE /\ lost' = FALSE
      /\ UNCHANGED <<leaving, errors, nickname, password, known>>
  BY SameSession DEF PresentToMyPage, Touchable, account
<1>2. PICK c \in Slots : calls[c] = Idle /\ calls' = FetchUserInfo(calls, c)
  BY FreeIsFree DEF PresentToMyPage
<1>3. /\ GoodCalls(calls', nickname, password)
      /\ \A d \in Slots : Live(calls', d) => Live(calls, d)
      /\ \A least : Recent(calls, least) => Recent(calls', least)
      /\ Refresh # None => /\ Speaks(calls, Refresh) => Speaks(calls', Refresh)
                           /\ \A least : Fresh(calls', least)
  BY <1>0, <1>2, FetchKeeps DEF PageInv, PagesInv
<1>8. /\ known \in Versions /\ known \in Nat
      /\ label' \in Labels /\ label'.seen = known /\ label'.newest = FALSE
      /\ label'.value = Blank
  BY <1>1, VersionsAreNumbers DEF NoLabel, Labels, Blank, PageInv, PagesInv, PagesTyped
<1>4. PagesTyped'
  BY <1>1, <1>8 DEF PageInv, PagesInv, PagesTyped
<1>5. HomeOK'
  BY <1>1, <1>3, <1>8 DEF PageInv, PagesInv, HomeOK
<1>9. LabelOK'
  <2>1. Recent(calls, known)
    BY <1>1 DEF Recent, Fetching, PageInv, PagesInv, LabelOK
  <2>2. QED  BY <1>1, <1>3, <1>8, <2>1 DEF LabelOK
<1>6. StackOK'
  BY <1>1, <1>3 DEF PageInv, PagesInv, StackOK, Forms
<1>7. QED  BY <1>1, <1>3, <1>4, <1>5, <1>6, <1>9 DEF PagesInv

\* A form is pushed when no request of an earlier one is left.
LEMMA FormButtonKeeps ==
    ASSUME PageInv, UNCHANGED vars, NEW f \in Forms, FormButtonTapped(f)
    PROVE  PagesInv'
<1>1. /\ root' = root /\ Refresh' = Refresh /\ root = "home" /\ ~leaving /\ screen = "my"
      /\ screen' = f /\ errors' = {} /\ overlap' = FALSE
      /\ UNCHANGED <<leaving, label, calls, nickname, password, known, lost>>
  BY SameSession DEF FormButtonTapped, Touchable, account
<1>2. PagesTyped' /\ GoodCalls(calls', nickname', password')
  BY <1>1 DEF PageInv, PagesInv, PagesTyped
<1>3. HomeOK'
  BY <1>1 DEF PageInv, PagesInv, HomeOK, Forms
<1>4. StackOK'
  BY <1>1 DEF PageInv, PagesInv, StackOK, Forms, Live
<1>6. LabelOK'
  BY <1>1 DEF PageInv, PagesInv, LabelOK, Forms
<1>5. QED  BY <1>2, <1>3, <1>4, <1>6 DEF PagesInv

\* The back button records a request that it leaves behind.
LEMMA BackKeeps ==
    ASSUME PageInv, UNCHANGED vars, CustomBackButtonTapped
    PROVE  PagesInv'
<1>1. calls \in [Slots -> CallType] /\ Fades(calls, calls)
  BY DEF PageInv, PagesInv, GoodCalls, Fades
<1>2. CASE screen \in Forms
  <2>1. /\ PopForm(calls) /\ overlap' = (overlap \/ UnderWay)
        /\ UNCHANGED <<account, known, lost>>
    BY <1>2 DEF CustomBackButtonTapped, Forms
  <2>2. \A c \in Slots : Live(calls, c) => overlap'
    BY <2>1 DEF UnderWay, Live
  <2>3. known' \in Versions /\ known <= known' /\ known' <= nickname /\ overlap' \in BOOLEAN
    BY <2>1, VersionsAreNumbers DEF PageInv, PagesInv, PagesTyped
  <2>4. QED  BY <1>1, <1>2, <2>1, <2>2, <2>3, PopFormKeeps
<1>3. CASE screen \notin Forms
  <2>1. /\ screen = "my" /\ PopMyPage(calls)
        /\ UNCHANGED <<leaving, errors, overlap, account, known, lost>>
    BY <1>3 DEF CustomBackButtonTapped
  <2>2. lost' \in BOOLEAN /\ (lost' => overlap)
    BY <2>1 DEF PageInv, PagesInv, PagesTyped, StackOK
  <2>3. QED  BY <1>1, <2>1, <2>2, PopMyPageKeeps
<1>4. QED  BY <1>2, <1>3

\* When the form is gone, so is every request that would still close something.
LEMMA AnimationKeeps ==
    ASSUME PageInv, UNCHANGED vars, AnimationEnds
    PROVE  PagesInv'
<1>0. nickname \in Nat /\ calls \in [Slots -> CallType]
  BY VersionsAreNumbers DEF PageInv, PagesInv, PagesTyped, GoodCalls
<1>1. /\ root' = root /\ Refresh' = Refresh /\ leaving /\ leaving' = FALSE /\ overlap' = lost
      /\ calls' = Abandon(calls, Forms)
      /\ UNCHANGED <<screen, label, errors, nickname, password, known, lost>>
  BY SameSession DEF AnimationEnds, account
<1>2. Fades(calls, calls') /\ \A c \in Slots : calls'[c].mine => calls[c].kind \notin Forms
  BY <1>0, <1>1, AbandonFades
<1>3. /\ GoodCalls(calls', nickname, password)
      /\ \A token : Speaks(calls, token) => Speaks(calls', token)
      /\ \A least : Fresh(calls, least) => Fresh(calls', least)
      /\ \A least : Recent(calls, least) => Recent(calls', least)
      /\ \A c \in Slots : Fetching(calls', c) => Fetching(calls, c)
      /\ \A c \in Slots : Live(calls', c) => Live(calls, c)
      /\ \A c \in Slots : calls'[c].mine => calls[c].mine
  BY <1>0, <1>2, FadingKeeps DEF PageInv, PagesInv
<1>4. \A c \in Slots : ~Live(calls', c)
  BY <1>2, <1>3 DEF Live
<1>5. PagesTyped'
  BY <1>1 DEF PageInv, PagesInv, PagesTyped
<1>6. HomeOK'
  BY <1>1, <1>3 DEF PageInv, PagesInv, HomeOK
<1>7. StackOK'
  BY <1>1, <1>3, <1>4 DEF PageInv, PagesInv, StackOK
<1>9. LabelOK'
  BY <1>1, <1>3 DEF PageInv, PagesInv, LabelOK
<1>8. QED  BY <1>1, <1>3, <1>5, <1>6, <1>7, <1>9 DEF PagesInv

\* The answer to the newest fetch is as new as what the closed forms have said.
LEMMA FetchArrivesKeeps ==
    ASSUME PageInv, UNCHANGED vars, NEW c \in Slots, FetchArrives(c)
    PROVE  PagesInv'
<1>1. /\ calls[c].kind = "fetch" /\ calls[c].reply = "ok" /\ calls' = Close(c)
      /\ label' = IF calls[c].mine
                  THEN [label EXCEPT !.value = calls[c].value, !.newest = calls[c].newest]
                  ELSE label
      /\ UNCHANGED <<stack, errors, account, history>>
  BY DEF FetchArrives
<1>2. Fades(calls, calls') /\ calls[c] \in CallType
  BY <1>1, ClosedFades DEF PageInv, PagesInv, GoodCalls
<1>3. errors' \subseteq {"wrong", "same"} /\ label \in Labels
  BY <1>1 DEF PageInv, PagesInv, PagesTyped
<1>4. GoodLabel(label')
  <2>1. CASE calls[c].mine
    <3>1. /\ label' \in Labels /\ label'.seen = label.seen
          /\ label'.value = calls[c].value /\ label'.newest = calls[c].newest
      BY <1>1, <1>2, <1>3, <2>1 DEF CallType, Labels
    <3>2. /\ calls[c].value >= label.seen
          /\ root = "home" /\ Refresh # None /\ calls[c].newest => calls[c].value >= known
      BY <1>1, <2>1 DEF PageInv, PagesInv, HomeOK, LabelOK, Fresh, Recent
    <3>3. QED  BY <3>1, <3>2 DEF GoodLabel
  <2>2. CASE ~calls[c].mine
    BY <1>1, <2>2, LabelIsGood
  <2>3. QED  BY <2>1, <2>2
<1>5. QED  BY <1>1, <1>2, <1>3, <1>4, FadingPagesKeep

\* A completion that only prints.
LEMMA CallFailsKeeps ==
    ASSUME PageInv, UNCHANGED vars, NEW c \in Slots, CallFails(c)
    PROVE  PagesInv'
<1>1. Fades(calls, calls') /\ UNCHANGED <<stack, label, errors, account, history>>
  BY ClosedFades DEF CallFails
<1>2. /\ GoodLabel(label') /\ errors' \subseteq {"wrong", "same"}
  BY <1>1, LabelIsGood DEF PageInv, PagesInv, PagesTyped, HomeOK
<1>3. QED  BY <1>1, <1>2, FadingPagesKeep

\* The answer to a form pops what is on top: the form, or during its animation my
\* page, which takes a second request or the back button.
LEMMA FormSavedKeeps ==
    ASSUME PageInv, UNCHANGED <<vars, account, overlap>>, NEW c \in Slots,
           calls[c].kind \in Forms, FormSaved(c)
    PROVE  PagesInv'
<1>1. /\ Fades(calls, Close(c))
      /\ \A d \in Slots : Live(Close(c), d) => Live(calls, d) /\ d # c
  BY ClosedFades
<1>2. CASE /\ screen \in Forms /\ calls[c].mine /\ PopForm(Close(c))
           /\ known' = IF calls[c].kind = "nickname" /\ calls[c].value > known
                       THEN calls[c].value ELSE known
           /\ UNCHANGED lost
  <2>1. known' \in Versions /\ known <= known' /\ known' <= nickname
    <3>1. GoodCall(calls[c], nickname, password)
      BY DEF PageInv, PagesInv, GoodCalls
    <3>2. calls[c].value \in Nat /\ known \in Nat /\ calls[c].value \in Versions
      BY <3>1, VersionsAreNumbers DEF GoodCall, CallType, PageInv, PagesInv, PagesTyped
    <3>3. QED  BY <1>2, <3>1, <3>2 DEF GoodCall, PageInv, PagesInv, PagesTyped
  <2>2. overlap' \in BOOLEAN /\ \A d \in Slots : Live(Close(c), d) => overlap'
    BY <1>1, <1>2 DEF Live, PageInv, PagesInv, PagesTyped, StackOK
  <2>3. QED  BY <1>1, <1>2, <2>1, <2>2, PopFormKeeps
<1>3. CASE /\ leaving /\ screen = "my" /\ calls[c].mine
           /\ PopMyPage(Close(c)) /\ lost' = TRUE
           /\ UNCHANGED <<leaving, errors, known>>
  <2>1. lost' \in BOOLEAN /\ overlap
    BY <1>3 DEF Live, PageInv, PagesInv, StackOK
  <2>2. QED  BY <1>1, <1>3, <2>1, PopMyPageKeeps
<1>4. CASE calls' = Close(c) /\ UNCHANGED <<stack, label, errors, known, lost>>
  <2>1. /\ GoodLabel(label') /\ errors' \subseteq {"wrong", "same"}
      BY <1>4, LabelIsGood DEF PageInv, PagesInv, PagesTyped, HomeOK
  <2>2. QED  BY <1>1, <1>4, <2>1, FadingPagesKeep DEF history
<1>5. QED  BY <1>2, <1>3, <1>4 DEF FormSaved

\* The nickname has been changed.
LEMMA NicknameArrivesKeeps ==
    ASSUME PageInv, UNCHANGED vars, NEW c \in Slots, NicknameArrives(c)
    PROVE  PagesInv'
BY FormSavedKeeps DEF NicknameArrives, Forms

\* The password has been changed, or a label says why not.
LEMMA PasswordArrivesKeeps ==
    ASSUME PageInv, UNCHANGED vars, NEW c \in Slots, PasswordArrives(c)
    PROVE  PagesInv'
<1>1. calls[c].kind \in Forms /\ UNCHANGED <<account, overlap>>
  BY DEF PasswordArrives, Forms
<1>2. CASE FormSaved(c)
  BY <1>1, <1>2, FormSavedKeeps
<1>3. CASE /\ calls' = Close(c)
           /\ errors' = IF screen = "password" /\ calls[c].mine
                        THEN HandleErrorMessage(calls[c].reply) ELSE errors
           /\ UNCHANGED <<stack, label, known, lost>>
  <2>1. /\ GoodLabel(label') /\ errors' \subseteq {"wrong", "same"}
      BY <1>3, LabelIsGood DEF PageInv, PagesInv, PagesTyped, HomeOK, HandleErrorMessage
  <2>2. QED  BY <1>1, <1>3, <2>1, ClosedFades, FadingPagesKeep DEF history
<1>4. QED  BY <1>2, <1>3 DEF PasswordArrives

\* A form on top sends a request with the stored token; a second one is an overlap.
LEMMA FormSendsKeeps ==
    ASSUME PageInv, UNCHANGED <<vars, stack, label, account, known, lost>>,
           NEW c \in Slots, calls[c] = Idle, NEW r, GoodCall(r, nickname, password),
           r.kind \in Forms, r.token = Refresh, calls' = [calls EXCEPT ![c] = r],
           screen \in Forms, overlap' = (overlap \/ UnderWay), errors' \subseteq {"wrong", "same"}
    PROVE  PagesInv'
<1>1. /\ root' = root /\ Refresh' = Refresh
      /\ UNCHANGED <<screen, leaving, nickname, password, known, lost>>
  BY SameSession DEF account, stack
<1>2. /\ \A d \in Slots : d # c => calls'[d] = calls[d]
      /\ calls'[c] = r /\ calls' \in [Slots -> CallType]
  BY DEF PageInv, PagesInv, GoodCalls, GoodCall
<1>3. GoodCalls(calls', nickname, password)
  BY <1>2 DEF PageInv, PagesInv, GoodCalls
<1>4. PagesTyped'
  BY <1>1 DEF PageInv, PagesInv, PagesTyped
<1>5. HomeOK'
  <2>1. r.kind # "fetch"
    BY DEF Forms
  <2>2. Speaks(calls, Refresh) => Speaks(calls', Refresh)
    BY <1>2 DEF Speaks
  <2>3. Fresh(calls, known) => Fresh(calls', known)
    BY <1>2, <2>1 DEF Fresh
  <2>4. QED  BY <1>1, <2>2, <2>3 DEF PageInv, PagesInv, HomeOK
<1>6. StackOK'
  <2>1. root = "home" /\ ~leaving
    BY DEF PageInv, PagesInv, StackOK, Forms
  <2>2. \A d \in Slots : Live(calls', d) /\ d # c => overlap'
    BY <1>2 DEF Live, UnderWay
  <2>3. lost => overlap' /\ screen = "home"
    BY DEF PageInv, PagesInv, StackOK
  <2>4. \A d, e \in Slots : Live(calls', d) /\ Live(calls', e) /\ d # e => overlap'
    BY <2>2
  <2>5. root' = "home" /\ ~leaving' /\ screen' \in Forms /\ (lost' => FALSE)
    BY <1>1, <2>1, <2>3 DEF Forms
  <2>6. QED  BY <2>4, <2>5 DEF StackOK
<1>8. LabelOK'
  <2>1. r.kind # "fetch" /\ screen # "home"
    BY DEF Forms
  <2>2. Recent(calls, label.seen) => Recent(calls', label.seen)
    BY <1>2, <2>1 DEF Recent
  <2>3. QED  BY <1>1, <2>1, <2>2 DEF PageInv, PagesInv, LabelOK
<1>7. QED  BY <1>1, <1>3, <1>4, <1>5, <1>6, <1>8 DEF PagesInv

\* saveButtonTapped of the nickname form.
LEMMA SaveKeeps ==
    ASSUME PageInv, UNCHANGED vars, SaveButtonTapped
    PROVE  PagesInv'
<1> DEFINE r == [Idle EXCEPT !.kind = "nickname", !.mine = TRUE, !.token = Refresh]
<1>1. PICK c \in Slots : calls[c] = Idle /\ calls' = [calls EXCEPT ![c] = r]
  BY FreeIsFree DEF SaveButtonTapped, Refresh
<1>2. /\ screen \in Forms /\ overlap' = (overlap \/ UnderWay)
      /\ UNCHANGED <<stack, label, errors, account, known, lost>>
  BY DEF SaveButtonTapped, Forms
<1>3. r.kind = "nickname" /\ r.token = Refresh /\ r \in CallType /\ r.value = 0
  BY VersionsAreNumbers DEF Idle, CallType, PageInv, SessionInv, TypeOK, Refresh, Keys, Forms
<1>4. GoodCall(r, nickname, password) /\ r.kind \in Forms
  BY <1>3, VersionsAreNumbers DEF GoodCall, PageInv, PagesInv, PagesTyped, Forms
<1>5. errors' \subseteq {"wrong", "same"}
  BY <1>2 DEF PageInv, PagesInv, PagesTyped
<1> HIDE DEF r
<1>6. QED  BY <1>1, <1>2, <1>3, <1>4, <1>5, FormSendsKeeps

\* completeButtonTapped of the password form.
LEMMA CompleteKeeps ==
    ASSUME PageInv, UNCHANGED vars, NEW isValid \in BOOLEAN, NEW old \in {Wrong, password},
           NEW same \in BOOLEAN, CompleteButtonTapped(isValid, old, same)
    PROVE  PagesInv'
<1> DEFINE r == [Idle EXCEPT !.kind = "password", !.mine = TRUE, !.token = Refresh,
                             !.old = old, !.same = same]
<1>1. /\ screen \in Forms /\ errors' = {}
      /\ UNCHANGED <<stack, label, account, known, lost>>
  BY DEF CompleteButtonTapped, Forms
<1>2. CASE isValid /\ Refresh # None
  <2>1. PICK c \in Slots : calls[c] = Idle /\ calls' = [calls EXCEPT ![c] = r]
    BY <1>2, FreeIsFree DEF CompleteButtonTapped, Refresh
  <2>2. overlap' = (overlap \/ UnderWay)
    BY <1>2 DEF CompleteButtonTapped, Refresh
  <2>3. old \in {Wrong} \cup Versions /\ password \in Nat
    BY VersionsAreNumbers DEF PageInv, PagesInv, PagesTyped
  <2>4. /\ r.kind = "password" /\ r.token = Refresh /\ r \in CallType /\ r.old = old
        /\ r.reply = "none"
    BY <2>3, VersionsAreNumbers
       DEF Idle, CallType, PageInv, SessionInv, TypeOK, Refresh, Keys, Forms
  <2> HIDE DEF r
  <2>5. GoodCall(r, nickname, password) /\ r.kind \in Forms
    BY <2>3, <2>4 DEF GoodCall, Forms
  <2>6. errors' \subseteq {"wrong", "same"}
    BY <1>1
  <2>7. QED  BY <1>1, <2>1, <2>2, <2>4, <2>5, <2>6, FormSendsKeeps
<1>3. CASE ~(isValid /\ Refresh # None)
  <2>1. UNCHANGED <<calls, overlap>>
    BY <1>3 DEF CompleteButtonTapped, Refresh
  <2>2. Fades(calls, calls')
    BY <2>1 DEF Fades, PageInv, PagesInv, GoodCalls
  <2>3. /\ GoodLabel(label') /\ errors' \subseteq {"wrong", "same"}
      BY <1>1, LabelIsGood DEF PageInv, PagesInv, PagesTyped, HomeOK
  <2>4. QED  BY <1>1, <2>1, <2>2, <2>3, FadingPagesKeep DEF history
<1>4. QED  BY <1>2, <1>3

\* The server answers with the newest nickname and refuses what is not the
\* current password; changes only count up.
LEMMA AnswerKeeps ==
    ASSUME PageInv, UNCHANGED vars, NEW c \in Slots, ServerAnswers(c)
    PROVE  PagesInv'
<1> DEFINE call == calls[c]
<1>0. /\ nickname \in Nat /\ password \in Nat /\ known \in Nat /\ known <= nickname
      /\ nickname \in Versions /\ password \in Versions /\ MaxChanges \in Nat
  BY VersionsAreNumbers, PageAssumption DEF PageInv, PagesInv, PagesTyped
<1>1. /\ root' = root /\ Refresh' = Refresh
      /\ UNCHANGED <<screen, leaving, label, errors, known, overlap, lost>>
  BY SameSession DEF ServerAnswers, stack, history
<1>2. GoodCall(call, nickname, password) /\ call \in CallType /\ calls \in [Slots -> CallType]
  BY DEF PageInv, PagesInv, GoodCalls, GoodCall
<1>3. PICK text \in {"ok", "wrong", "same"}, value \in Versions :
        /\ calls' = IF call.mine THEN [calls EXCEPT ![c].reply = text, ![c].value = value]
                    ELSE Close(c)
        /\ call.kind \in {"fetch"} \cup Forms
        /\ nickname' \in Versions /\ password' \in Versions
        /\ nickname <= nickname' /\ password <= password'
        /\ call.kind = "fetch" => value = nickname'
        /\ call.kind = "nickname" => value <= nickname'
        /\ call.kind = "password" /\ text = "wrong" => call.old # password /\ password' = password
  <2>1. CASE call.kind = "fetch"
    BY <2>1, <1>0 DEF ServerAnswers, account
  <2>2. CASE call.kind = "nickname"
    <3>1. nickname + 1 \in Versions
      BY <1>0, <2>2 DEF ServerAnswers, Versions
    <3>2. QED  BY <2>2, <3>1, <1>0 DEF ServerAnswers, Forms
  <2>3. CASE call.kind = "password"
    <3>1. nickname + password < MaxChanges => password + 1 \in Versions
      BY <1>0 DEF Versions
    <3>2. QED  BY <2>3, <3>1, <1>0, VersionsAreNumbers DEF ServerAnswers, account, Forms
  <2>4. QED  BY <2>1, <2>2, <2>3 DEF ServerAnswers
<1> DEFINE r == IF call.mine THEN [call EXCEPT !.reply = text, !.value = value] ELSE Idle
<1>4. calls' = [calls EXCEPT ![c] = r]
  BY <1>2, <1>3 DEF Close
<1>5. /\ r \in CallType /\ r.mine = call.mine
      /\ r.mine => /\ r.kind = call.kind /\ r.token = call.token /\ r.newest = call.newest
                   /\ r.old = call.old /\ r.reply = text /\ r.value = value
  <2>1. CASE call.mine
    BY <1>2, <2>1 DEF CallType
  <2>2. CASE ~call.mine
    <3>1. r = Idle /\ Idle \in CallType /\ Idle.mine = FALSE
      BY <1>0, <2>2, IdleIsGood DEF GoodCall
    <3>2. call.mine = FALSE
      BY <1>2, <2>2 DEF CallType
    <3>3. QED  BY <3>1, <3>2
  <2>3. QED  BY <2>1, <2>2
<1>6. nickname' \in Nat /\ password' \in Nat /\ (call.old = Wrong \/ call.old \in Nat)
  BY <1>2, <1>3, VersionsAreNumbers DEF CallType
<1>7. GoodCall(r, nickname', password')
  <2>1. call.kind = "password" => call.old = Wrong \/ call.old <= password
    BY <1>2 DEF GoodCall
  <2>2. CASE call.mine
    BY <1>0, <1>3, <1>5, <1>6, <2>1, <2>2 DEF GoodCall, Forms
  <2>3. CASE ~call.mine
    BY <1>6, <2>3, IdleIsGood
  <2>4. QED  BY <2>2, <2>3
<1> HIDE DEF r
<1>8. \A d \in Slots : d # c => calls'[d] = calls[d]
  BY <1>2, <1>4
<1>9. calls'[c] = r /\ calls' \in [Slots -> CallType]
  BY <1>2, <1>4, <1>5
<1>10. GoodCalls(calls', nickname', password')
  <2>1. ASSUME NEW d \in Slots, d # c PROVE GoodCall(calls[d], nickname', password')
    <3>1. GoodCall(calls[d], nickname, password)
      BY DEF PageInv, PagesInv, GoodCalls
    <3>2. /\ calls[d].value \in Nat
          /\ calls[d].old = Wrong \/ calls[d].old \in Nat
      BY <3>1, VersionsAreNumbers DEF GoodCall, CallType
    <3>3. QED  BY <1>0, <1>3, <1>6, <3>1, <3>2 DEF GoodCall
  <2>2. QED  BY <1>7, <1>8, <1>9, <2>1 DEF GoodCalls
<1>11. PagesTyped'
  BY <1>0, <1>1, <1>3, <1>6 DEF PageInv, PagesInv, PagesTyped
<1>12. HomeOK'
  <2>1. Speaks(calls, Refresh) => Speaks(calls', Refresh)
    BY <1>5, <1>8, <1>9 DEF Speaks
  <2>2. Fresh(calls, known) => Fresh(calls', known)
    BY <1>0, <1>3, <1>5, <1>6, <1>8, <1>9 DEF Fresh
  <2>3. QED  BY <1>1, <2>1, <2>2 DEF PageInv, PagesInv, HomeOK
<1>13. StackOK'
  <2>1. \A d \in Slots : (Live(calls', d) => Live(calls, d)) /\ calls'[d].mine = calls[d].mine
    BY <1>5, <1>8, <1>9 DEF Live
  <2>2. QED  BY <1>1, <2>1 DEF PageInv, PagesInv, StackOK
<1>15. LabelOK'
  <2>1. label.seen \in Nat /\ label.seen <= known
    BY VersionsAreNumbers DEF PageInv, PagesInv, PagesTyped, LabelOK, Labels
  <2>2. Recent(calls, label.seen) => Recent(calls', label.seen)
    BY <1>0, <1>3, <1>5, <1>6, <1>8, <1>9, <2>1 DEF Recent
  <2>3. \A d \in Slots : Fetching(calls', d) => Fetching(calls, d)
    BY <1>5, <1>8, <1>9 DEF Fetching
  <2>4. QED  BY <1>1, <2>2, <2>3 DEF PageInv, PagesInv, LabelOK
<1>14. QED  BY <1>10, <1>11, <1>12, <1>13, <1>15 DEF PagesInv

---------------------------------------------------------------------------
(* The composition. *)

\* With the navigation stack go the claims of everything under way.
LEMMA GoneKeeps ==
    ASSUME PageInv, PagesGone, root' # "home"
    PROVE  PagesInv'
<1>0. nickname \in Nat /\ calls \in [Slots -> CallType]
  BY VersionsAreNumbers DEF PageInv, PagesInv, PagesTyped, GoodCalls
<1>1. /\ screen' = "home" /\ leaving' = FALSE /\ label' = NoLabel /\ errors' = {}
      /\ overlap' = FALSE /\ lost' = FALSE /\ UNCHANGED <<nickname, password, known>>
      /\ calls' = Abandon(calls, {"fetch"} \cup Forms)
  BY DEF PagesGone, account
<1>2. Fades(calls, calls') /\ \A c \in Slots : calls'[c].mine => calls[c].kind \notin {"fetch"} \cup Forms
  BY <1>0, <1>1, AbandonFades
<1>3. /\ GoodCalls(calls', nickname, password)
      /\ \A c \in Slots : calls'[c].mine => calls[c].mine
  BY <1>0, <1>2, FadingKeeps DEF PageInv, PagesInv
<1>4. \A c \in Slots : ~calls'[c].mine
  <2>1. ASSUME NEW c \in Slots, calls'[c].mine PROVE FALSE
    <3>1. calls[c].kind = "idle"
      BY <1>0, <1>2, <2>1 DEF CallType
    <3>2. calls[c] = Idle
      BY <3>1 DEF PageInv, PagesInv, GoodCalls, GoodCall
    <3>3. QED  BY <1>3, <2>1, <3>2 DEF Idle
  <2>2. QED  BY <2>1
<1>5. PagesTyped'
  BY <1>1, NoLabelType DEF PageInv, PagesInv, PagesTyped
<1>6. HomeOK' /\ StackOK'
  BY <1>1, <1>4 DEF HomeOK, StackOK, Live
<1>8. LabelOK'
  <2>1. known' \in Nat /\ calls' \in [Slots -> CallType]
    BY <1>1, <1>3, VersionsAreNumbers DEF PageInv, PagesInv, PagesTyped, GoodCalls
  <2>2. \A c \in Slots : ~Fetching(calls', c)
    BY <1>4 DEF Fetching
  <2>3. QED  BY <1>1, <2>1, <2>2, NoLabelOK
<1>7. QED  BY <1>1, <1>3, <1>5, <1>6, <1>8 DEF PagesInv

\* The steps of the session that keep the navigation stack.
Underneath ==
    \/ KeychainCall \/ WillConnect
    \/ \E n \in Logins : LoginTapped(n) \/ ServerGrants(n) \/ LoginArrives(n) \/ LoginFails(n)
    \/ \E m \in Logouts : \/ LogoutButtonTapped(m) \/ ServerEndsSession(m)
                          \/ LogoutArrives(m) \/ LogoutFails(m)

\* While the home screen is up, such a step changes the RefreshToken
\* only by deleting it; and the home screen only comes up after a start.
LEMMA TokenStays ==
    ASSUME SessionInv, Underneath
    PROVE  /\ root' = root \/ root = "off"
           /\ root = "home" => Refresh' \in {Refresh, None}
<1>1. CASE KeychainCall
  <2>1. root' = root
    BY <1>1 DEF KeychainCall
  <2>2. ASSUME root = "home" PROVE Refresh' \in {Refresh, None}
    <3>1. LogoutHandler
      BY <1>1, <2>2, NoHandlerType DEF KeychainCall, SessionInv, HandlerOK, LoginHandler
    <3>2. \/ Begins(running.todo, "AccessToken", None, Logout1)
          \/ Begins(running.todo, "RefreshToken", None, <<>>)
      BY <3>1, CallsLeft DEF LogoutHandler
    <3>3. keychain' = [keychain EXCEPT ![Head(running.todo).key] = Head(running.todo).value]
      BY <1>1 DEF KeychainCall
    <3>4. QED  BY <3>2, <3>3 DEF Begins, Refresh, SessionInv, TypeOK, Keys
  <2>3. QED  BY <2>1, <2>2
<1>2. CASE WillConnect
  BY <1>2 DEF WillConnect
<1>3. CASE \E n \in Logins : \/ LoginTapped(n) \/ ServerGrants(n)
                             \/ LoginArrives(n) \/ LoginFails(n)
  BY <1>3 DEF LoginTapped, ServerGrants, LoginArrives, LoginFails, Refresh
<1>4. CASE \E m \in Logouts : \/ LogoutButtonTapped(m) \/ ServerEndsSession(m)
                              \/ LogoutArrives(m) \/ LogoutFails(m)
  BY <1>4 DEF LogoutButtonTapped, ServerEndsSession, LogoutArrives, LogoutFails, Refresh
<1>5. QED  BY <1>1, <1>2, <1>3, <1>4 DEF Underneath

\* The session goes on under pages that stay as they are.
LEMMA UnderneathKeeps ==
    ASSUME PageInv, Underneath, UNCHANGED pageVars
    PROVE  PagesInv'
<1>1. UNCHANGED <<screen, leaving, label, errors, calls, nickname, password, known, overlap, lost>>
  BY DEF pageVars, stack, account, history
<1>2. /\ root' = root \/ root = "off"
      /\ root = "home" => Refresh' \in {Refresh, None}
  BY TokenStays DEF PageInv
<1>3. PagesTyped' /\ GoodCalls(calls', nickname', password')
  BY <1>1 DEF PageInv, PagesInv, PagesTyped
<1>4. HomeOK'
  <2>1. CASE root = "home"
    BY <1>1, <1>2, <2>1 DEF PageInv, PagesInv, HomeOK
  <2>2. CASE root # "home"
    <3>1. screen = "home" /\ \A c \in Slots : ~calls[c].mine
      BY <2>2 DEF PageInv, PagesInv, StackOK
    <3>2. QED  BY <1>1, <3>1 DEF HomeOK, Speaks, Fresh
  <2>3. QED  BY <2>1, <2>2
<1>5. StackOK'
  BY <1>1, <1>2 DEF PageInv, PagesInv, StackOK, Live
<1>7. LabelOK'
  BY <1>1 DEF PageInv, PagesInv, LabelOK, Recent, Fetching
<1>6. QED  BY <1>3, <1>4, <1>5, <1>7 DEF PagesInv

\* The initial state of the composition.
LEMMA PageInitEstablishes == PageInit => PageInv
<1> SUFFICES ASSUME PageInit PROVE PageInv
  OBVIOUS
<1>1. SessionInv
  BY SessionInit DEF PageInit
<1>2. PagesTyped
  <2>1. /\ screen = "home" /\ leaving = FALSE /\ label = NoLabel /\ errors = {}
        /\ nickname = 0 /\ password = 0 /\ known = 0 /\ overlap = FALSE /\ lost = FALSE
    BY DEF PageInit
  <2>2. 0 \in Versions /\ NoLabel \in Labels
    BY VersionsAreNumbers, NoLabelType
  <2>3. leaving \in BOOLEAN /\ overlap \in BOOLEAN /\ lost \in BOOLEAN
    BY <2>1
  <2>4. /\ known <= nickname /\ nickname \in Versions /\ password \in Versions
        /\ known \in Versions
    BY <2>1, <2>2
  <2>5. /\ screen \in {"home", "my"} \cup Forms /\ errors \subseteq {"wrong", "same"}
        /\ label \in Labels
    BY <2>1, <2>2
  <2>6. QED  BY <2>3, <2>4, <2>5 DEF PagesTyped
<1>3. /\ Idle \in CallType /\ GoodCall(Idle, nickname, password)
      /\ \A c \in Slots : calls[c] = Idle
      /\ calls = [c \in Slots |-> Idle]
  BY IdleIsGood DEF PageInit, GoodCall
<1>4. GoodCalls(calls, nickname, password)
  BY <1>3 DEF GoodCalls
<1>5. Idle.mine = FALSE
  BY IdleIsGood
<1>6. HomeOK /\ StackOK
  BY <1>3, <1>5 DEF PageInit, Init, HomeOK, StackOK, Live
<1>8. LabelOK
  <2>1. label.seen = 0 /\ label.value = Blank /\ known = 0
    BY DEF PageInit, NoLabel
  <2>2. \A c \in Slots : ~Fetching(calls, c)
    BY <1>3, <1>5 DEF Fetching
  <2>3. QED  BY <2>1, <2>2 DEF LabelOK, Recent, Fetching
<1>7. QED  BY <1>1, <1>2, <1>4, <1>6, <1>8 DEF PageInv, PagesInv

\* Every step of the composition is a step of the session or leaves it alone.
LEMMA PageStepsAreSessionSteps == PageNext => [Next]_vars
<1>1. SessionStep => Next
  BY DEF SessionStep, Next
<1>2. \A m \in Logouts : LogoutOnMyPage(m) => Next
  BY DEF LogoutOnMyPage, Next
<1>3. QED  BY <1>1, <1>2 DEF PageNext, Next

\* The steps of the pages, one by one.
LEMMA PageStepKeeps ==
    ASSUME PageInv, PageStep, UNCHANGED vars
    PROVE  PagesInv'
<1>1. CASE PresentToMyPage \/ CustomBackButtonTapped \/ AnimationEnds \/ SaveButtonTapped
  BY <1>1, PresentKeeps, BackKeeps, AnimationKeeps, SaveKeeps
<1>2. CASE \E f \in Forms : FormButtonTapped(f)
  BY <1>2, FormButtonKeeps
<1>3. CASE \E isValid, same \in BOOLEAN, old \in {Wrong, password} :
             CompleteButtonTapped(isValid, old, same)
  BY <1>3, CompleteKeeps
<1>4. CASE \E c \in Slots : \/ FetchArrives(c) \/ NicknameArrives(c) \/ PasswordArrives(c)
                            \/ CallFails(c) \/ ServerAnswers(c)
  BY <1>4, FetchArrivesKeeps, NicknameArrivesKeeps, PasswordArrivesKeeps, CallFailsKeeps,
     AnswerKeeps
<1>5. QED  BY <1>1, <1>2, <1>3, <1>4 DEF PageStep

\* No step of the composition breaks the invariant.
LEMMA PageNextKeeps == PageInv /\ [PageNext]_<<vars, pageVars>> => PageInv'
<1> SUFFICES ASSUME PageInv, [PageNext]_<<vars, pageVars>> PROVE PageInv'
  OBVIOUS
<1>1. SessionInv'
  BY PageStepsAreSessionSteps, SessionNext DEF PageInv
<1>2. PagesInv'
  <2>1. CASE UNCHANGED <<vars, pageVars>>
    <3>1. /\ UNCHANGED <<screen, leaving, label, errors, calls, nickname, password>>
          /\ UNCHANGED <<known, overlap, lost>> /\ root' = root /\ Refresh' = Refresh
      BY <2>1, SameSession DEF pageVars, stack, account, history
    <3>2. PagesTyped' /\ GoodCalls(calls', nickname', password')
      BY <3>1 DEF PageInv, PagesInv, PagesTyped
    <3>3. HomeOK' /\ StackOK'
      BY <3>1 DEF PageInv, PagesInv, HomeOK, StackOK, Live, Speaks, Fresh
    <3>5. LabelOK'
      BY <3>1 DEF PageInv, PagesInv, LabelOK, Recent, Fetching
    <3>4. QED  BY <3>2, <3>3, <3>5 DEF PagesInv
  <2>2. CASE SessionStep
    <3>1. Underneath /\ UNCHANGED pageVars
      BY <2>2 DEF SessionStep, Underneath
    <3>2. QED  BY <3>1, UnderneathKeeps
  <2>3. CASE (SwitchRoot \/ Killed) /\ PagesGone
    <3>1. root' # "home"
      BY <2>3 DEF SwitchRoot, Killed
    <3>2. QED  BY <2>3, <3>1, GoneKeeps
  <2>4. CASE \E m \in Logouts : LogoutOnMyPage(m)
    <3>1. Underneath /\ UNCHANGED pageVars
      BY <2>4 DEF LogoutOnMyPage, Underneath
    <3>2. QED  BY <3>1, UnderneathKeeps
  <2>5. CASE PageStep /\ UNCHANGED vars
    BY <2>5, PageStepKeeps
  <2>6. QED  BY <2>1, <2>2, <2>3, <2>4, <2>5 DEF PageNext
<1>3. QED  BY <1>1, <1>2 DEF PageInv

\* The inductive invariant holds of every behaviour of the composition.
LEMMA Inductive == PageSpec => []PageInv
BY PageInitEstablishes, PageNextKeeps, PTL DEF PageSpec

---------------------------------------------------------------------------
(* The theorems. *)

\* The session and the pages keep their types.
THEOREM TypeCorrect == PageSpec => []PageTypeOK
<1>1. PageInv => PageTypeOK
  BY DEF PageInv, SessionInv, PagesInv, PagesTyped, GoodCalls, CallType, PageTypeOK
<1>2. QED  BY <1>1, Inductive, PTL

\* KeychainService holds the two tokens of one login between completions, unless
\* the process was killed inside one.
THEOREM NoMixedPair == PageSpec => []TokensOfOneLogin
<1>1. PageInv => TokensOfOneLogin
  BY NoHandlerType DEF PageInv, SessionInv, HandlerOK, LoginHandler, LogoutHandler,
                       TokensOfOneLogin, Access, Refresh
<1>2. QED  BY <1>1, Inductive, PTL

\* The home screen has a RefreshToken, however the process was killed, until a
\* logout has scheduled the login screen.
THEOREM NoHomeWithoutToken == PageSpec => []HomeHasAToken
<1>1. PageInv => HomeHasAToken
  BY DEF PageInv, SessionInv, RootOK, HomeHasAToken, Refresh
<1>2. QED  BY <1>1, Inductive, PTL

\* The invariant tells of the records of two logouts what the property says.
LEMMA HandlersEndTheirOwn == SessionInv => LogoutEndsItsOwnSession
<1> SUFFICES ASSUME SessionInv, running.kind = "logout", ~interrupted,
                    ~(\A k \in Keys : keychain[k] \in {None, running.session})
             PROVE  \E m, o \in Logouts :
                      /\ m # o
                      /\ logouts[m] = [status |-> "done", session |-> running.session]
                      /\ logouts[o] = logouts[m]
  BY DEF LogoutEndsItsOwnSession
<1>1. Repeated(running.session)
  BY NoHandlerType DEF SessionInv, HandlerOK, LoginHandler, LogoutHandler
<1>2. PICK m, o \in Logouts : m # o /\ Done(m, running.session) /\ Done(o, running.session)
  BY <1>1 DEF Repeated
<1>3. \A l \in Logouts : logouts[l] = [status |-> logouts[l].status, session |-> logouts[l].session]
  BY DEF SessionInv, TypeOK
<1>4. QED  BY <1>2, <1>3 DEF Done

\* The completion of logoutButtonTapped finds the tokens of the session it was asked
\* for, or none; those of a later login only when it is the second answer to a
\* logout tapped twice.  Nothing is assumed of what the server refuses.
THEOREM LogoutIsItsOwn == PageSpec => []LogoutEndsItsOwnSession
<1>1. PageInv => LogoutEndsItsOwnSession
  BY HandlersEndTheirOwn DEF PageInv
<1>2. QED  BY <1>1, Inductive, PTL

\* A home screen that has lost its RefreshToken has the login screen scheduled, and
\* no step of a late login, another logout or the pages gives it a token or takes
\* the schedule back: it stays so until the login screen is shown or the process
\* ends.  With the fairness of the main queue this is what LogoutLeadsToLogin rests
\* on.
THEOREM LostTokenWaitsForLogin ==
    PageSpec => /\ [](TokenLost => switchPending)
                /\ [][TokenLost => TokenLost' \/ root' \in {"login", "off"}]_<<vars, pageVars>>
<1>1. PageInv => (TokenLost => switchPending)
  BY DEF PageInv, SessionInv, RootOK, TokenLost
<1>2. ASSUME PageInv, PageNext, TokenLost PROVE TokenLost' \/ root' \in {"login", "off"}
  <2>1. SessionInv /\ root = "home" /\ Refresh = None
    BY <1>2 DEF PageInv, TokenLost
  <2>2. CASE Underneath
    BY <2>1, <2>2, TokenStays DEF TokenLost
  <2>3. CASE SwitchRoot \/ Killed
    BY <2>3 DEF SwitchRoot, Killed
  <2>4. CASE UNCHANGED vars
    BY <2>1, <2>4 DEF vars, TokenLost, Refresh
  <2>5. [Next]_vars
    BY <1>2, PageStepsAreSessionSteps
  <2>6. QED  BY <2>2, <2>3, <2>4, <2>5 DEF Next, Underneath
<1>3. PageInv /\ [PageNext]_<<vars, pageVars>> =>
        [TokenLost => TokenLost' \/ root' \in {"login", "off"}]_<<vars, pageVars>>
  BY <1>2
<1>4. QED  BY <1>1, <1>3, Inductive, PTL DEF PageSpec

\* The pages never take the session where it could not go alone: hidden pages,
\* what a reader sees is a behaviour of Session, but for its fairness.
THEOREM PagesImplementSession == PageSpec => Init /\ [][Next]_vars
<1>1. PageInit => Init
  BY DEF PageInit
<1>2. [PageNext]_<<vars, pageVars>> => [Next]_vars
  BY PageStepsAreSessionSteps DEF vars
<1>3. QED  BY <1>1, <1>2, PTL DEF PageSpec

\* The session alone, without the pages, keeps the same promises.
THEOREM SessionPromises ==
    Spec => [](TypeOK /\ TokensOfOneLogin /\ HomeHasAToken /\ LogoutEndsItsOwnSession)
<1>1. SessionInv => TypeOK /\ TokensOfOneLogin /\ HomeHasAToken /\ LogoutEndsItsOwnSession
  <2> SUFFICES ASSUME SessionInv
               PROVE  TypeOK /\ TokensOfOneLogin /\ HomeHasAToken /\ LogoutEndsItsOwnSession
    OBVIOUS
  <2>1. TypeOK /\ HomeHasAToken
    BY DEF SessionInv, RootOK, HomeHasAToken, Refresh
  <2>2. TokensOfOneLogin /\ LogoutEndsItsOwnSession
    BY NoHandlerType, HandlersEndTheirOwn
       DEF SessionInv, HandlerOK, LoginHandler, LogoutHandler, TokensOfOneLogin, Access, Refresh
  <2>3. QED  BY <2>1, <2>2
<1>2. QED  BY <1>1, SessionInit, SessionNext, PTL DEF Spec

\* No answer to a request of an earlier session is shown under a later one.
THEOREM OneSessionAtATime == PageSpec => []PagesSpeakForTheSession
<1>1. PageInv => PagesSpeakForTheSession
  BY DEF PageInv, PagesInv, HomeOK, Speaks, Refresh, PagesSpeakForTheSession
<1>2. QED  BY <1>1, Inductive, PTL

\* The pop of a form's completion reaches my page only after a double tap or the
\* back button.
THEOREM NoStrayPop == PageSpec => []OnlyOverlapLosesMyPage
<1>1. PageInv => OnlyOverlapLosesMyPage
  BY DEF PageInv, PagesInv, StackOK, OnlyOverlapLosesMyPage
<1>2. QED  BY <1>1, Inductive, PTL

\* However the answers to fetchUserInfo are ordered, my page never goes back behind
\* what was known when it was opened, and catches up with every form it has closed
\* when the newest fetch is answered last.
THEOREM LabelCatchesUp == PageSpec => []LabelOfThisVisit
<1>1. PageInv => LabelOfThisVisit
  BY DEF PageInv, PagesInv, HomeOK, LabelOK, Refresh, LabelOfThisVisit
<1>2. QED  BY <1>1, Inductive, PTL

\* Only the completion of a password change shows an error.
LEMMA WhoShowsErrors ==
    ASSUME PageInv, PageNext, errors' \ errors = {"wrong"}
    PROVE  \E c \in Slots : /\ calls[c].kind = "password" /\ calls[c].mine /\ calls'[c] = Idle
                            /\ calls[c].reply = "wrong"
<1>1. "wrong" \in errors' /\ "wrong" \notin errors
  OBVIOUS
<1>2. PageStep
  BY <1>1 DEF PageNext, SessionStep, LogoutOnMyPage, PagesGone, pageVars
<1>3. PICK c \in Slots : PasswordArrives(c)
  BY <1>1, <1>2 DEF PageStep, PresentToMyPage, CustomBackButtonTapped, PopForm, PopMyPage,
       AnimationEnds, SaveButtonTapped, FormButtonTapped, CompleteButtonTapped, FetchArrives,
       NicknameArrives, FormSaved, CallFails, ServerAnswers
<1>4. /\ calls[c].kind = "password" /\ calls' = Close(c)
      /\ errors' = IF screen = "password" /\ calls[c].mine
                   THEN HandleErrorMessage(calls[c].reply) ELSE errors
  BY <1>1, <1>3 DEF PasswordArrives, FormSaved, PopForm
<1>5. calls[c].mine /\ calls[c].reply = "wrong"
  BY <1>1, <1>4 DEF HandleErrorMessage
<1>6. calls'[c] = Idle
  BY <1>4 DEF Close, PageInv, PagesInv, GoodCalls
<1>7. QED  BY <1>4, <1>5, <1>6

\* "Wrong password" is shown for a password that was wrong when it was typed, or
\* that another request has changed since.
THEOREM WrongIsExplained == PageSpec => WrongMeansWrongOrChanged
<1>1. PageInv /\ [PageNext]_<<vars, pageVars>> =>
        [errors' \ errors = {"wrong"} =>
           \E c \in Slots : /\ calls[c].kind = "password" /\ calls[c].mine /\ calls'[c] = Idle
                            /\ calls[c].old = Wrong \/ password > calls[c].old
        ]_<<vars, pageVars>>
  <2> SUFFICES ASSUME PageInv, PageNext, errors' \ errors = {"wrong"}
               PROVE  \E c \in Slots :
                        /\ calls[c].kind = "password" /\ calls[c].mine /\ calls'[c] = Idle
                        /\ calls[c].old = Wrong \/ password > calls[c].old
    OBVIOUS
  <2>1. PICK c \in Slots : /\ calls[c].kind = "password" /\ calls[c].mine /\ calls'[c] = Idle
                           /\ calls[c].reply = "wrong"
    BY WhoShowsErrors
  <2>2. calls[c].old = Wrong \/ calls[c].old < password
    BY <2>1 DEF PageInv, PagesInv, GoodCalls, GoodCall
  <2>3. calls[c].old = Wrong \/ password > calls[c].old
    BY <2>2
  <2>4. QED  BY <2>1, <2>3
<1>2. QED  BY <1>1, Inductive, PTL DEF PageSpec, WrongMeansWrongOrChanged
=============================================================================
