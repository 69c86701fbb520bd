------------------------------ MODULE Session ------------------------------
(***************************************************************************)
(* Login, logout and restart: LoginViewController, the logout of           *)
(* MyPageViewController, SceneDelegate and the two tokens that             *)
(* KeychainService keeps across process starts.                            *)
(*                                                                         *)
(* A token is named by the number of the login that the server issued it   *)
(* for.  Completions run on the main queue, one at a time, but the process *)
(* may be killed between two calls of the keychain: a completion is a list *)
(* of keychain writes, taken one by one.                                   *)
(***************************************************************************)
EXTENDS Integers, Sequences

CONSTANTS
    MaxLogins,    \* bound: login requests ever sent
    MaxLogouts    \* bound: logout requests ever sent

ASSUME SessionAssumption == MaxLogins \in Nat /\ MaxLogouts \in Nat

Keys == {"AccessToken", "RefreshToken"}
None == 0                       \* KeychainService.load gives nil
Logins == 1 .. MaxLogins
Logouts == 1 .. MaxLogouts

VARIABLES
    keychain,      \* the tokens stored, by key
    root,          \* root view controller, "off" when the process is not running
    running,       \* the completion the main queue is in the middle of
    switchPending, \* logout has scheduled the change to the login screen
    logins,        \* progress of each login request
    logouts,       \* progress of each logout request, and the session it ends
    interrupted    \* history: the last completion was cut short by the end of the process

requests == <<logins, logouts>>
vars == <<keychain, root, running, switchPending, requests, interrupted>>

Status == {"unused", "sent", "granted", "done", "closed"}
Closed == [status |-> "closed", session |-> None]
NoHandler == [kind |-> "none", session |-> None, todo |-> <<>>]
Writes == Seq([key: Keys, value: {None} \cup Logins])

TypeOK ==
    /\ keychain \in [Keys -> {None} \cup Logins]
    /\ root \in {"off", "login", "home"}
    /\ running \in [kind: {"none", "login", "logout"}, session: {None} \cup Logins, todo: Writes]
    /\ switchPending \in BOOLEAN
    /\ logins \in [Logins -> Status]
    /\ logouts \in [Logouts -> [status: Status, session: {None} \cup Logins]]
    /\ interrupted \in BOOLEAN

\* The application has just been installed.
Init ==
    /\ keychain = [k \in Keys |-> None]
    /\ root = "off" /\ running = NoHandler /\ switchPending = FALSE
    /\ logins = [n \in Logins |-> "unused"]
    /\ logouts = [m \in Logouts |-> [status |-> "unused", session |-> None]]
    /\ interrupted = FALSE

\* Requests are numbered in the order in which they are sent.
NextLogin(n) == logins[n] = "unused" /\ \A o \in Logins : o < n => logins[o] # "unused"
NextLogout(m) ==
    logouts[m].status = "unused" /\ \A o \in Logouts : o < m => logouts[o].status # "unused"

\* The main queue is free for the next event.
Ready == root # "off" /\ running = NoHandler

---------------------------------------------------------------------------
(* KeychainService. *)

Delete(key) == <<[key |-> key, value |-> None]>>

\* Mutant: the key is misspelt when the entry is added.
SaveMisspelt(value, key) == Delete(key) \o <<[key |-> "accessToken", value |-> value]>>

\* save deletes the entry and adds it again.
Save(value, key) == Delete(key) \o <<[key |-> key, value |-> value]>>

\* Mutant: the logout forgets to schedule the login screen.
KeychainCallNoSwitch ==
    /\ running.todo # <<>>
    /\ LET write == Head(running.todo)
           rest  == Tail(running.todo)
       IN  /\ keychain' = [keychain EXCEPT ![write.key] = write.value]
           /\ running' = IF rest = <<>> THEN NoHandler ELSE [running EXCEPT !.todo = rest]
           /\ interrupted' = (interrupted /\ rest # <<>>)
    /\ UNCHANGED <<switchPending, root, requests>>

\* One keychain call of the running completion.  After the last one a logout
\* schedules the login screen; a login calls presentToHome, which builds a
\* HomeViewController and shows it nowhere.
KeychainCall ==
    /\ running.todo # <<>>
    /\ LET write == Head(running.todo)
           rest  == Tail(running.todo)
       IN  /\ keychain' = [keychain EXCEPT ![write.key] = write.value]
           /\ running' = IF rest = <<>> THEN NoHandler ELSE [running EXCEPT !.todo = rest]
           /\ switchPending' = (switchPending \/ (rest = <<>> /\ running.kind = "logout"))
           /\ interrupted' = (interrupted /\ rest # <<>>)
    /\ UNCHANGED <<root, requests>>

---------------------------------------------------------------------------
(* Login. *)

\* emailLoginTapped or kakaoLoginTapped: nothing stops a second tap while a
\* request is out.
LoginTapped(n) ==
    /\ Ready /\ root = "login"
    /\ NextLogin(n)
    /\ logins' = [logins EXCEPT ![n] = "sent"]
    /\ UNCHANGED <<keychain, root, running, switchPending, logouts, interrupted>>

ServerGrants(n) ==
    /\ logins[n] = "sent"
    /\ logins' = [logins EXCEPT ![n] = "granted"]
    /\ UNCHANGED <<keychain, root, running, switchPending, logouts, interrupted>>

\* emailLoginToServer and kakaoLoginToServer succeed.
LoginArrives(n) ==
    /\ Ready
    /\ logins[n] = "granted"
    /\ logins' = [logins EXCEPT ![n] = "closed"]
    /\ running' = [kind |-> "login", session |-> n,
                   todo |-> Save(n, "AccessToken") \o Save(n, "RefreshToken")]
    /\ UNCHANGED <<keychain, root, switchPending, logouts, interrupted>>

\* The login is refused, or its answer is lost: a message on the screen.
LoginFails(n) ==
    /\ Ready
    /\ logins[n] \in {"sent", "granted"}
    /\ logins' = [logins EXCEPT ![n] = "closed"]
    /\ UNCHANGED <<keychain, root, running, switchPending, logouts, interrupted>>

---------------------------------------------------------------------------
(* Logout, on my page. *)

\* Mutant: the login screen is shown without waiting for the answer.
LogoutButtonTappedEager(m) ==
    /\ Ready /\ root = "home"
    /\ keychain["AccessToken"] # None
    /\ NextLogout(m)
    /\ logouts' = [logouts EXCEPT ![m] = [status |-> "sent", session |-> keychain["AccessToken"]]]
    /\ switchPending' = TRUE
    /\ UNCHANGED <<keychain, root, running, logins, interrupted>>

\* The request carries the AccessToken; without one the tap does nothing.
LogoutButtonTapped(m) ==
    /\ Ready /\ root = "home"
    /\ keychain["AccessToken"] # None
    /\ NextLogout(m)
    /\ logouts' = [logouts EXCEPT ![m] = [status |-> "sent", session |-> keychain["AccessToken"]]]
    /\ UNCHANGED <<keychain, root, running, switchPending, logins, interrupted>>

\* The server grants a logout.  Nothing in the application shows that it would
\* refuse the second of two for one session, so it may grant both.
ServerEndsSession(m) ==
    /\ logouts[m].status = "sent"
    /\ logouts' = [logouts EXCEPT ![m].status = "granted"]
    /\ UNCHANGED <<keychain, root, running, switchPending, logins, interrupted>>

\* Mutant: only the RefreshToken is deleted.
LogoutArrivesRefreshOnly(m) ==
    /\ Ready
    /\ logouts[m].status = "granted"
    /\ logouts' = [logouts EXCEPT ![m].status = "done"]
    /\ running' = [kind |-> "logout", session |-> logouts[m].session,
                   todo |-> Delete("RefreshToken")]
    /\ UNCHANGED <<keychain, root, switchPending, logins, interrupted>>

LogoutArrives(m) ==
    /\ Ready
    /\ logouts[m].status = "granted"
    /\ logouts' = [logouts EXCEPT ![m].status = "done"]
    /\ running' = [kind |-> "logout", session |-> logouts[m].session,
                   todo |-> Delete("AccessToken") \o Delete("RefreshToken")]
    /\ UNCHANGED <<keychain, root, switchPending, logins, interrupted>>

LogoutFails(m) ==
    /\ Ready
    /\ logouts[m].status \in {"sent", "granted"}
    /\ logouts' = [logouts EXCEPT ![m] = Closed]
    /\ UNCHANGED <<keychain, root, running, switchPending, logins, interrupted>>

\* Half a second after a logout a new login screen becomes the root; after two
\* logouts the second one replaces a login screen, so that one flag tells of both.
SwitchRoot ==
    /\ Ready /\ switchPending
    /\ root' = "login" /\ switchPending' = FALSE
    /\ UNCHANGED <<keychain, running, requests, interrupted>>

---------------------------------------------------------------------------
(* The process. *)

\* SceneDelegate chooses the root by the RefreshToken.
WillConnect ==
    /\ root = "off"
    /\ root' = IF keychain["RefreshToken"] # None THEN "home" ELSE "login"
    /\ UNCHANGED <<keychain, running, switchPending, requests, interrupted>>

\* The process ends, perhaps in the middle of a completion.  The keychain
\* stays; answers still under way reach nobody, and what the server makes of
\* these requests no later step depends on.
Killed ==
    /\ root # "off"
    /\ root' = "off" /\ running' = NoHandler /\ switchPending' = FALSE
    /\ interrupted' = (interrupted \/ running # NoHandler)
    /\ logins' = [n \in Logins |-> IF logins[n] = "unused" THEN "unused" ELSE "closed"]
    /\ logouts' = [m \in Logouts |-> IF logouts[m].status = "unused" THEN logouts[m]
                                     ELSE Closed]
    /\ UNCHANGED keychain

---------------------------------------------------------------------------
Next ==
    \/ KeychainCall \/ SwitchRoot \/ WillConnect \/ Killed
    \/ \E n \in Logins : \/ LoginTapped(n) \/ ServerGrants(n)
                         \/ LoginArrives(n) \/ LoginFails(n)
    \/ \E m \in Logouts : \/ LogoutButtonTapped(m) \/ ServerEndsSession(m)
                          \/ LogoutArrives(m) \/ LogoutFails(m)

\* The main queue goes on with what it has begun and with what is queued.
Spec == Init /\ [][Next]_vars /\ WF_vars(KeychainCall) /\ WF_vars(SwitchRoot)

---------------------------------------------------------------------------
(* Properties. *)

\* Unless the last completion was cut short, the two tokens belong to one login:
\* overlapping logins and logouts never leave a mixed pair, the next completion
\* that ends repairs what an earlier one has left, and the AccessToken that
\* logoutButtonTapped asks for is there whenever the RefreshToken is.
TokensOfOneLogin ==
    running = NoHandler /\ ~interrupted =>
        keychain["AccessToken"] = keychain["RefreshToken"]

\* The home screen is shown without a RefreshToken only while the logout that
\* removed it has the login screen under way.
HomeHasAToken ==
    root = "home" /\ running = NoHandler /\ ~switchPending => keychain["RefreshToken"] # None

\* A logout deletes the tokens of the session it was asked for.  It meets those
\* of a later login only as the second answer to a logout that was tapped twice:
\* the first answer has brought the login screen, where the user has logged in
\* again before the second one came.
LogoutEndsItsOwnSession ==
    running.kind = "logout" /\ ~interrupted =>
        \/ \A k \in Keys : keychain[k] \in {None, running.session}
        \/ \E m, o \in Logouts : /\ m # o
                                 /\ logouts[m] = [status |-> "done", session |-> running.session]
                                 /\ logouts[o] = logouts[m]

\* A home screen that has lost its RefreshToken gives way to the login screen,
\* unless the process ends.
LogoutLeadsToLogin ==
    (root = "home" /\ keychain["RefreshToken"] = None) ~> (root \in {"login", "off"})

\* "On success, move to the home screen" (LoginViewController, lines 120 and
\* 173): a login screen whose login has stored its tokens gives way to the home
\* screen, unless the process ends or the tokens are replaced.
LoginLeadsHome ==
    (root = "login" /\ running = NoHandler /\ keychain["RefreshToken"] # None)
        ~> (root \in {"home", "off"} \/ keychain["RefreshToken"] = None)
=============================================================================
