------------------------------ MODULE HomeList ------------------------------
(***************************************************************************)
(* The capsule list of the home screen: HomeViewController, the statics of *)
(* TimeCapsulePreviewModel, TimeCapsulePreviewService and the deletion     *)
(* alert, against the server they talk to.                                 *)
(*                                                                         *)
(* Every handler and completion runs on the main queue, so each is one     *)
(* action.  Between a request and its completion anything may happen: the  *)
(* server answers requests in any order, answers arrive in any order, and  *)
(* any request may fail.  A reply that cannot be decoded never reaches the *)
(* completion (TimeCapsulePreviewService, lines 30-32 and 65-66); like a   *)
(* failed request it changes nothing, and RequestFails stands for both.    *)
(***************************************************************************)
EXTENDS PreviewList

CONSTANTS
    Slots,        \* bound: at most one request in flight per slot
    PageSize,     \* "offset" of a page request
    Born,         \* capsules the account has at the start
    Created,      \* capsules that may be created later on
    Deletable,    \* capsules the user may ask to delete
    Opening,      \* capsules whose deadline may pass
    TagButtons,   \* tag buttons the user may tap
    StateButtons, \* onlyClosed / onlyOpened buttons the user may tap
    SortBy        \* sort keys the user may choose

ASSUME HomeAssumption ==
    /\ PageSize \in Nat \ {0}
    /\ Born \subseteq Ids
    /\ Created \subseteq Ids
    /\ Opening \subseteq Ids
    /\ TagButtons \subseteq Tags
    /\ StateButtons \subseteq States \ {"all"}
    /\ SortBy \subseteq SortKeys

VARIABLES
    born, dead, opened,     \* the server: capsules ever created, deleted, opened
    token,                  \* RefreshToken is in the keychain
    screen,                 \* what is on screen
    alert,                  \* id held by the deletion alert, 0 when none is shown
    detail,                 \* id held by the detail screen, 0 when none is shown
    original, filtered,     \* TimeCapsulePreviewModel.original, .filtered
    selectedTag, selectedState,
    cursor, hasNext,
    rows,                   \* what the collection view shows
    reloadPending,          \* a DispatchQueue.main.async reload is queued
    net                     \* the requests in flight

server == <<born, dead, opened>>
list == <<original, filtered>>
selection == <<selectedTag, selectedState>>
paging == <<cursor, hasNext>>
table == <<rows, reloadPending>>
nav == <<token, screen, alert, detail>>
vars == <<server, nav, list, selection, paging, table, net>>

Screens == {"launch", "home", "other", "signedOut", "trapped"}

NoReply == [done |-> FALSE, caps |-> <<>>, hasNext |-> FALSE, cursor |-> 0]
Idle == [kind |-> "idle", arg |-> 0, reply |-> NoReply]

\* A request that has left the phone; arg is the cursor or the capsule id.
Request(kind, arg) == [kind |-> kind, arg |-> arg, reply |-> NoReply]

Replies == [done: BOOLEAN, caps: Seq(Preview), hasNext: BOOLEAN, cursor: 0 .. NumCapsules]
Requests ==
    [kind: {"idle", "initPage", "page", "all", "delete", "refetch", "logout"},
     arg: 0 .. NumCapsules,
     reply: Replies]

TypeOK ==
    /\ born \subseteq Ids /\ dead \subseteq Ids /\ opened \subseteq Ids
    /\ token \in BOOLEAN
    /\ screen \in Screens
    /\ alert \in 0 .. NumCapsules
    /\ detail \in 0 .. NumCapsules
    /\ original \in Seq(Preview)
    /\ filtered \in Seq(Preview)
    /\ selectedTag \in Tags \cup {NoTag}
    /\ selectedState \in States
    /\ cursor \in 0 .. NumCapsules
    /\ hasNext \in BOOLEAN
    /\ rows \in Seq(Preview)
    /\ reloadPending \in BOOLEAN
    /\ net \in [Slots -> Requests]

\* The account has the capsules Born; the statics of TimeCapsulePreviewModel
\* have their initial values and no screen is shown yet.
Init ==
    /\ born = Born /\ dead = {} /\ opened = {}
    /\ token = TRUE
    /\ screen = "launch" /\ alert = 0 /\ detail = 0
    /\ original = <<>> /\ filtered = <<>>
    /\ selectedTag = NoTag /\ selectedState = "all"
    /\ cursor = 0 /\ hasNext = TRUE
    /\ rows = <<>> /\ reloadPending = FALSE
    /\ net = [s \in Slots |-> Idle]

---------------------------------------------------------------------------
(* The server. *)

Alive == born \ dead

Snapshot(ids) ==
    Pick([i \in Ids |-> [id |-> i, isOpened |-> i \in opened]], ids)

\* GET /timecapsules
AllReply == [done |-> TRUE, caps |-> Snapshot(Alive), hasNext |-> FALSE, cursor |-> 0]

\* The capsules of a page: the next PageSize after the cursor, by deadline.
PageAfter(c) ==
    {i \in Alive : i > c /\ Cardinality({j \in Alive : c < j /\ j <= i}) <= PageSize}

LastOf(ids, c) == IF ids = {} THEN c ELSE CHOOSE i \in ids : \A j \in ids : j <= i

\* GET /timecapsules/page
PageReply(c) ==
    LET ids == PageAfter(c)
    IN  [done    |-> TRUE,
         caps    |-> Snapshot(ids),
         hasNext |-> \E i \in Alive : i > LastOf(ids, c),
         cursor  |-> LastOf(ids, c)]

\* DELETE /timecapsules/{id} and POST /users/logout
DoneReply == [done |-> TRUE, caps |-> <<>>, hasNext |-> FALSE, cursor |-> 0]

Answer(s, reply) == net' = [net EXCEPT ![s].reply = reply]

\* The server handles a request it has not answered yet.  A page after the
\* last capsule is an error (comment on line 61), which RequestFails covers.
ServerAnswers(s) ==
    /\ ~net[s].reply.done
    /\ \/ /\ net[s].kind \in {"all", "refetch"}
          /\ Answer(s, AllReply)
          /\ UNCHANGED dead
       \/ /\ net[s].kind \in {"page", "initPage"}
          /\ net[s].arg = 0 \/ PageAfter(net[s].arg) # {}
          /\ Answer(s, PageReply(net[s].arg))
          /\ UNCHANGED dead
       \/ /\ net[s].kind = "delete"
          /\ net[s].arg \in Alive
          /\ dead' = dead \cup {net[s].arg}
          /\ Answer(s, DoneReply)
       \/ /\ net[s].kind = "logout"
          /\ Answer(s, DoneReply)
          /\ UNCHANGED dead
    /\ UNCHANGED <<born, opened, nav, list, selection, paging, table>>

\* A capsule is created (the creation screens, or another device).
ServerCreates(i) ==
    /\ i \notin born
    /\ born' = born \cup {i}
    /\ UNCHANGED <<dead, opened, nav, list, selection, paging, table, net>>

\* The deadline of a capsule passes.
ServerOpens(i) ==
    /\ i \in Alive \ opened
    /\ opened' = opened \cup {i}
    /\ UNCHANGED <<born, dead, nav, list, selection, paging, table, net>>

---------------------------------------------------------------------------
(* Requests and their completions. *)

Free(s) == net[s] = Idle
Release(s) == net' = [net EXCEPT ![s] = Idle]
Arrived(s, kind) == screen # "trapped" /\ net[s].kind = kind /\ net[s].reply.done

\* Mutant: the reload is forgotten.
ShowListQuietly(o) ==
    /\ original' = o
    /\ filtered' = Filter(selectedTag, selectedState, o)
    /\ UNCHANGED <<rows, reloadPending>>

\* original becomes o, filter() rebuilds filtered, a reload is queued.
ShowList(o) ==
    /\ original' = o
    /\ filtered' = Filter(selectedTag, selectedState, o)
    /\ reloadPending' = TRUE
    /\ UNCHANGED rows

\* Mutant: the cursor is taken for an offset.
StorePageAsOffset(reply) ==
    /\ hasNext' = (hasNext /\ reply.hasNext)
    /\ cursor' = cursor + PageSize

\* The service's part of a page completion: hasNext is only ever cleared, the
\* cursor is overwritten whatever the order of the replies.
StorePage(reply) ==
    /\ hasNext' = (hasNext /\ reply.hasNext)
    /\ cursor' = reply.cursor

\* fetchdataPagination completes.
PageArrives(s) ==
    /\ Arrived(s, "page")
    /\ StorePage(net[s].reply)
    /\ LET o == CombineArrays(original, net[s].reply.caps)
       IN  /\ original' = RemovingDuplicates(o)
           /\ filtered' = RemovingDuplicates(Filter(selectedTag, selectedState, o))
    /\ reloadPending' = TRUE
    /\ Release(s)
    /\ UNCHANGED <<server, nav, selection, rows>>

\* The second page request of viewDidLoad completes: the page replaces the list.
InitialPageArrives(s) ==
    /\ Arrived(s, "initPage")
    /\ StorePage(net[s].reply)
    /\ ShowList(net[s].reply.caps)
    /\ Release(s)
    /\ UNCHANGED <<server, nav, selection>>

\* Mutant: the reply is added to what filtered holds.
AllArriveToFiltered(s) ==
    /\ Arrived(s, "all")
    /\ ShowList(CombineArrays(filtered, net[s].reply.caps))
    /\ Release(s)
    /\ UNCHANGED <<server, nav, selection, paging>>

\* fetchdata, or the fetch of didConfirmDeletion, completes.
AllArrive(s) ==
    /\ Arrived(s, "all")
    /\ ShowList(CombineArrays(original, net[s].reply.caps))
    /\ Release(s)
    /\ UNCHANGED <<server, nav, selection, paging>>

\* The DELETE completes; its completion fetches all capsules.
DeleteArrives(s) ==
    /\ Arrived(s, "delete")
    /\ net' = [net EXCEPT ![s] = Request("refetch", 0)]
    /\ UNCHANGED <<server, nav, list, selection, paging, table>>

\* Mutant: the assignment commented out on line 43 of the alert is active.
RefetchArrivesUnfiltered(s) ==
    /\ Arrived(s, "refetch")
    /\ original' = net[s].reply.caps
    /\ filtered' = net[s].reply.caps
    /\ net' = [net EXCEPT ![s] = IF token THEN Request("all", 0) ELSE Idle]
    /\ UNCHANGED <<server, nav, selection, paging, table>>

\* That fetch completes: original is replaced, filtered is left alone, and
\* didConfirmDeletion fetches once more if there is still a token.
RefetchArrives(s) ==
    /\ Arrived(s, "refetch")
    /\ original' = net[s].reply.caps
    /\ net' = [net EXCEPT ![s] = IF token THEN Request("all", 0) ELSE Idle]
    /\ UNCHANGED <<server, nav, filtered, selection, paging, table>>

\* The request fails, its answer is lost or cannot be decoded: nothing but a
\* message on the console.
RequestFails(s) ==
    /\ screen # "trapped"
    /\ ~Free(s)
    /\ Release(s)
    /\ UNCHANGED <<server, nav, list, selection, paging, table>>

---------------------------------------------------------------------------
(* The screen. *)

\* The queued block runs reloadData: the rows are read from filtered again.
ReloadData ==
    /\ screen # "trapped"
    /\ reloadPending
    /\ rows' = filtered
    /\ reloadPending' = FALSE
    /\ UNCHANGED <<server, nav, list, selection, paging, net>>

\* SceneDelegate shows the home screen: viewDidLoad, then viewWillAppear.
\* Without an FCM token viewDidLoad returns before it asks for a page.
Launch ==
    /\ screen = "launch" /\ token
    /\ screen' = "home"
    /\ \E a, b, c \in Slots :
         /\ Free(a) /\ Free(b) /\ Free(c) /\ a # c /\ b # c
         /\ \/ /\ hasNext /\ a # b
               /\ net' = [net EXCEPT ![a] = Request("page", cursor),
                                     ![b] = Request("initPage", cursor),
                                     ![c] = Request("all", 0)]
            \/ net' = [net EXCEPT ![c] = Request("all", 0)]
    /\ UNCHANGED <<server, token, alert, detail, list, selection, paging, table>>

\* My page, the creation screens or a detail screen close again.
ViewWillAppear ==
    /\ screen = "other"
    /\ screen' = "home" /\ detail' = 0
    /\ \/ /\ token
          /\ \E s \in Slots : Free(s) /\ net' = [net EXCEPT ![s] = Request("all", 0)]
       \/ ~token /\ UNCHANGED net
    /\ UNCHANGED <<server, token, alert, list, selection, paging, table>>

AtHome == screen = "home" /\ alert = 0

PushScreen ==
    /\ AtHome
    /\ screen' = "other"
    /\ UNCHANGED <<server, token, alert, detail, list, selection, paging, table, net>>

\* Mutant: hasNext is not consulted.
ScrollViewDidScrollAlways ==
    /\ screen = "home"
    /\ token
    /\ \E s \in Slots : Free(s) /\ net' = [net EXCEPT ![s] = Request("page", cursor)]
    /\ UNCHANGED <<server, nav, list, selection, paging, table>>

\* Scrolling near the bottom asks for a page as long as hasNext; nothing stops
\* a second request while one is in flight.
ScrollViewDidScroll ==
    /\ screen = "home"
    /\ hasNext /\ token
    /\ \E s \in Slots : Free(s) /\ net' = [net EXCEPT ![s] = Request("page", cursor)]
    /\ UNCHANGED <<server, nav, list, selection, paging, table>>

\* Mutant: the reload after filter() is forgotten.
RefilterQuietly(tag, state) ==
    /\ selectedTag' = tag /\ selectedState' = state
    /\ filtered' = Filter(tag, state, original)
    /\ UNCHANGED <<original, rows, reloadPending>>

\* What both kinds of filter button do: select, filter(), reload.
Refilter(tag, state) ==
    /\ selectedTag' = tag /\ selectedState' = state
    /\ filtered' = Filter(tag, state, original)
    /\ reloadPending' = TRUE
    /\ UNCHANGED <<original, rows>>

HandleTagButtonTap(t) ==
    /\ AtHome
    /\ Refilter(IF selectedTag = t THEN NoTag ELSE t, selectedState)
    /\ UNCHANGED <<server, nav, paging, net>>

ToggleCapsuleViewButton(st) ==
    /\ AtHome
    /\ Refilter(selectedTag, IF selectedState = st THEN "all" ELSE st)
    /\ UNCHANGED <<server, nav, paging, net>>

Sort(key, asc) ==
    /\ AtHome
    /\ \E o \in SortsOf(original, key, asc) : ShowList(o)
    /\ UNCHANGED <<server, nav, selection, paging, net>>

\* A row is on screen but no longer in filtered: the subscript traps.
Trap ==
    /\ screen' = "trapped"
    /\ UNCHANGED <<server, token, alert, detail, list, selection, paging, table, net>>

\* Mutant: a closed capsule opens as well.
DidSelectItemAtAny(row) ==
    /\ AtHome
    /\ \/ row > Len(filtered) /\ Trap
       \/ /\ row <= Len(filtered)
          /\ screen' = "other" /\ detail' = filtered[row].id
          /\ UNCHANGED <<server, token, alert, list, selection, paging, table, net>>

\* A tap on a row opens what filtered holds at that index now.
DidSelectItemAt(row) ==
    /\ AtHome
    /\ \/ row > Len(filtered) /\ Trap
       \/ /\ row <= Len(filtered)
          /\ filtered[row].isOpened
          /\ screen' = "other" /\ detail' = filtered[row].id
          /\ UNCHANGED <<server, token, alert, list, selection, paging, table, net>>

\* Scrolling brings a row back on screen: its cell is configured again.
CellForItemAt(row) ==
    /\ screen = "home"
    /\ \/ row > Len(filtered) /\ Trap
       \/ /\ row <= Len(filtered)
          /\ rows' = [rows EXCEPT ![row] = filtered[row]]
          /\ UNCHANGED <<server, nav, list, selection, paging, reloadPending, net>>

\* The delete button of a cell passes on the data the cell was configured with.
DidPressedDeleteButton(row) ==
    /\ AtHome
    /\ rows[row].id \in Deletable
    /\ alert' = rows[row].id
    /\ UNCHANGED <<server, token, screen, detail, list, selection, paging, table, net>>

ConfirmPressed ==
    /\ alert # 0 /\ screen = "home"
    /\ token
    /\ \E s \in Slots : Free(s) /\ net' = [net EXCEPT ![s] = Request("delete", alert)]
    /\ alert' = 0
    /\ UNCHANGED <<server, token, screen, detail, list, selection, paging, table>>

CancelPressed ==
    /\ alert # 0 /\ screen = "home"
    /\ alert' = 0
    /\ UNCHANGED <<server, token, screen, detail, list, selection, paging, table, net>>

---------------------------------------------------------------------------
(* The session around the screen; module Session has its detail. *)

\* The button of my page, which may be left before the answer arrives.
LogoutButtonTapped ==
    /\ screen = "other" /\ detail = 0 /\ token
    /\ \E s \in Slots : Free(s) /\ net' = [net EXCEPT ![s] = Request("logout", 0)]
    /\ UNCHANGED <<server, nav, list, selection, paging, table>>

\* The logout completes: the tokens are deleted, whatever is on screen.
LogoutArrives(s) ==
    /\ Arrived(s, "logout")
    /\ token' = FALSE
    /\ Release(s)
    /\ UNCHANGED <<server, screen, alert, detail, list, selection, paging, table>>

\* Half a second later the login screen becomes the root.
ShowLogin ==
    /\ screen \in {"home", "other"} /\ ~token
    /\ screen' = "signedOut" /\ alert' = 0 /\ detail' = 0
    /\ UNCHANGED <<server, token, list, selection, paging, table, net>>

\* A login stores the token; the home screen appears at the next start.
SignIn ==
    /\ screen \in {"launch", "signedOut"} /\ ~token
    /\ token' = TRUE /\ screen' = "signedOut"
    /\ UNCHANGED <<server, alert, detail, list, selection, paging, table, net>>

\* The process ends, by a trap or otherwise, and starts again.
Relaunch ==
    /\ screen # "launch"
    /\ screen' = "launch" /\ alert' = 0 /\ detail' = 0
    /\ original' = <<>> /\ filtered' = <<>>
    /\ selectedTag' = NoTag /\ selectedState' = "all"
    /\ cursor' = 0 /\ hasNext' = TRUE
    /\ rows' = <<>> /\ reloadPending' = FALSE
    /\ net' = [s \in Slots |-> Idle]
    /\ UNCHANGED <<server, token>>

---------------------------------------------------------------------------
Completes(s) ==
    \/ PageArrives(s) \/ InitialPageArrives(s) \/ AllArrive(s)
    \/ DeleteArrives(s) \/ RefetchArrives(s) \/ LogoutArrives(s) \/ RequestFails(s)

UserActs ==
    \/ PushScreen \/ ViewWillAppear \/ ScrollViewDidScroll
    \/ \E t \in TagButtons : HandleTagButtonTap(t)
    \/ \E st \in StateButtons : ToggleCapsuleViewButton(st)
    \/ \E key \in SortBy, asc \in BOOLEAN : Sort(key, asc)
    \/ \E row \in DOMAIN rows :
         DidSelectItemAt(row) \/ CellForItemAt(row) \/ DidPressedDeleteButton(row)
    \/ ConfirmPressed \/ CancelPressed
    \/ LogoutButtonTapped \/ SignIn

Next ==
    \/ \E s \in Slots : ServerAnswers(s) \/ Completes(s)
    \/ \E i \in Created : ServerCreates(i)
    \/ \E i \in Opening : ServerOpens(i)
    \/ ReloadData \/ Launch \/ ShowLogin \/ Relaunch
    \/ UserActs

\* The main queue runs what is queued on it.
Spec == Init /\ [][Next]_vars /\ WF_vars(ReloadData)

---------------------------------------------------------------------------
(* Properties. *)

\* No capsule is listed twice, whatever the order in which pages, full fetches
\* and the replacing fetches of viewDidLoad and of a deletion arrive.
NoCapsuleTwice == UniqueList(original) /\ UniqueList(filtered)

\* The filtered list obeys the selected buttons in every state, also after a
\* deletion has replaced original behind its back.
FilteredObeysSelection ==
    \A n \in DOMAIN filtered : Passes(selectedTag, selectedState, filtered[n])

\* Whenever a step changes filtered, it leaves exactly what filter() makes of
\* original: no handler edits filtered on its own.
FilteredIsRebuilt ==
    [][filtered' # filtered => filtered' = Filter(selectedTag, selectedState, original)']_vars

\* Once no reload is queued the table shows filtered, so every change of
\* filtered has queued its reload.
RowsFollowFiltered == reloadPending \/ rows = filtered

\* A subscript of filtered can only be out of range in the window between a
\* change of filtered and the reload it has queued.
TrapNeedsPendingReload == screen = "trapped" => reloadPending /\ Len(rows) > Len(filtered)

\* No element of s says "opened" of a capsule outside open.
Honest(s, open) == \A n \in DOMAIN s : s[n].isOpened => s[n].id \in open

\* No copy of a capsule, in the list, in the table or in a reply under way,
\* says "opened" before the server does, and no other detail screen is shown.
NothingOpensEarly ==
    /\ Honest(original, opened) /\ Honest(filtered, opened) /\ Honest(rows, opened)
    /\ \A s \in Slots : Honest(net[s].reply.caps, opened)
    /\ detail # 0 => detail \in opened

\* The capsules that original or a reply under way knows of.
Known == IdsOf(original) \cup UNION {IdsOf(net[s].reply.caps) : s \in Slots}

\* Once a deleted capsule is neither in original nor in a reply under way, no
\* step brings it back: not a late page, not the two fetches that follow a
\* deletion, and not filtered, which may still hold it.
DeletedStaysGone ==
    [][\A i \in dead \ Known :
          i \notin Known' /\ (i \in IdsOf(filtered)' => i \in IdsOf(filtered))]_vars

\* Paging from cursor c has started, or some capsule ever created follows it.
Followed(c, created) == c = 0 \/ \E i \in created : i > c

\* A page is only asked for after a cursor that some capsule has followed, so
\* that the error of the last cursor can only come from a deletion.
NoRequestOfTheLastCursor ==
    \A s \in Slots : net[s].kind \in {"page", "initPage"} => Followed(net[s].arg, born)

\* "No more, so no need to request": once hasNext is cleared every capsule of
\* the server's pages is in the list.
NothingLeftToRequest == ~hasNext => Alive \subseteq IdsOf(original)
=============================================================================
