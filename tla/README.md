# TimeCapsule: a TLA+ model of the iOS client

TimeCapsule (`src/TimeCapsule/TimeCapsule/`) is an iOS application in Swift. A user
logs in, creates capsules (text, a tag, photos, a deadline), sees them in a list on
the home screen, and may open a capsule once its deadline has passed. The
application keeps almost no data of its own: everything is fetched from a server by
asynchronous requests whose completions change static or instance variables of
screens that may have moved on in the meantime. That is what is hard about it and
what this project is about. The application has no automated tests.

`Pods/` is third-party code and is left out, as are assets and project files.

## 1. The system

### Components, their state and their operations

| component | source | state | operations |
|---|---|---|---|
| preview list | `Home/Model/TimeCapsulePreviewModel.swift` | statics `original`, `filtered`, `selectedTag`, `selectedState` | `combineArrays`, `removingDuplicates`, `filterTag`, `filterState`, `filter`, six sorts |
| home screen | `Home/Home/ViewController/HomeViewController.swift`, `Home/Model/TimeCapsulePreview.swift`, the collection view cell | statics `cursor`, `hasNext`; the rows of the table | first page (twice), full fetch, next page on scrolling, filter and sort buttons, selection of a row, reload |
| deletion | `DeletionAlertViewController.swift` | the capsule held by the alert | confirm (DELETE, fetch, callback to the home screen, fetch again), cancel |
| creation | `CapsuleCreation2ViewController.swift`, its view, `ImageDeletionService.swift` | parallel arrays `images` and `imageIds`, tag button, flag `isTagSelected` | pick and upload a photo, delete a photo, choose a tag, send, cancel |
| session | `KeychainService.swift`, `SceneDelegate.swift`, `LoginViewController.swift`, the logout of `MyPageViewController.swift` | two tokens in the keychain, root view controller | login (e-mail, Kakao), logout, process start |
| forgotten password | `FindPasswordViewController.swift`, `ChangePasswordViewController.swift` | `email` (twice), `newPassword` | send code, verify code, change password |
| sign-up | `SignUpViewController.swift` | the form's values, five validity flags, labels | send code, verify code, sign up |
| my page forms | `MyPageViewController.swift`, `PasswordChangeViewController.swift`, `EditNicknameViewController.swift` | form values, user label | fetch user, change password, change nickname |
| capsule detail | `CapsuleViewController.swift`, `CapsuleAIViewController.swift` and their services | the capsule shown, its images | fetch detail, download images, AI summary |
| preview dates | `TimeCapsulePreview.swift`, the collection view cell | the global `dateFormatter` and its zone | `d_Day`, `progress`, configuration of a cell |
| push token | `FCMTokenManager.swift`, `AppDelegate.swift` | the FCM token | receive, send |
| API helpers, text checks, views | `API+Extension.swift`, `UIViewController+Extension.swift`, `*View.swift` | none | thin wrappers, regular expressions, layout |

### How they interact

The scene delegate reads the `RefreshToken` and shows the home or the login screen.
The home screen pushes my page, the creation screens and detail screens, and
presents the deletion alert; `viewWillAppear` fetches everything again on the way
back. The list is *static*: services, the alert, the sort menu and the home screen
all write it. All of them read the tokens from the keychain when they build a
request; a logout on my page deletes the tokens when its answer arrives, wherever the
user is by then.

### What is hard here

* Nothing limits the number of requests in flight, answers arrive in any order, and
  completions write to shared variables: the cursor and `hasNext` of paging, the
  list itself, the e-mail of a verification.
* Data is changed at once but shown later, by a block queued on the main queue.
* Two arrays are kept in step by position, and only one of them is limited.
* The keychain survives the process; a completion of several keychain calls may be
  cut short.
* My page, its forms and the detail screen are popped, covered or closed while their
  requests, downloads and queued blocks are under way; completions then pop or write
  whatever is there.
* All dates are parsed by one formatter whose time zone depends on what was parsed
  before, and days are rounded.
* Several replies replace state (the second page request of `viewDidLoad`, the fetch
  after a deletion) while others add to it.

`PROJECT.json` lists these as hazards, each at its line, with the properties that
cover it.

## 2. The modules

| module | models | kind |
|---|---|---|
| `PreviewList` | the list operations, as operators without recursion | operators |
| `PreviewLoops` | the loops of four of them, turn by turn | state machine, EXTENDS `PreviewList` |
| `HomeList` | home screen, preview service, deletion alert, against the server | state machine, EXTENDS `PreviewList` |
| `CapsuleBoard` | what the home screen promises, without the network | abstract specification |
| `HomeListBoard` | the refinement mapping from `HomeList` to `CapsuleBoard` | EXTENDS `HomeList`, INSTANCE `CapsuleBoard` |
| `CapsuleCreation` | the second creation screen against the server | state machine |
| `CapsuleDetail` | the detail screen, its image downloads, the AI summary | state machine |
| `PreviewDates` | countdown and progress bar of a cell | state machine over operators on hours |
| `Session` | keychain, login, logout, process end and start | state machine |
| `MyPage` | my page and its two forms, composed with the session | state machine, EXTENDS `Session` |
| `PasswordReset` | the two forgotten-password screens | state machine |
| `SignUp` | the sign-up screen | state machine |
| `MCPreviewLoops`, `MCHomeList`, `MCCapsuleCreation`, `MCCapsuleDetail`, `MCPreviewDates`, `MCPasswordReset`, `MCSignUp` | constants and symmetry for TLC | |
| `PreviewListProofs`, `HomeListProofs` | theorems about the lists and the home screen, its refinement included | proofs |
| `CapsuleCreationProofs`, `CapsuleDetailProofs`, `PreviewDatesProofs`, `MyPageProofs`, `PasswordResetProofs`, `SignUpProofs` | theorems about the module named; `MyPageProofs` also about `Session` | proofs |

### What all modules share

* **Atomicity.** Alamofire calls completions on the main queue and UIKit calls
  handlers there, so a handler or a completion is one action. A block that it queues
  with `DispatchQueue.main.async` or `asyncAfter` runs later and is an action of its
  own: `ReloadData` in `HomeList`, `PopToRootViewController` in `CapsuleCreation` (between
  the success and the pop the done button still works), `VertifiedBlock` in `SignUp`,
  `SwitchRoot` and `ShowLogin` after a logout. In `CapsuleDetail` these blocks form a
  sequence. The completion of an upload does nothing but queue its block, so the two
  are one step. In `Session` the process may end between two keychain calls: a
  completion there is a list of writes taken one by one.
* **The network.** A request is a record in a slot; the server handles it in one
  step, the completion runs in another, and between them anything may happen. A
  request may fail at any time, before or after the server has handled it. A reply
  that cannot be decoded leads to a console message or to no completion at all and
  changes nothing, so it is the same action as a failure. The server is external:
  it is modelled from the way the client uses its answers, and its actions are
  marked so in the map.
* **User input** is an existential choice. Text fields are abstracted to what the
  checks tell apart.
* **Bounds** are constants: the slots (requests in flight), the number of photos,
  logins, logouts. In `HomeList` a tap that would need a request waits for a free
  slot.
* **Mutants.** Definitions whose comment starts with "Mutant" are variants of the
  definition that follows them, each with a plausible mistake. No specification uses
  them; `PROJECT.json` pairs each with the property that must notice it.

### `PreviewList`

A preview is a record of `id` and `isOpened`, the fields that the code compares and
that two copies of one capsule may disagree on; tag, dates and title are functions
of the id. The operators pick positions of a sequence: `CombineArrays(l, r)` keeps
`l` and appends the elements of `r` whose id is new, `RemovingDuplicates` keeps the
first copy, `Filter` keeps what passes both buttons. `SortsOf` is the *set* of
sorted orders, because `sort(by:)` leaves equal elements in an unspecified order.

### `PreviewLoops`

The operators are not what the Swift code looks like, and everything said about the lists
rests on them. `PreviewLoops` is one call of `combineArrays`, `removingDuplicates`,
`filterTag` or `filterState` as the code runs it: `pos` is where the outer loop is, `inner`
and `has` belong to the inner loop of `combineArrays` (which goes on after a match), `seen`
is the set of `removingDuplicates`, and `result` is what has been built so far. The lists
are any, repeated ids included. After `combineArrays` the same reply is handled a second
time (`CombineAgain`), as after two page requests for one cursor. `filterState`, which
works in place, gets its list as `rightArray` like the others.

### `HomeList`

| variable | code |
|---|---|
| `original`, `filtered`, `selectedTag`, `selectedState` | the statics of `TimeCapsulePreviewModel` |
| `cursor`, `hasNext` | the statics of `TimeCapsulePreviewService` |
| `rows`, `reloadPending` | what the collection view shows, a queued `reloadData` |
| `screen`, `alert`, `detail`, `token` | what is on screen, the capsule of the alert and of the detail screen, the stored token |
| `net` | the requests in flight with their replies |
| `born`, `dead`, `opened` | the server |

One action per handler or completion; the names are those of the Swift functions.
`Launch` is `viewDidLoad` and `viewWillAppear` together: two page requests and a full
fetch, or the full fetch alone when there is no FCM token yet. `RefetchArrives` is
the fetch after a deletion: it replaces `original`, leaves `filtered`, and fetches
again. `Trap` is the out-of-range subscript of `filtered` in `cellForItemAt` and
`didSelectItemAt`; after it only `Relaunch` is possible. `Relaunch` may happen at any
time and resets everything but the server and the token.

### `CapsuleBoard` and `HomeListBoard`

The board is a list, a table that shows it, a flag that the table is out of date, a
detail screen, and the set of opened capsules. Its steps are: replace the list by any
list that names no capsule twice and calls none opened before it is, and mark the
table; redraw it, as a whole or one row; show and close a detail; stop at a row that
has gone while the table is out of date; restart. There are no requests, pages,
cursors or buttons. `HomeListBoard` maps `listed` to `filtered`, `shown` to `rows`,
`stale` to `reloadPending`, `running` to "not trapped", and states `ImplementsBoard`,
with the board's fairness.

### `CapsuleCreation`

One visit to the screen. A photo and its image id share a name, the number of the pick, so that the two
arrays can be compared. `uploads`, `deletes` and `requests` are in flight, with their
progress; `stored` is the server. `excused` is a history variable: the images whose
upload answer was lost, whose deletion failed or could not be asked for. A request also
remembers, as history, the photos whose upload had not been answered at the tap
(`late`). A request that has succeeded has its pop queued; until that block runs the form
may be edited and sent again. The limit of four pictures is the constant `MaxImages`.

### `CapsuleDetail`

`views` is what each detail screen holds: its list of image URLs, the image views it
has added with their page, the width of the scroll view and the dots of the page
control. `details`, `downloads` and `queue` are what is under way; a controller lives
while it is on display or one of its requests or queued blocks holds it (`Alive`), but
a download holds it weakly. Screens are numbered, so that a late block of one screen
meets the next one.

### `PreviewDates`

One capsule and a clock in hours. `zone` is the zone of the global formatter, which
only `stringToDate` sets; `DeadlineDate(z)` is the deadline as parsed in zone `z`. The
day count rounds towards zero, as `dateComponents` does. `replies` are the flags
`isOpened` in the answers under way: the replacing fetches install them in any order, so a
copy from before the opening may follow a newer one. `progress` is a pair,
numerator and denominator, because the denominator can be zero. The creation date is
any hour of the first day, and the deadline any hour from two days before it.

### `Session`

A token is the number of the login it was issued for, so a mixed pair is visible.
`KeychainService.save` deletes the entry and adds it, two writes. Requests are numbered
in the order of sending. The server may grant every logout, also the second of two for
one session: nothing in the client shows that it would not. `interrupted` is history: the
last completion was cut short by the end of the process, and none has ended since. A
second logout schedules the login screen a second time, which replaces one login screen
by another; one flag tells of both. When the process ends, the answers under way are
dropped; what the server makes of those requests no later step depends on. A login does
not change the root: `presentToHome` builds a navigation controller that is never
presented.

### `MyPage`

The navigation stack over the home screen is `screen` (its top) and `leaving` (the
animation of a pop is running: the popped form keeps its navigation controller, and
taps are not delivered). A request remembers the token it was sent with, whether its
controller is still in the stack (`mine`), and whether my page has fetched since
(`newest`). The label remembers whether the newest fetch brought it and, as history, which
nickname was known when the page was opened (`seen`). A form's request outlives the form
and may still change the account. Nickname and password on the server are named by the number of changes, so
that a new one always differs from those before it; a password that is changed back to
an earlier one is therefore not covered. `PageNext` composes the steps: the session's own steps,
the logout button (on my page only), the pages' steps, and the replacement of the root
or the end of the process, which also drop the stack (`PagesGone`).

### `PasswordReset`

`checks` and `changes` are the requests of the two screens, `account` is the password on
the server. A change that has timed out may still be carried out ("forgotten"). A tap
sends what `newPassword` holds whether or not the form is valid. `verified`, `resent` and
`overlapped` are history variables; nothing reads them but properties.

### `SignUp`

The fields are inputs of the taps. `email`, `nickname`, `password` and the validity
flags are the controller's variables; `emailError`, `codeLabel` and `checkEnabled`
are what the screen shows. `asked` and `closing` are history variables; the second is what
was verified, or being checked, when the block of the first accepted code ran. The server
accepts an address for a code only if it has no account, and a sign-up only under the same
condition. A request that has timed out may still be carried out; its answer is heard by
nobody ("unheard").

## 3. What TLC checks

| run | module | checks | shows | states |
|---|---|---|---|---|
| `list_operations` | `MCPreviewLoops` with `PreviewLoops.cfg` | `OperatorsAreTheLoops`, `DuplicateReplyIsHarmless` | The loops of TimeCapsulePreviewModel, turn by turn, compute what the operators of PreviewList say, on every list of up to 2 previews and every reply of up to 3, repeated ids included; a reply that is handled a second time adds nothing. | 229,929 |
| `home_deletion` | `MCHomeList` with `HomeListDeletion.cfg` | `TypeOK`, `NoCapsuleTwice`, `RowsFollowFiltered`, `NoRequestOfTheLastCursor`, `FilteredObeysSelection`, `TrapNeedsPendingReload`, `FilteredIsRebuilt`, `DeletedStaysGone` | Two capsules in pages of one, one of them deleted while pages, the replacing page of viewDidLoad and full fetches are under way and a tag is selected: no capsule is listed twice, no page is asked for beyond the last cursor, the filtered list stays what filter() makes of original, and a forgotten capsule does not come back. | 471,349 |
| `home_opening` | `MCHomeList` with `HomeListOpening.cfg` | `NothingOpensEarly`, `ImplementsBoard` | A capsule is created and another reaches its deadline while fetches are under way, lists are sorted and the state buttons toggled: nothing is shown as opened, and no detail screen opened, before its deadline; and what the filtered list holds reaches the table if the main queue runs the reloads queued on it. The home screen, the liveness included, implements CapsuleBoard. | 167,726 |
| `home_incomplete` | `MCHomeList` with `HomeListComplete.cfg` | `NothingLeftToRequest` | hasNext is cleared while the list is missing capsules: the first page, asked for twice by viewDidLoad, arrives after a later page and replaces the list. | violation |
| `creation` | `MCCapsuleCreation` with `CapsuleCreation.cfg` | `TypeOK`, `ArraysInStep`, `ImagesAccountedFor`, `RequestsNameATag`, `NothingLeftOut` | Uploads, deletions and the creation request in any order, with more photos than the screen shows: the two arrays of the creation screen stay in step as long as no photo is refused, no image is orphaned without a failure, no request carries the prompt as its tag, and every request, a second one while the first is under way or its pop is queued included, carries each image whose upload was answered before the tap. | 9,132,616 |
| `creation_limit` | `MCCapsuleCreation` with `CapsuleCreationLimit.cfg` | `AtMostFourImages` | A fifth photo is refused by the screen, but its id is sent with the capsule. | violation |
| `my_page` | `MyPage` with `MyPage.cfg` | `PageTypeOK`, `TokensOfOneLogin`, `HomeHasAToken`, `LogoutEndsItsOwnSession`, `LabelOfThisVisit`, `OnlyOverlapLosesMyPage`, `PagesSpeakForTheSession`, `LogoutLeadsToLogin`, `WrongMeansWrongOrChanged` | My page and its forms over the session: overlapping logins, logouts and process ends keep the two tokens consistent, end a later session only by the second answer to a doubly tapped logout, and lead from a logout to the login screen, while double taps, late answers and pops during an animation mislead the pages only in the ways stated. | 1,872,364 |
| `session_login` | `Session` with `SessionLogin.cfg` | `LoginLeadsHome` | A successful login stores its tokens and leaves the user on the login screen. | violation |
| `reset` | `MCPasswordReset` with `PasswordReset.cfg` | `TypeOK`, `OnlyResendingMisleads`, `LoginWithStoredPassword` | Verifications and password changes overlap with edits of the form: the change screen is for a verified e-mail unless the e-mail was replaced during a verification, and the login screen comes back with the account holding the password the screen stored last, unless two changes were under way at once. | 6,165 |
| `sign_up` | `MCSignUp` with `SignUp.cfg` | `TypeOK`, `SentIsEntered`, `FormTellsTheTruth`, `CheckedForGood` | The three buttons of the sign-up form, edits between taps and answers in any order: a sign-up carries one valid form, the labels and the dismissal rest on something the server has said, and once the block of an accepted code has run no address is verified whose check was not under way then, requests that have timed out included. | 371,777 |
| `detail` | `MCCapsuleDetail` with `CapsuleDetail.cfg` | `TypeOK`, `ImagesInPlace`, `BlankPageExplained`, `DownloadedIsShown` | Detail replies and image downloads of two screens end in any order, with bad URLs and failures, under a summary or after the screen was closed: an image is on its page, can be reached, and is shown once it has been downloaded. | 144,675 |
| `dates` | `MCPreviewDates` with `PreviewDates.cfg` | `StatusIsTrue`, `BarIsTrue`, `NeverBackwards` | Every creation hour and deadline, on a device outside Seoul time whose shared formatter changes its zone: the countdown and the bar of a cell are true when they are drawn, and they run backwards only from "can be opened" to "D-1", when an answer from before the opening is applied after a newer one. | 281,430 |

### Bounds

* `home_deletion`: two capsules of different tags, one deletable, pages of one, three
  slots: the three requests of `Launch` overlap with each other, and a deletion with a
  page and a full fetch. The invariants about paging are proved for any number.
* `home_opening`: one capsule at the start and one created later; one may open; two
  slots, so `Launch` takes its branch without an FCM token and pages are asked for by
  scrolling only. No symmetry, because of the liveness properties.
* `home_incomplete`: three capsules in pages of two, the smallest list with a second
  page that does not repeat the first.
* `creation`: a limit of two pictures and three picks exercise "full", "refused",
  "deleted and refilled" and all orders of three uploads, and two creation requests a
  double tap, a retry and a tap between a success and its pop; `creation_limit` uses the real limit, four.
* `my_page`: two logins and two logouts, with a process end between any two keychain
  calls, so that the second answer to a doubly tapped logout meets a later login; two requests of the pages under way, so that a double tap, a late fetch and a
  pop during an animation happen; one change of the nickname or the password, after which a
  second request finds the new one. `session_login` uses `Session` alone.
* `detail`: two screens and two summaries; no images, or three of which one has a bad
  URL, so that downloads overtake each other within a screen and across screens.
* `dates`: days of four hours, four and a half days, a device three hours off: every
  creation hour, every deadline and every moment of drawing relative to both.
* `reset`: two e-mails, two passwords and two requests in flight per screen.
* `sign_up`: two addresses of which either may have an account, two passwords and two
  requests in flight, of the same kind or of different kinds.
* `list_operations`: every list of up to two previews and every reply of up to three, of
  three capsules with either value of `isOpened`: ids repeated within the list, within the
  reply and across both. Both properties are proved for any length.

Symmetry is used for the slots of `HomeList` and for e-mails, passwords and slots of
the form modules, which only occur in equality tests, and never with a liveness property.

### Fairness

`WF(ReloadData)` in `HomeList`, `WF(KeychainCall)` and `WF(SwitchRoot)` in `Session` and
`MyPage`, `WF(MainQueue)` in `CapsuleDetail`: the main queue goes on with the block it
runs and runs the blocks queued on it (the delayed one included). No fairness is
assumed of the user, the server, the network, the downloads or the operating system.
`CapsuleBoard` promises `WF(Redraw)`; `home_opening` shows that `WF(ReloadData)` gives it.

### Deadlock

Deadlock is checked everywhere but in the runs whose cfg says `CHECK_DEADLOCK FALSE`:
there the user may have left the screen for good (sign-up, password reset, creation, the detail screen)
or have used up the bounded requests, after which nothing more happens; or a call of a
list operation has returned.

## 4. What is proved

Of the forty properties that the passing runs check, TLAPS proves thirty-seven as theorems
of the specifications, and the safety part of a thirty-eighth, for every value of the
constants: any
number of capsules, photos, screens, logins and requests in flight, any page size, any
list of URLs, any length of the day. The assumptions on the constants are the named
`ASSUME`s of the modules, which TLC evaluates in the runs; they say that bounds are
natural numbers and that "no tag", "empty" and "bad" are not among the real values.

Hardly any of the invariants is inductive, and mostly for the same reason: a
completion copies what a request under way holds, so that the invariant has to say
what requests and replies under way may hold. Each proof module starts with its
inductive invariant, has one lemma per action or group of similar actions, and ends
with the theorems.

| module | theorem | property |
|---|---|---|
| `HomeListProofs` | `TypeCorrect`, `NeverTwice`, `SelectionObeyed`, `NeverOpensEarly`, `RowsFollow`, `TrapWindow`, `LastCursorNotRequested` | `TypeOK`, `NoCapsuleTwice`, `FilteredObeysSelection`, `NothingOpensEarly`, `RowsFollowFiltered`, `TrapNeedsPendingReload`, `NoRequestOfTheLastCursor` |
| | `AlwaysRebuilt`, `GoneForGood` | the action properties `FilteredIsRebuilt`, `DeletedStaysGone` |
| | `Refinement` | `Board!Safety`, the safety part of `ImplementsBoard` |
| `PreviewListProofs` | `LoopsComputeOperators`, `TwiceIsHarmless` | `OperatorsAreTheLoops`, `DuplicateReplyIsHarmless` |
| `CapsuleCreationProofs` | `TypeCorrect`, `ArraysStayInStep`, `ImagesAccounted`, `TagIsNamed`, `AllImagesAreSent` | `TypeOK`, `ArraysInStep`, `ImagesAccountedFor`, `RequestsNameATag`, `NothingLeftOut` |
| | `OnlyRefusedExceed` | `AtMostFourImages`, as long as the limit has refused no photo |
| `MyPageProofs` | `TypeCorrect`, `NoMixedPair`, `NoHomeWithoutToken`, `LogoutIsItsOwn` | `PageTypeOK`, `TokensOfOneLogin`, `HomeHasAToken`, `LogoutEndsItsOwnSession` |
| | `PagesImplementSession` | the composition implements `Session`, its fairness apart |
| | `LostTokenWaitsForLogin` | the safety half of `LogoutLeadsToLogin` |
| | `SessionPromises` | `TokensOfOneLogin`, `HomeHasAToken`, `LogoutEndsItsOwnSession` and `TypeOK`, of `Session` alone |
| | `OneSessionAtATime`, `NoStrayPop`, `LabelCatchesUp` | `PagesSpeakForTheSession`, `OnlyOverlapLosesMyPage`, `LabelOfThisVisit` |
| | `WrongIsExplained` | the action property `WrongMeansWrongOrChanged` |
| `PasswordResetProofs` | `TypeCorrect`, `VerifiedUnlessResent`, `LoginAfterChange` | `TypeOK`, `OnlyResendingMisleads`, `LoginWithStoredPassword` |
| `SignUpProofs` | `TypeCorrect`, `OnlyEnteredIsSent`, `NeverALie`, `NoCheckAfterSuccess` | `TypeOK`, `SentIsEntered`, `FormTellsTheTruth`, `CheckedForGood` |
| `CapsuleDetailProofs` | `TypeCorrect`, `ImagesStayInPlace`, `NoImageIsLost` | `TypeOK`, `ImagesInPlace`, `BlankPageExplained` |
| | `ImagesComeToStay` | the safety half of `DownloadedIsShown` |
| `PreviewDatesProofs` | `StatusWasTrue`, `BarWasTrue` | `StatusIsTrue`, `BarIsTrue` |
| | `NeverCountsUp` | the action property `NeverBackwards` |

**The lists** (`PreviewListProofs`). `Ranking` (the positions picked from a sequence can
be numbered in order) and `PickProperties` give that `CombineArrays`,
`RemovingDuplicates`, `Filter` and every order in `SortsOf` keep lists free of
duplicates and add no element of their own; `RemovingDuplicatesIsIdentity` shows that
the two calls of `removingDuplicates` in `fetchdataPagination` change nothing.
`CombineArraysComplete`, which needs the first position of an id in the reply, shows
that the capsules of the result are those of the two lists.

What a recursive definition computes would need induction over its argument. The loops are
a state machine instead, so that induction is over steps: `LoopInv` says that `result` is
what the operator makes of the part of the list that is done (`LoopDone`), that `has` tells
whether the inner loop has met the id, that `seen` is the set of what is done, and that a
second call starts with a list that has every id of the reply. A turn of a loop then needs
one fact about each operator, what it does when its list gets one more element
(`CombineOneMore`, `RemovingOneMore`, `FilterTagOneMore`, `FilterStateOneMore`, all from
`PickOneMore`); and the second call changes nothing by `CombineAddsNothing`.

**The home screen** (`HomeListProofs`). `IndInv` says of every message in `net`
(`GoodNet`) that its list is free of duplicates and honest about what has opened, that a
page request starts after a cursor that some capsule follows, and that a reply with
`hasNext` holds such a cursor; and of the state that `hasNext` implies a followed cursor.
`GoneForGood` is about a step: every new element of a list or of a reply under way comes
from a list or a reply that was there before (`ListStaysKnown`), or from the server's
answer, which holds living capsules only (`RepliesStayKnown`). `Refinement` maps initial
states to initial states and shows each action to be one step of the board or to leave
its variables alone, from `IndInv` and `DetailCovers`: while a detail is shown the detail
screen is on top, so that no second one is opened over it.

**Creation** (`CapsuleCreationProofs`). `PhotosOK`: an image on the
server is being uploaded, or its id is in `imageIds`, once, or its deletion has been asked
for, and never two of these, unless it is excused; so an upload's answer never adds an id
that is already there, and a deletion never meets an upload. `ArraysOK` is `ArraysInStep` with the arrays' types, and
needs that `Array.remove(at:)` at one position keeps two equal arrays equal. `ScreenOK`:
a tag that counts as selected is not the prompt. `SentOK` is `NothingLeftOut` with the fact
that makes it inductive: whatever is being uploaded, or still to be picked, counts as late
in every request already sent. `AtMostFourImages` is the property that the run
`creation_limit` violates; `OnlyRefusedExceed` shows that the refused photo, whose id stays,
is the only cause.

**Session and my page** (`MyPageProofs`). `SessionInv` is about the steps of `Session`.
`HandlerOK` lists the writes that a completion under way has left and what the keychain
holds at that point; a logout's completion meets the tokens of its own session or is the
second answer to one tap too many (`Repeated`). `LogoutsOK` says that all logouts under way
are of one session, the one whose `AccessToken` the home screen holds, and that one of that
session has been answered before (`Ended`) if the login screen is up or on its way: so an
answer that comes after a new login is never the first. `PageInv` adds the pages: the calls
of pages still in the stack carry the token stored while the home screen is up and the
newest fetch brings no nickname older than a known one (`HomeOK`), every other fetch of the
page none older than what was known when it was opened (`LabelOK`), and at most one call of
a form is under way unless `overlap` is set (`StackOK`). `LostTokenWaitsForLogin` is the part of `LogoutLeadsToLogin`
that needs no fairness: a home screen without a token has the login screen scheduled, and
no step undoes that. `PagesImplementSession` needs no invariant; every step of the
composition is a step of the session or leaves it alone.

**Forgotten password** (`PasswordResetProofs`). Until `resent` is set, every verification
under way is for the e-mail that the controller holds; an accepted one is known to the
server. Until two changes overlap, the one under way carries the password that the screen
stores (`UnderWayIsStored`), and once it is accepted the account has it
(`AcceptedIsStored`); a tap that stores another one while a request is out is an overlap.

**Sign-up** (`SignUpProofs`). `GoodRequest`: the reply that a request holds is true of the
server, which forgets nothing, so that it stays true until the completion shows it.
`ClosedOK`: once a block has run the check button is disabled, and what is verified or
being checked was so when it ran. It rests on `NoNewCheck`: no step but a tap on the check
button adds an address that can become verified.

**Detail** (`CapsuleDetailProofs`). An image is in one place: being downloaded, in a block
on the main queue, or shown; and a screen's detail is asked for, queued or displayed, once.
So no page is drawn twice, and none is lost on the way. `ImagesComeToStay`: a block leaves
the queue only by showing its image, and the block of a detail, which empties the scroll
view, meets one that is empty. The proof does not need the URLs
of a capsule to be distinct, since the code goes by position (`enumerated()`).

**Dates** (`PreviewDatesProofs`). A cell shows the values of the moment it was configured
(`CellOK`), and neither the copy nor an answer under way calls a capsule opened before the
server has, after the deadline (`OpenOK`); so an older copy can take a cell back by one day
at most. What remains is arithmetic
of whole days (`DivBounds`, `DivMonotone`, `DaysToShrink`, `DaysSinceGrow`): rounding
towards zero is monotone. The offset of the device drops out because a cell parses its
creation date, which sets the zone, before its deadline. `DatesAssumption` asks for a
clock bound of at least a day, because the creation date is any hour of the first day.

### Only model-checked

* Liveness: `LogoutLeadsToLogin`, `DownloadedIsShown`, and the fairness part of
  `ImplementsBoard`. For the first two, the theorems above show that what is waited for is
  under way and that no step undoes it; that it comes is left to TLC.
* The three runs that expect a violation.

## 5. Findings

The runs that expect a violation, each about a comment or a message of the code:

* **home_incomplete** (`NothingLeftToRequest`, `Home/Home/ViewController/HomeViewController.swift:53`). viewDidLoad asks for the first page twice; the second reply replaces original, but hasNext is shared with all page replies and is never set again. The comment at Home/Model/TimeCapsulePreview.swift:58 says of hasNext = false "더이상 없으므로 요청할 필요 없다는 상태를 저장하기" (there is no more, so remember that there is no need to request). The run shows a later page clearing hasNext and the replacing first page arriving after it: hasNext is false and the list lacks the later capsules.
* **creation_limit** (`AtMostFourImages`, `Home/CapsuleCreation/ViewController/CapsuleCreation2ViewController.swift:230`). addImageToCollectionView refuses a picture beyond four, printing "최대 4개까지 가능합니다" (at most 4 are possible, Home/CapsuleCreation/ViewController/CapsuleCreation2ViewController.swift:202), but its caller appends the image id all the same. The run shows a capsule request with five image ids. From there on the two arrays are out of step, and deleteImageButtonTap, which looks up the id by the position of the picture, may delete another image.
* **session_login** (`LoginLeadsHome`, `Login/ViewController/LoginViewController.swift:78`). The comment "서버 연동시 홈화면으로 이동" (Login/ViewController/LoginViewController.swift:120 and 173) says that a successful login moves to the home screen. presentToHome builds a HomeViewController in a navigation controller and presents neither. The run shows a login that has stored its tokens and stays on the login screen until the process is started again.

Observations that no run is dedicated to:

* `FindPasswordViewController.swift:127` passes on `self.email`, which a tap on the
  send button may have replaced while the verification was under way: the change
  screen then opens for an e-mail that was not verified. `OnlyResendingMisleads` shows
  that this is the only way.
* `ChangePasswordViewController.swift:85`: the tap validates the form, and shows an error
  (lines 65 to 72) when the new password is badly formed or not repeated, but sends the
  request all the same, with the last entry that was valid, or with the empty password if
  there was none. The comment at line 80 announces the validation, and no early return
  follows it.
* `CapsuleCreation2ViewController.swift:84`: the done button stays active. A second tap
  before the answer, or after a success while the pop is still queued, creates the
  capsule a second time; a photo whose upload has not been answered at the tap is left
  out without notice. `NothingLeftOut` shows that no other photo is.
* `MyPageViewController.swift:89`: of a logout tapped twice both answers delete the tokens.
  If the user has logged in again before the second one, it deletes those of the new
  session. `LogoutEndsItsOwnSession` shows that this is the only way.
* `MyPageViewController.swift:56`: an older fetch that is answered last takes back a nickname
  changed during the visit, until the page is opened again.
* `SignUpViewController.swift:115`: the message asks for a nickname of at least two
  characters ("2자 이상의 닉네임을 입력해주세요."); line 97 checks that it is not empty.
* `HomeViewController.swift:53`: a page answered before a capsule was opened may replace the
  list after a newer answer. A cell then goes from "can be opened" back to "D-1"
  (`NeverBackwards`).
* `TimeCapsulePreview.swift:184`: "D-1" is shown for up to a day after the deadline,
  because days are rounded towards zero (the exception in `StatusIsTrue`).
* `CapsuleViewController.swift:100`: the controller is the delegate of no scroll view,
  so `scrollViewDidScroll` never runs and the page dots do not follow.
* A double tap on a form of my page can close my page as well (`OnlyOverlapLosesMyPage`)
  or report the current password as wrong after it was changed
  (`WrongMeansWrongOrChanged`).

## 6. What is not modelled

* Layout, colours, animation, keyboard handling, the regular expressions (a text is
  valid or not), the parsing of dates in an unexpected format (`createdDate` traps,
  `deadlineDate` falls back on the present, `TimeCapsulePreview.swift:171`).
* Days of 23 or 25 hours, which `Calendar.current` counts in zones with daylight saving
  time: in `PreviewDates` all days have `HoursPerDay` hours.
* An answer to an upload that reports success without an image id: `response.result!`
  (`CapsuleCreation2ViewController.swift:230`) then traps.
* `removingDuplicates` compares all fields of a preview; the model compares `id` and
  `isOpened`, the others being functions of the id on the server.
* `scrollViewDidScroll` of the detail screen, which never runs.
* The push token: stored in the keychain when Firebase issues it, read and sent twice in
  `viewDidLoad`, the answers only printed. `HomeList` has its effect on `Launch`. A token
  that is replaced later is not sent before the next launch (a hazard without a
  property).
* The API helpers: each request and its completion is part of the action that sends it.
* Nicknames and passwords that return to an earlier value; several accounts on one
  phone.
* `withdrawButtonTapped`: no button is connected to it.
* `Authentication.swift`, `CapsuleCreationService.swift`, `NetworkConnectionCheck.swift`
  and `ViewController.swift`: unused.
* A second scene in one process, in which the static list of one account could be
  shown to another.
* The button targets of `MyPageViewController` and `PasswordChangeViewController` are
  registered inside closures of stored properties, where `self` may not be the
  controller; they are taken to reach it.
* Kakao's own login: it either calls `kakaoLoginToServer` or prints an error.

## 7. Plan

Modelled and checked: every component with state of its own but the push token. Proved:
every safety property that a run checks, and what the liveness properties rest on. What is
left:

1. the push token, with a property about a token that Firebase replaces later;
2. shorter proofs, where lemmas on `EXCEPT` and on the requests under way repeat from
   module to module.
