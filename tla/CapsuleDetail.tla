---------------------------- MODULE CapsuleDetail ----------------------------
(***************************************************************************)
(* The detail screen of an opened capsule, CapsuleViewController, and the  *)
(* summary screen presented over it, CapsuleAIViewController.              *)
(*                                                                         *)
(* The detail reply queues a block that starts one download per image; a   *)
(* download ends on a background queue, at any time, and queues a block    *)
(* that adds the image to the scroll view.  The main queue is first in,    *)
(* first out.  A screen may be closed, and the next one opened, while      *)
(* replies, downloads and blocks of the first are under way.               *)
(***************************************************************************)
EXTENDS Integers, Sequences

CONSTANTS
    Urls,          \* image URLs
    BadUrls,       \* those that URL(string:) rejects
    Lists,         \* the image lists the server may answer with
    MaxScreens,    \* bound: detail screens opened
    MaxSummaries   \* bound: summary screens opened

ASSUME DetailAssumption ==
    /\ BadUrls \subseteq Urls
    /\ Lists \subseteq Seq(Urls)
    /\ MaxScreens \in Nat /\ MaxSummaries \in Nat

Screens == 1 .. MaxScreens
Summaries == 1 .. MaxSummaries
Home == 0
Login == -1

VARIABLES
    token,         \* a RefreshToken is stored
    current,       \* the detail screen on display, or Home or Login
    views,         \* what each detail screen holds
    details,       \* detail requests under way
    downloads,     \* downloads under way
    failures,      \* history: downloads that failed
    queue,         \* blocks on the main queue
    summary,       \* the summary screen on display, 0 for none
    summaries      \* progress of each summary screen's request

ai == <<summary, summaries>>
net == <<details, downloads, failures>>
vars == <<token, current, views, net, queue, ai>>

\* loaded: title and text are set; width: pages of contentSize; dots: pages of
\* the page control.
NewView == [opened |-> FALSE, loaded |-> FALSE, imageUrls |-> <<>>,
            subviews |-> <<>>, width |-> 0, dots |-> 0]
Pages == UNION {DOMAIN list : list \in Lists}
Download == [screen: Screens, page: Pages, url: Urls]
DetailBlock == [kind: {"detail"}, screen: Screens, list: Lists]
ImageBlock == [kind: {"image"}, screen: Screens, page: Pages, url: Urls]

TypeOK ==
    /\ token \in BOOLEAN
    /\ current \in {Home, Login} \cup Screens
    /\ views \in [Screens -> [opened: BOOLEAN, loaded: BOOLEAN, imageUrls: Seq(Urls),
                              subviews: Seq([page: Pages, url: Urls]),
                              width: {0} \cup Pages, dots: {0} \cup Pages]]
    /\ details \subseteq Screens /\ downloads \subseteq Download /\ failures \subseteq Download
    /\ queue \in Seq(DetailBlock \cup ImageBlock)
    /\ summary \in {0} \cup Summaries
    /\ summaries \in [Summaries -> {"unused", "sent", "shown", "closed"}]

Init ==
    /\ token = TRUE /\ current = Home
    /\ views = [v \in Screens |-> NewView]
    /\ details = {} /\ downloads = {} /\ failures = {} /\ queue = <<>>
    /\ summary = 0 /\ summaries = [n \in Summaries |-> "unused"]

\* The controller exists: it is on display, or a request or a queued block holds
\* it.  Downloads do not.
Alive(v) ==
    v = current \/ v \in details \/ \E n \in DOMAIN queue : queue[n].screen = v

---------------------------------------------------------------------------
(* CapsuleViewController. *)

\* didSelectItemAt of the home screen presents a new controller; viewDidLoad
\* asks for the detail, but not without a token.
DidSelectItemAt(v) ==
    /\ current = Home /\ ~views[v].opened
    /\ current' = v
    /\ views' = [views EXCEPT ![v].opened = TRUE]
    /\ details' = IF token THEN details \cup {v} ELSE details
    /\ UNCHANGED <<token, downloads, failures, queue, ai>>

\* The completion of fetchTimeCapsuleDetail queues a block.  An answer without
\* result or without images is the empty list.
DetailArrives(v, list) ==
    /\ v \in details
    /\ details' = details \ {v}
    /\ queue' = Append(queue, [kind |-> "detail", screen |-> v, list |-> list])
    /\ UNCHANGED <<token, current, views, downloads, failures, ai>>

DetailFails(v) ==
    /\ v \in details
    /\ details' = details \ {v}
    /\ UNCHANGED <<token, current, views, downloads, failures, queue, ai>>

\* The downloads that addImagesToScrollView starts.
Started(v, list) ==
    {[screen |-> v, page |-> n, url |-> list[n]] : n \in {m \in DOMAIN list : list[m] \notin BadUrls}}

\* displayCapsuleDetail's block, with addImagesToScrollView; without images the
\* scroll view is hidden and the text centred.
ShowDetail(block) ==
    /\ views' = [views EXCEPT ![block.screen].loaded = TRUE,
                              ![block.screen].imageUrls = block.list,
                              ![block.screen].subviews = <<>>,
                              ![block.screen].dots = Len(block.list)]
    /\ downloads' = downloads \cup Started(block.screen, block.list)

\* Mutant: the image goes to the next place in the order of arrival.
ShowImageInOrder(block) ==
    /\ views' = [views EXCEPT ![block.screen].subviews =
                                  Append(@, [page |-> Len(@) + 1, url |-> block.url]),
                              ![block.screen].width = Len(views[block.screen].imageUrls)]
    /\ UNCHANGED downloads

\* Mutant: the index is taken to start at one where it starts at zero.
ShowImageBefore(block) ==
    /\ views' = [views EXCEPT ![block.screen].subviews =
                                  Append(@, [page |-> block.page - 1, url |-> block.url]),
                              ![block.screen].width = Len(views[block.screen].imageUrls)]
    /\ UNCHANGED downloads

\* Mutant: the scroll view is emptied for every image.
ShowImageAlone(block) ==
    /\ views' = [views EXCEPT ![block.screen].subviews =
                                  <<[page |-> block.page, url |-> block.url]>>,
                              ![block.screen].width = Len(views[block.screen].imageUrls)]
    /\ UNCHANGED downloads

\* The block of one download: the image is placed by its index in the list, and
\* the content is given its full width.
ShowImage(block) ==
    /\ views' = [views EXCEPT ![block.screen].subviews =
                                  Append(@, [page |-> block.page, url |-> block.url]),
                              ![block.screen].width = Len(views[block.screen].imageUrls)]
    /\ UNCHANGED downloads

\* Mutant: nothing is drawn under the summary screen.
MainQueueWhenVisible ==
    /\ queue # <<>> /\ summary = 0
    /\ \/ Head(queue).kind = "detail" /\ ShowDetail(Head(queue))
       \/ Head(queue).kind = "image" /\ ShowImage(Head(queue))
    /\ queue' = Tail(queue)
    /\ UNCHANGED <<token, current, details, failures, ai>>

\* The main queue runs its next block.
MainQueue ==
    /\ queue # <<>>
    /\ \/ Head(queue).kind = "detail" /\ ShowDetail(Head(queue))
       \/ Head(queue).kind = "image" /\ ShowImage(Head(queue))
    /\ queue' = Tail(queue)
    /\ UNCHANGED <<token, current, details, failures, ai>>

\* dataTask ends with an image; self is weak.
DownloadArrives(d) ==
    /\ d \in downloads
    /\ downloads' = downloads \ {d}
    /\ queue' = IF Alive(d.screen)
                THEN Append(queue, [kind |-> "image", screen |-> d.screen,
                                    page |-> d.page, url |-> d.url])
                ELSE queue
    /\ UNCHANGED <<token, current, views, details, failures, ai>>

DownloadFails(d) ==
    /\ d \in downloads
    /\ downloads' = downloads \ {d}
    /\ failures' = failures \cup {d}
    /\ UNCHANGED <<token, current, views, details, queue, ai>>

\* capsuleExitButtonTap of the detail screen, the summary not being on top.
CapsuleExitButtonTap ==
    /\ current \in Screens /\ summary = 0
    /\ current' = Home
    /\ UNCHANGED <<token, views, net, queue, ai>>

---------------------------------------------------------------------------
(* CapsuleAIViewController. *)

\* AISummaryButtonTap presents a new controller, which asks for a summary.
AISummaryButtonTap(n) ==
    /\ current \in Screens /\ summary = 0 /\ summaries[n] = "unused"
    /\ summary' = n
    /\ summaries' = [summaries EXCEPT ![n] = IF token THEN "sent" ELSE "closed"]
    /\ UNCHANGED <<token, current, views, net, queue>>

\* displayAISummary's completion sets the label of its own controller.
SummaryArrives(n) ==
    /\ summaries[n] = "sent"
    /\ summaries' = [summaries EXCEPT ![n] = "shown"]
    /\ UNCHANGED <<token, current, views, net, queue, summary>>

SummaryFails(n) ==
    /\ summaries[n] = "sent"
    /\ summaries' = [summaries EXCEPT ![n] = "closed"]
    /\ UNCHANGED <<token, current, views, net, queue, summary>>

\* originalContentButtonTap and capsuleExitButtonTap both dismiss the summary
\* screen only.
OriginalContentButtonTap ==
    /\ summary # 0 /\ summary' = 0
    /\ UNCHANGED <<token, current, views, net, queue, summaries>>

---------------------------------------------------------------------------
\* A logout that was under way deletes the token; a new root replaces all
\* screens half a second later.
LogoutArrives ==
    /\ token /\ token' = FALSE
    /\ UNCHANGED <<current, views, net, queue, ai>>

SwitchRoot ==
    /\ ~token /\ current # Login
    /\ current' = Login /\ summary' = 0
    /\ UNCHANGED <<token, views, net, queue, summaries>>

Next ==
    \/ MainQueue \/ CapsuleExitButtonTap \/ OriginalContentButtonTap
    \/ LogoutArrives \/ SwitchRoot
    \/ \E v \in Screens : \/ DidSelectItemAt(v) \/ DetailFails(v)
                          \/ \E list \in Lists : DetailArrives(v, list)
    \/ \E d \in downloads : DownloadArrives(d) \/ DownloadFails(d)
    \/ \E n \in Summaries : AISummaryButtonTap(n) \/ SummaryArrives(n) \/ SummaryFails(n)

Spec == Init /\ [][Next]_vars /\ WF_vars(MainQueue)

---------------------------------------------------------------------------
(* Properties. *)

\* Whatever the order in which the downloads end, an image lies on the page of
\* its place in the capsule's list, no page is used twice, and the page can be
\* scrolled to and has its dot, although only the blocks of the images set the
\* width and the last image may come first; also when the screen has been closed
\* and another opened in the meantime.
ImagesInPlace ==
    \A v \in Screens :
        LET view == views[v]
        IN  /\ \A n \in DOMAIN view.subviews :
                  /\ view.subviews[n].page \in DOMAIN view.imageUrls
                  /\ view.subviews[n].url = view.imageUrls[view.subviews[n].page]
                  /\ view.subviews[n].page <= view.width /\ view.subviews[n].page <= view.dots
            /\ \A m, n \in DOMAIN view.subviews :
                  view.subviews[m].page = view.subviews[n].page => m = n

\* A page of a screen on display is blank only if its URL is bad, its download
\* has failed or is under way, or its block is waiting on the main queue.
BlankPageExplained ==
    current \in Screens /\ views[current].loaded =>
        \A n \in DOMAIN views[current].imageUrls :
            LET url == views[current].imageUrls[n]
                d   == [screen |-> current, page |-> n, url |-> url]
            IN  \/ url \in BadUrls \/ d \in downloads \cup failures
                \/ \E m \in DOMAIN views[current].subviews : views[current].subviews[m].page = n
                \/ \E m \in DOMAIN queue : /\ queue[m].kind = "image" /\ queue[m].screen = current
                                           /\ queue[m].page = n

\* An image that has been downloaded for a screen is shown on it, whether or not
\* the summary covers it.
DownloadedIsShown ==
    \A v \in Screens : \A n \in Pages :
        (\E m \in DOMAIN queue : /\ queue[m].kind = "image"
                                 /\ queue[m].screen = v /\ queue[m].page = n)
            ~> (\E m \in DOMAIN views[v].subviews : views[v].subviews[m].page = n)
=============================================================================
