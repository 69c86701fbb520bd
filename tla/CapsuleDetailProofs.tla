------------------------- MODULE CapsuleDetailProofs -------------------------
(***************************************************************************)
(* The invariants of CapsuleDetail, for any image lists, whether or not a  *)
(* URL occurs in them twice, and any number of screens.  An image is in    *)
(* one place at a time: being downloaded, waiting in a block on the main   *)
(* queue, or shown.                                                        *)
(***************************************************************************)
EXTENDS CapsuleDetail, SequenceTheorems, TLAPS

View == [opened: BOOLEAN, loaded: BOOLEAN, imageUrls: Seq(Urls),
         subviews: Seq([page: Pages, url: Urls]),
         width: {0} \cup Pages, dots: {0} \cup Pages]
Block == DetailBlock \cup ImageBlock

\* The n-th page of screen v has its image, or a block with it is waiting.
Shown(v, n) == \E m \in DOMAIN views[v].subviews : views[v].subviews[m].page = n
Pending(v, n) == \E m \in DOMAIN queue : /\ queue[m].kind = "image" /\ queue[m].screen = v
                                         /\ queue[m].page = n

\* An image that a view still lacks: a download, or a block on the queue.
Expected(x) ==
    /\ views[x.screen].loaded
    /\ x.page \in DOMAIN views[x.screen].imageUrls
    /\ x.url = views[x.screen].imageUrls[x.page]
    /\ ~Shown(x.screen, x.page)

---------------------------------------------------------------------------
(* The inductive invariant. *)

\* The dots are there from the detail on, the width from the first image on.
ViewOK(view) ==
    /\ view.imageUrls \in Lists \cup {<<>>}
    /\ view.loaded => view.opened
    /\ ~view.loaded => view.imageUrls = <<>> /\ view.subviews = <<>>
    /\ view.dots = Len(view.imageUrls)
    /\ view.subviews # <<>> => view.width = Len(view.imageUrls)
    /\ \A n \in DOMAIN view.subviews :
          /\ view.subviews[n].page \in DOMAIN view.imageUrls
          /\ view.subviews[n].url = view.imageUrls[view.subviews[n].page]
    /\ \A m, n \in DOMAIN view.subviews :
          view.subviews[m].page = view.subviews[n].page => m = n

ViewsOK == \A v \in Screens : ViewOK(views[v])

DetailsOK == \A v \in details : views[v].opened /\ ~views[v].loaded

DownloadsOK == \A d \in downloads : Expected(d) /\ ~Pending(d.screen, d.page)

\* A screen has one detail, which is asked for, queued or displayed.
DetailBlocksOK ==
    \A n \in DOMAIN queue : queue[n].kind = "detail" =>
        LET v == queue[n].screen
        IN  /\ v \notin details /\ views[v].opened /\ ~views[v].loaded
            /\ \A m \in DOMAIN queue :
                  queue[m].kind = "detail" /\ queue[m].screen = v => m = n

ImageBlocksOK ==
    \A n \in DOMAIN queue : queue[n].kind = "image" =>
        /\ Expected(queue[n])
        /\ \A m \in DOMAIN queue :
              /\ queue[m].kind = "image" /\ queue[m].screen = queue[n].screen
              /\ queue[m].page = queue[n].page
              => m = n

IndInv == /\ TypeOK /\ ViewsOK /\ DetailsOK /\ DownloadsOK /\ DetailBlocksOK /\ ImageBlocksOK
          /\ BlankPageExplained

---------------------------------------------------------------------------
(* Lists, blocks and screens. *)

\* The pages of a list are its indices.
LEMMA ListFacts ==
    /\ \A n \in Pages : n \in Nat \ {0}
    /\ \A list \in Lists \cup {<<>>} :
          /\ list \in Seq(Urls) /\ Len(list) \in {0} \cup Pages /\ DOMAIN list \subseteq Pages
          /\ Len(list) \in Nat /\ DOMAIN list = 1 .. Len(list)
<1>1. \A list \in Lists : list \in Seq(Urls) /\ DOMAIN list = 1 .. Len(list) /\ Len(list) \in Nat
  BY DetailAssumption
<1>2. \A n \in Pages : n \in Nat \ {0}
  BY <1>1 DEF Pages
<1>3. ASSUME NEW list \in Lists
      PROVE  Len(list) \in {0} \cup Pages /\ DOMAIN list \subseteq Pages
  <2>1. DOMAIN list \subseteq Pages
    BY DEF Pages
  <2>2. Len(list) = 0 \/ Len(list) \in 1 .. Len(list)
    BY <1>1
  <2>3. QED  BY <1>1, <2>1, <2>2
<1>4. <<>> \in Seq(Urls) /\ Len(<<>>) = 0 /\ DOMAIN <<>> = {} /\ {} = 1 .. 0
  OBVIOUS
<1>5. QED  BY <1>1, <1>2, <1>3, <1>4

\* What the two kinds of blocks hold.
LEMMA BlockFacts ==
    ASSUME NEW b \in Block
    PROVE  /\ b.kind \in {"detail", "image"} /\ b.screen \in Screens
           /\ b.kind = "detail" => b.list \in Lists
           /\ b.kind = "image" => b.page \in Pages /\ b.url \in Urls
BY DEF Block, DetailBlock, ImageBlock

\* The types in a form that the steps use.
LEMMA TypeFacts ==
    ASSUME TypeOK
    PROVE  /\ views \in [Screens -> View]
           /\ queue \in Seq(Block) /\ Len(queue) \in Nat /\ DOMAIN queue = 1 .. Len(queue)
           /\ \A n \in DOMAIN queue : queue[n] \in Block
           /\ \A d \in downloads : d.screen \in Screens /\ d.page \in Pages /\ d.url \in Urls
           /\ \A v \in details : v \in Screens
<1>1. views \in [Screens -> View] /\ queue \in Seq(Block)
  BY DEF TypeOK, View, Block
<1>2. Len(queue) \in Nat /\ DOMAIN queue = 1 .. Len(queue) /\ \A n \in DOMAIN queue : queue[n] \in Block
  BY <1>1
<1>3. /\ \A d \in downloads : d.screen \in Screens /\ d.page \in Pages /\ d.url \in Urls
      /\ \A v \in details : v \in Screens
  BY DEF TypeOK, Download
<1>4. QED  BY <1>1, <1>2, <1>3

\* Neither the home screen nor the login screen is a detail screen.
LEMMA HomeIsNoScreen == Home \notin Screens /\ Login \notin Screens
BY DetailAssumption DEF Home, Login, Screens

---------------------------------------------------------------------------
(* Screens come and go. *)

\* The taps, the summary screen, and the end of the session: no view, no download
\* and no block changes, and at most the screen on display goes.
LEMMA ScreensKeep ==
    ASSUME IndInv,
           \/ CapsuleExitButtonTap \/ OriginalContentButtonTap \/ LogoutArrives \/ SwitchRoot
           \/ \E n \in Summaries : AISummaryButtonTap(n) \/ SummaryArrives(n) \/ SummaryFails(n)
    PROVE  IndInv'
<1> USE DEF CapsuleExitButtonTap, OriginalContentButtonTap, LogoutArrives, SwitchRoot,
            AISummaryButtonTap, SummaryArrives, SummaryFails, net
<1>1. UNCHANGED <<views, details, downloads, failures, queue>> /\ current' \in {current, Home, Login}
  BY DEF ai
<1>2. TypeOK'
  <2>1. token' \in BOOLEAN
    BY Zenon DEF IndInv, TypeOK, ai
  <2>2. summary' \in {0} \cup Summaries
    BY DEF IndInv, TypeOK, ai
  <2>3. summaries' \in [Summaries -> {"unused", "sent", "shown", "closed"}]
    BY DEF IndInv, TypeOK, ai
  <2>4. QED  BY <1>1, <2>1, <2>2, <2>3 DEF IndInv, TypeOK
<1>3. ViewsOK' /\ DetailsOK' /\ DownloadsOK' /\ DetailBlocksOK' /\ ImageBlocksOK'
  BY <1>1 DEF IndInv, ViewsOK, ViewOK, DetailsOK, DownloadsOK, DetailBlocksOK, ImageBlocksOK,
              Expected, Shown, Pending
<1>4. BlankPageExplained'
  BY <1>1, HomeIsNoScreen DEF IndInv, BlankPageExplained
<1>5. QED  BY <1>2, <1>3, <1>4 DEF IndInv

\* didSelectItemAt opens a screen that has shown nothing yet.
LEMMA SelectKeeps ==
    ASSUME IndInv, NEW v \in Screens, DidSelectItemAt(v)
    PROVE  IndInv'
<1> DEFINE w == [views[v] EXCEPT !.opened = TRUE]
<1>1. /\ ~views[v].opened /\ current' = v /\ views' = [views EXCEPT ![v] = w]
      /\ details' \in {details, details \cup {v}}
      /\ UNCHANGED <<token, downloads, failures, queue, summary, summaries>>
  BY DEF DidSelectItemAt, ai
<1>2. views \in [Screens -> View] /\ TypeOK
  BY TypeFacts DEF IndInv
<1>3. /\ w \in View /\ w.opened /\ w.loaded = views[v].loaded
      /\ w.imageUrls = views[v].imageUrls /\ w.subviews = views[v].subviews
      /\ w.width = views[v].width /\ w.dots = views[v].dots
  BY <1>2 DEF View
<1>4. ~views[v].loaded
  BY <1>1 DEF IndInv, ViewsOK, ViewOK
<1> HIDE DEF w
<1>5. /\ views' \in [Screens -> View]
      /\ \A u \in Screens : views'[u] = IF u = v THEN w ELSE views[u]
  BY <1>1, <1>2, <1>3
<1>6. TypeOK'
  BY <1>1, <1>2, <1>5 DEF TypeOK, View
<1>7. ViewsOK'
  <2>1. ViewOK(w)
    BY <1>3, <1>4 DEF IndInv, ViewsOK, ViewOK
  <2>2. QED  BY <1>5, <2>1 DEF IndInv, ViewsOK
<1>8. \A u \in Screens : /\ views'[u].loaded = views[u].loaded
                         /\ views'[u].imageUrls = views[u].imageUrls
                         /\ views'[u].subviews = views[u].subviews
                         /\ views[u].opened => views'[u].opened
  BY <1>3, <1>5
<1>9. DetailsOK'
  BY <1>1, <1>2, <1>3, <1>4, <1>5, <1>8, TypeFacts DEF IndInv, DetailsOK
<1>10. \A x : x.screen \in Screens /\ Expected(x) => Expected(x)'
  BY <1>8 DEF Expected, Shown
<1>11. DownloadsOK'
  BY <1>1, <1>2, <1>10, TypeFacts DEF IndInv, DownloadsOK, Pending
<1>12. DetailBlocksOK'
  <2>1. \A n \in DOMAIN queue : queue[n].kind = "detail" => queue[n].screen # v
    BY <1>1 DEF IndInv, DetailBlocksOK
  <2>2. \A n \in DOMAIN queue : queue[n].screen \in Screens
    BY <1>2, TypeFacts, BlockFacts
  <2>3. QED  BY <1>1, <1>8, <2>1, <2>2 DEF IndInv, DetailBlocksOK
<1>13. ImageBlocksOK'
  BY <1>1, <1>2, <1>10, TypeFacts, BlockFacts DEF IndInv, ImageBlocksOK
<1>14. BlankPageExplained'
  BY <1>1, <1>4, <1>8 DEF BlankPageExplained
<1>15. QED
  BY <1>6, <1>7, <1>9, <1>11, <1>12, <1>13, <1>14 DEF IndInv

---------------------------------------------------------------------------
(* Replies and downloads. *)

\* A failed detail request leaves an empty screen, a failed download a blank page.
LEMMA FailuresKeep ==
    ASSUME IndInv,
           (\E v \in Screens : DetailFails(v)) \/ (\E d \in downloads : DownloadFails(d))
    PROVE  IndInv'
<1> USE DEF DetailFails, DownloadFails
<1>1. /\ UNCHANGED <<token, current, views, queue, summary, summaries>>
      /\ details' \subseteq details /\ downloads' \subseteq downloads
      /\ downloads \cup failures \subseteq downloads' \cup failures'
      /\ failures' \subseteq failures \cup downloads
  BY DEF ai
<1>2. TypeOK'
  BY <1>1 DEF IndInv, TypeOK
<1>3. ViewsOK' /\ DetailsOK' /\ DownloadsOK' /\ DetailBlocksOK' /\ ImageBlocksOK'
  BY <1>1 DEF IndInv, ViewsOK, ViewOK, DetailsOK, DownloadsOK, DetailBlocksOK, ImageBlocksOK,
              Expected, Shown, Pending
<1>4. BlankPageExplained'
  BY <1>1 DEF IndInv, BlankPageExplained
<1>5. QED  BY <1>2, <1>3, <1>4 DEF IndInv

\* DispatchQueue.main.async puts a block at the end.
LEMMA Enqueued ==
    ASSUME TypeOK, NEW b \in Block, queue' = Append(queue, b)
    PROVE  /\ queue' \in Seq(Block)
           /\ DOMAIN queue \subseteq DOMAIN queue' /\ Len(queue) + 1 \in DOMAIN queue'
           /\ Len(queue) + 1 \notin DOMAIN queue
           /\ \A n \in DOMAIN queue' : n \in DOMAIN queue \/ n = Len(queue) + 1
           /\ \A n \in DOMAIN queue : queue'[n] = queue[n]
           /\ queue'[Len(queue) + 1] = b
<1>1. queue \in Seq(Block) /\ Len(queue) \in Nat /\ DOMAIN queue = 1 .. Len(queue)
  BY TypeFacts
<1>2. /\ queue' \in Seq(Block) /\ Len(queue') = Len(queue) + 1
      /\ \A i \in 1 .. Len(queue) : queue'[i] = queue[i]
      /\ queue'[Len(queue) + 1] = b
  BY <1>1, AppendProperties
<1>3. DOMAIN queue' = 1 .. Len(queue) + 1
  BY <1>2
<1>4. QED  BY <1>1, <1>2, <1>3

\* The detail of a screen comes once: its request is answered and gone.
LEMMA DetailArrivesKeeps ==
    ASSUME IndInv, NEW v \in Screens, NEW list \in Lists, DetailArrives(v, list)
    PROVE  IndInv'
<1> DEFINE b == [kind |-> "detail", screen |-> v, list |-> list]
<1>1. /\ v \in details /\ details' = details \ {v} /\ queue' = Append(queue, b)
      /\ UNCHANGED <<token, current, views, downloads, failures, summary, summaries>>
  BY DEF DetailArrives, ai
<1>2. b \in Block /\ b.kind = "detail" /\ b.screen = v /\ TypeOK
  BY DEF Block, DetailBlock, IndInv
<1> HIDE DEF b
<1>3. /\ queue' \in Seq(Block)
      /\ DOMAIN queue \subseteq DOMAIN queue'
      /\ \A n \in DOMAIN queue' : n \in DOMAIN queue \/ n = Len(queue) + 1
      /\ \A n \in DOMAIN queue : queue'[n] = queue[n]
      /\ queue'[Len(queue) + 1] = b
  BY <1>1, <1>2, Enqueued
<1>4. TypeOK'
  BY <1>1, <1>2, <1>3 DEF TypeOK, Block
<1>5. ViewsOK' /\ DetailsOK'
  BY <1>1 DEF IndInv, ViewsOK, ViewOK, DetailsOK
<1>6. /\ \A n \in DOMAIN queue' : queue'[n].kind = "image" => n \in DOMAIN queue
      /\ \A n \in DOMAIN queue' : queue'[n].kind = "detail" =>
            n \in DOMAIN queue \/ (n = Len(queue) + 1 /\ queue'[n].screen = v)
  BY <1>2, <1>3
<1>7. DownloadsOK'
  BY <1>1, <1>3, <1>6 DEF IndInv, DownloadsOK, Expected, Shown, Pending
<1>8. DetailBlocksOK'
  <2>1. \A n \in DOMAIN queue : queue[n].kind = "detail" => queue[n].screen # v
    BY <1>1 DEF IndInv, DetailBlocksOK
  <2>2. views[v].opened /\ ~views[v].loaded
    BY <1>1 DEF IndInv, DetailsOK
  <2>3. QED  BY <1>1, <1>3, <1>6, <2>1, <2>2 DEF IndInv, DetailBlocksOK
<1>9. ImageBlocksOK'
  <2>1. \A n \in DOMAIN queue : queue'[n] = queue[n]
    BY <1>3
  <2>2. \A n \in DOMAIN queue : queue[n].kind = "image" => Expected(queue[n])'
    BY <1>1, <2>1 DEF IndInv, ImageBlocksOK, Expected, Shown
  <2>3. QED  BY <1>6, <2>1, <2>2 DEF IndInv, ImageBlocksOK
<1>10. BlankPageExplained'
  BY <1>1, <1>3 DEF IndInv, BlankPageExplained
<1>11. QED  BY <1>4, <1>5, <1>7, <1>8, <1>9, <1>10 DEF IndInv

\* A download ends: its image waits in a block, or nobody wants it any more, which
\* is not so while the screen is on display.
LEMMA DownloadArrivesKeeps ==
    ASSUME IndInv, NEW d \in downloads, DownloadArrives(d)
    PROVE  IndInv'
<1> DEFINE b == [kind |-> "image", screen |-> d.screen, page |-> d.page, url |-> d.url]
<1>1. /\ downloads' = downloads \ {d}
      /\ \/ queue' = Append(queue, b)
         \/ queue' = queue /\ d.screen # current
      /\ UNCHANGED <<token, current, views, details, failures, summary, summaries>>
  BY DEF DownloadArrives, ai, Alive
<1>2. TypeOK /\ d \in Download /\ d.screen \in Screens /\ d.page \in Pages /\ d.url \in Urls
  BY DEF IndInv, TypeOK, Download
<1>3. /\ b \in Block /\ b.kind = "image"
      /\ b.screen = d.screen /\ b.page = d.page /\ b.url = d.url
  BY <1>2 DEF Block, ImageBlock
<1> HIDE DEF b
<1>4. ViewsOK' /\ DetailsOK'
  BY <1>1 DEF IndInv, ViewsOK, ViewOK, DetailsOK
<1>5. Expected(d) /\ ~Pending(d.screen, d.page)
  BY DEF IndInv, DownloadsOK
<1>6. \A x \in downloads : x.screen = d.screen /\ x.page = d.page => x = d
  <2> SUFFICES ASSUME NEW x \in downloads, x.screen = d.screen, x.page = d.page PROVE x = d
    OBVIOUS
  <2>1. x.url = d.url
    BY <1>5 DEF IndInv, DownloadsOK, Expected
  <2>2. x \in Download /\ d \in Download
    BY <1>2 DEF TypeOK
  <2>3. QED  BY <2>1, <2>2 DEF Download
<1>7. CASE queue' = queue /\ d.screen # current
  <2>1. TypeOK'
    BY <1>1, <1>2, <1>7 DEF TypeOK
  <2>2. DownloadsOK' /\ DetailBlocksOK' /\ ImageBlocksOK'
    BY <1>1, <1>7 DEF IndInv, DownloadsOK, DetailBlocksOK, ImageBlocksOK, Expected, Shown, Pending
  <2>3. \A n : [screen |-> current, page |-> n, url |-> views[current].imageUrls[n]] # d
    BY <1>7
  <2>4. BlankPageExplained'
    BY <1>1, <1>7, <2>3 DEF IndInv, BlankPageExplained
  <2>5. QED  BY <1>4, <2>1, <2>2, <2>4 DEF IndInv
<1>8. CASE queue' = Append(queue, b)
  <2>1. /\ queue' \in Seq(Block)
        /\ DOMAIN queue \subseteq DOMAIN queue' /\ Len(queue) + 1 \in DOMAIN queue'
        /\ \A n \in DOMAIN queue' : n \in DOMAIN queue \/ n = Len(queue) + 1
        /\ \A n \in DOMAIN queue : queue'[n] = queue[n]
        /\ queue'[Len(queue) + 1] = b
    BY <1>2, <1>3, <1>8, Enqueued
  <2>2. TypeOK'
    BY <1>1, <1>2, <2>1 DEF TypeOK, Block
  <2>3. /\ \A n \in DOMAIN queue' : queue'[n].kind = "detail" => n \in DOMAIN queue
        /\ \A n \in DOMAIN queue' : queue'[n].kind = "image" => n \in DOMAIN queue \/ queue'[n] = b
    BY <1>3, <2>1
  <2>4. DownloadsOK'
    <3> SUFFICES ASSUME NEW x \in downloads, x # d
                 PROVE  Expected(x)' /\ ~Pending(x.screen, x.page)'
      BY <1>1 DEF DownloadsOK, Expected, Shown, Pending
    <3>1. Expected(x) /\ ~Pending(x.screen, x.page)
      BY DEF IndInv, DownloadsOK
    <3>2. Expected(x)'
      BY <1>1, <3>1 DEF Expected, Shown
    <3>3. b.screen # x.screen \/ b.page # x.page
      BY <1>3, <1>6
    <3>4. ~Pending(x.screen, x.page)'
      BY <2>1, <2>3, <3>1, <3>3 DEF Pending
    <3>5. QED  BY <3>2, <3>4
  <2>5. DetailBlocksOK'
    BY <1>1, <2>1, <2>3 DEF IndInv, DetailBlocksOK
  <2>6. ImageBlocksOK'
    <3>1. \A n \in DOMAIN queue : queue[n].kind = "image" =>
             queue[n].screen # b.screen \/ queue[n].page # b.page
      BY <1>3, <1>5 DEF Pending
    <3>2. Expected(b)
      BY <1>3, <1>5 DEF Expected
    <3>3. \A n \in DOMAIN queue' : queue'[n].kind = "image" => Expected(queue'[n])
      BY <2>1, <2>3, <3>2 DEF IndInv, ImageBlocksOK
    <3>4. \A x : Expected(x) => Expected(x)'
      BY <1>1 DEF Expected, Shown
    <3>5. \A m, n \in DOMAIN queue' :
             /\ queue'[m].kind = "image" /\ queue'[n].kind = "image"
             /\ queue'[m].screen = queue'[n].screen /\ queue'[m].page = queue'[n].page
             => m = n
      BY <2>1, <3>1 DEF IndInv, ImageBlocksOK
    <3>6. QED  BY <3>3, <3>4, <3>5 DEF ImageBlocksOK
  <2>7. BlankPageExplained'
    <3> SUFFICES ASSUME current \in Screens, views[current].loaded,
                        NEW n \in DOMAIN views[current].imageUrls,
                        views[current].imageUrls[n] \notin BadUrls,
                        [screen |-> current, page |-> n, url |-> views[current].imageUrls[n]]
                            \notin downloads' \cup failures
                 PROVE  Shown(current, n) \/ Pending(current, n)'
      BY <1>1 DEF BlankPageExplained, Shown, Pending
    <3>1. CASE d = [screen |-> current, page |-> n, url |-> views[current].imageUrls[n]]
      BY <1>1, <1>3, <2>1, <3>1 DEF Pending
    <3>2. CASE d # [screen |-> current, page |-> n, url |-> views[current].imageUrls[n]]
      <4>1. Shown(current, n) \/ Pending(current, n)
        BY <1>1, <3>2 DEF IndInv, BlankPageExplained, Shown, Pending
      <4>2. QED  BY <1>1, <2>1, <4>1 DEF Pending
    <3>3. QED  BY <3>1, <3>2
  <2>8. QED  BY <1>4, <2>2, <2>4, <2>5, <2>6, <2>7 DEF IndInv
<1>9. QED  BY <1>1, <1>7, <1>8

---------------------------------------------------------------------------
(* The main queue. *)

\* The main queue takes its first block; the others move up.
LEMMA Dequeued ==
    ASSUME TypeOK, queue # <<>>, queue' = Tail(queue)
    PROVE  /\ Head(queue) \in Block /\ 1 \in DOMAIN queue /\ Head(queue) = queue[1]
           /\ queue' \in Seq(Block)
           /\ \A n \in DOMAIN queue' : /\ n + 1 \in DOMAIN queue /\ queue'[n] = queue[n + 1]
                                      /\ n + 1 # 1
           /\ \A n \in DOMAIN queue : n # 1 => n - 1 \in DOMAIN queue' /\ queue'[n - 1] = queue[n]
           /\ \A m, n \in DOMAIN queue' : m + 1 = n + 1 => m = n
<1>1. queue \in Seq(Block) /\ Len(queue) \in Nat /\ DOMAIN queue = 1 .. Len(queue)
  BY TypeFacts
<1>2. /\ Head(queue) \in Block /\ queue' \in Seq(Block) /\ Len(queue') = Len(queue) - 1
      /\ \A i \in 1 .. Len(queue') : queue'[i] = queue[i + 1]
  BY <1>1, HeadTailProperties
<1>3. Len(queue) # 0 /\ Head(queue) = queue[1]
  BY <1>1
<1>4. DOMAIN queue' = 1 .. Len(queue) - 1
  BY <1>2
<1>5. QED  BY <1>1, <1>2, <1>3, <1>4

\* No two blocks left on the queue are of the same page.
LEMMA StillDistinct ==
    ASSUME TypeOK, ImageBlocksOK, queue # <<>>, queue' = Tail(queue)
    PROVE  \A m, n \in DOMAIN queue' :
              /\ queue'[m].kind = "image" /\ queue'[n].kind = "image"
              /\ queue'[m].screen = queue'[n].screen /\ queue'[m].page = queue'[n].page
              => m = n
<1> SUFFICES ASSUME NEW m \in DOMAIN queue', NEW n \in DOMAIN queue',
                    queue'[m].kind = "image", queue'[n].kind = "image",
                    queue'[m].screen = queue'[n].screen, queue'[m].page = queue'[n].page
             PROVE  m = n
  OBVIOUS
<1>1. /\ m + 1 \in DOMAIN queue /\ queue'[m] = queue[m + 1]
      /\ n + 1 \in DOMAIN queue /\ queue'[n] = queue[n + 1]
      /\ m + 1 = n + 1 => m = n
  BY Dequeued
<1>2. m + 1 = n + 1
  BY <1>1 DEF ImageBlocksOK
<1>3. QED  BY <1>1, <1>2

\* One view is replaced by another of the same screen.
LEMMA OneViewChanges ==
    ASSUME IndInv, NEW v \in Screens, NEW w \in View, views' = [views EXCEPT ![v] = w], ViewOK(w)
    PROVE  /\ views' \in [Screens -> View] /\ ViewsOK'
           /\ \A u \in Screens : views'[u] = IF u = v THEN w ELSE views[u]
<1>1. views \in [Screens -> View]
  BY TypeFacts DEF IndInv
<1>2. \A u \in Screens : views'[u] = IF u = v THEN w ELSE views[u]
  BY <1>1
<1>3. views' \in [Screens -> View]
  BY <1>1
<1>4. ViewsOK'
  BY <1>2 DEF IndInv, ViewsOK
<1>5. QED  BY <1>2, <1>3, <1>4

\* displayCapsuleDetail's block meets a screen that has shown nothing, and for
\* which nothing is being downloaded or waiting.
LEMMA ShowDetailKeeps ==
    ASSUME IndInv, MainQueue, Head(queue).kind = "detail"
    PROVE  IndInv'
<1> DEFINE b == Head(queue)
           v == b.screen
           list == b.list
           w == [views[v] EXCEPT !.loaded = TRUE, !.imageUrls = list, !.subviews = <<>>,
                                 !.dots = Len(list)]
<1>1. /\ queue # <<>> /\ queue' = Tail(queue)
      /\ UNCHANGED <<token, current, details, failures, summary, summaries>>
  BY DEF MainQueue, ai
<1>2. ShowDetail(b)
  BY DEF MainQueue
<1>3. /\ b \in Block /\ 1 \in DOMAIN queue /\ b = queue[1]
      /\ queue' \in Seq(Block)
      /\ \A n \in DOMAIN queue' : /\ n + 1 \in DOMAIN queue /\ queue'[n] = queue[n + 1]
                                 /\ n + 1 # 1
      /\ \A n \in DOMAIN queue : n # 1 => n - 1 \in DOMAIN queue' /\ queue'[n - 1] = queue[n]
      /\ \A m, n \in DOMAIN queue' : m + 1 = n + 1 => m = n
  BY <1>1, Dequeued DEF IndInv
<1>4. TypeOK /\ views \in [Screens -> View] /\ v \in Screens /\ list \in Lists
  BY <1>3, TypeFacts, BlockFacts DEF IndInv
<1>5. /\ v \notin details /\ views[v].opened /\ ~views[v].loaded
      /\ \A n \in DOMAIN queue : n # 1 /\ queue[n].kind = "detail" => queue[n].screen # v
  BY <1>3 DEF IndInv, DetailBlocksOK
<1>6. /\ \A n \in DOMAIN queue : queue[n].kind = "image" => queue[n].screen # v
      /\ \A d \in downloads : d.screen # v
  BY <1>5 DEF IndInv, ImageBlocksOK, DownloadsOK, Expected
<1>7. views' = [views EXCEPT ![v] = w] /\ downloads' = downloads \cup Started(v, list)
  BY <1>2, <1>4 DEF ShowDetail
<1>8. list \in Seq(Urls) /\ Len(list) \in {0} \cup Pages /\ DOMAIN list \subseteq Pages
  BY <1>4, ListFacts
<1>9. /\ w \in View /\ w.opened = views[v].opened /\ w.loaded /\ w.imageUrls = list
      /\ w.subviews = <<>> /\ w.dots = Len(list)
  <2>1. /\ w.opened = views[v].opened /\ w.loaded = TRUE /\ w.imageUrls = list
        /\ w.subviews = <<>> /\ w.dots = Len(list)
    BY <1>4 DEF View
  <2>2. <<>> \in Seq([page: Pages, url: Urls])
    OBVIOUS
  <2>3. w \in View
    BY <1>4, <1>8, <2>2 DEF View
  <2>4. QED  BY <2>1, <2>3
<1>10. ASSUME NEW d \in Started(v, list)
       PROVE  d \in Download /\ d.screen = v /\ d.page \in DOMAIN list /\ d.url = list[d.page]
  BY <1>4, <1>8 DEF Started, Download
<1>11. \A n \in DOMAIN list : list[n] \notin BadUrls =>
          [screen |-> v, page |-> n, url |-> list[n]] \in Started(v, list)
  BY DEF Started
<1> HIDE DEF b, v, list, w
<1>12. ViewOK(w)
  <2>1. DOMAIN w.subviews = {}
    BY <1>9
  <2>2. QED  BY <1>4, <1>5, <1>9, <2>1 DEF ViewOK
<1>13. /\ views' \in [Screens -> View] /\ ViewsOK'
       /\ \A u \in Screens : views'[u] = IF u = v THEN w ELSE views[u]
  BY <1>4, <1>7, <1>9, <1>12, OneViewChanges
<1>14. downloads' \subseteq Download
  BY <1>4, <1>7, <1>10 DEF TypeOK
<1>15. TypeOK'
  BY <1>1, <1>3, <1>4, <1>13, <1>14 DEF TypeOK, View, Block
<1>16. \A x : x.screen \in Screens /\ x.screen # v /\ Expected(x) => Expected(x)'
  BY <1>13 DEF Expected, Shown
<1>17. DetailsOK'
  BY <1>1, <1>4, <1>5, <1>13, TypeFacts DEF IndInv, DetailsOK
<1>18. DownloadsOK'
  <2>1. ASSUME NEW d \in downloads PROVE Expected(d)' /\ ~Pending(d.screen, d.page)'
    <3>1. Expected(d) /\ ~Pending(d.screen, d.page) /\ d.screen \in Screens
      BY <1>4, TypeFacts DEF IndInv, DownloadsOK
    <3>2. Expected(d)'
      BY <1>6, <1>16, <3>1
    <3>3. ~Pending(d.screen, d.page)'
      BY <1>3, <3>1 DEF Pending
    <3>4. QED  BY <3>2, <3>3
  <2>2. ASSUME NEW d \in Started(v, list) PROVE Expected(d)' /\ ~Pending(d.screen, d.page)'
    <3>1. Expected(d)'
      <4>1. views'[v] = w /\ DOMAIN w.subviews = {}
        BY <1>4, <1>9, <1>13
      <4>2. QED  BY <1>9, <1>10, <4>1 DEF Expected, Shown
    <3>2. ~Pending(d.screen, d.page)'
      BY <1>3, <1>6, <1>10 DEF Pending
    <3>3. QED  BY <3>1, <3>2
  <2>3. QED  BY <1>7, <2>1, <2>2 DEF DownloadsOK
<1>19. \A n \in DOMAIN queue : queue[n] \in Block /\ queue[n].screen \in Screens
  BY <1>4, TypeFacts, BlockFacts
<1>20. DetailBlocksOK'
  <2> SUFFICES ASSUME NEW n \in DOMAIN queue', queue'[n].kind = "detail"
               PROVE  LET u == queue'[n].screen
                      IN  /\ u \notin details' /\ views'[u].opened /\ ~views'[u].loaded
                          /\ \A m \in DOMAIN queue' :
                                queue'[m].kind = "detail" /\ queue'[m].screen = u => m = n
    BY DEF DetailBlocksOK
  <2>1. n + 1 \in DOMAIN queue /\ queue'[n] = queue[n + 1] /\ queue[n + 1].screen # v
    BY <1>3, <1>5
  <2>2. \A m \in DOMAIN queue' :
           queue'[m].kind = "detail" /\ queue'[m].screen = queue'[n].screen => m = n
    BY <1>3, <2>1 DEF IndInv, DetailBlocksOK
  <2>3. QED  BY <1>1, <1>13, <1>19, <2>1, <2>2 DEF IndInv, DetailBlocksOK
<1>21. ImageBlocksOK'
  <2>1. ASSUME NEW n \in DOMAIN queue', queue'[n].kind = "image"
        PROVE  /\ n + 1 \in DOMAIN queue /\ queue'[n] = queue[n + 1]
               /\ queue[n + 1].screen # v /\ queue[n + 1].screen \in Screens
               /\ Expected(queue[n + 1])
    BY <1>3, <1>6, <1>19, <2>1 DEF IndInv, ImageBlocksOK
  <2>2. ASSUME NEW n \in DOMAIN queue', queue'[n].kind = "image"
        PROVE  Expected(queue[n])'
    <3>1. /\ queue'[n] = queue[n + 1] /\ Expected(queue[n + 1])
          /\ views'[queue[n + 1].screen] = views[queue[n + 1].screen]
      BY <1>13, <2>1, <2>2
    <3>2. QED  BY <3>1 DEF Expected, Shown
  <2>3. \A m, n \in DOMAIN queue' :
           /\ queue'[m].kind = "image" /\ queue'[n].kind = "image"
           /\ queue'[m].screen = queue'[n].screen /\ queue'[m].page = queue'[n].page
           => m = n
    BY <1>1, StillDistinct DEF IndInv
  <2>4. QED  BY <2>2, <2>3 DEF ImageBlocksOK
<1>22. BlankPageExplained'
  <2> SUFFICES ASSUME current \in Screens, views'[current].loaded,
                      NEW n \in DOMAIN views'[current].imageUrls,
                      views'[current].imageUrls[n] \notin BadUrls,
                      [screen |-> current, page |-> n, url |-> views'[current].imageUrls[n]]
                          \notin downloads' \cup failures
               PROVE  Shown(current, n)' \/ Pending(current, n)'
    BY <1>1 DEF BlankPageExplained, Shown, Pending
  <2>1. current # v
    BY <1>7, <1>9, <1>11, <1>13
  <2>2. views'[current] = views[current]
    BY <1>13, <2>1
  <2>3. Shown(current, n) \/ Pending(current, n)
    BY <1>7, <2>2 DEF IndInv, BlankPageExplained, Shown, Pending
  <2>4. Shown(current, n) => Shown(current, n)'
    BY <1>1, <2>2 DEF Shown
  <2>5. Pending(current, n) => Pending(current, n)'
    <3> SUFFICES ASSUME NEW m \in DOMAIN queue, queue[m].kind = "image",
                        queue[m].screen = current, queue[m].page = n
                 PROVE  Pending(current, n)'
      BY DEF Pending
    <3>1. m # 1
      BY <1>3, <2>1 DEF v
    <3>2. m - 1 \in DOMAIN queue' /\ queue'[m - 1] = queue[m]
      BY <1>3, <3>1
    <3>3. QED  BY <1>1, <3>2 DEF Pending
  <2>6. QED  BY <2>3, <2>4, <2>5
<1>23. QED
  BY <1>13, <1>15, <1>17, <1>18, <1>20, <1>21, <1>22 DEF IndInv

\* The block of a download meets the view that it was started for, with the page
\* still blank; the page is filled and the content gets its full width.
LEMMA ShowImageKeeps ==
    ASSUME IndInv, MainQueue, Head(queue).kind = "image"
    PROVE  IndInv'
<1> DEFINE b == Head(queue)
           v == b.screen
           x == [page |-> b.page, url |-> b.url]
           subs == views[v].subviews
           w == [views[v] EXCEPT !.subviews = Append(subs, x), !.width = Len(views[v].imageUrls)]
<1>1. /\ queue # <<>> /\ queue' = Tail(queue)
      /\ UNCHANGED <<token, current, details, downloads, failures, summary, summaries>>
  BY DEF MainQueue, ShowImage, ai
<1>2. ShowImage(b)
  BY DEF MainQueue
<1>3. /\ b \in Block /\ 1 \in DOMAIN queue /\ b = queue[1]
      /\ queue' \in Seq(Block)
      /\ \A n \in DOMAIN queue' : /\ n + 1 \in DOMAIN queue /\ queue'[n] = queue[n + 1]
                                 /\ n + 1 # 1
      /\ \A n \in DOMAIN queue : n # 1 => n - 1 \in DOMAIN queue' /\ queue'[n - 1] = queue[n]
      /\ \A m, n \in DOMAIN queue' : m + 1 = n + 1 => m = n
  BY <1>1, Dequeued DEF IndInv
<1>4. /\ TypeOK /\ views \in [Screens -> View] /\ v \in Screens
      /\ b.page \in Pages /\ b.url \in Urls
  BY <1>3, TypeFacts, BlockFacts DEF IndInv
<1>5. views' = [views EXCEPT ![v] = w]
  BY <1>2, <1>4 DEF ShowImage
<1>6. Expected(b) /\ ViewOK(views[v])
  BY <1>3, <1>4 DEF IndInv, ImageBlocksOK, ViewsOK
<1>7. /\ subs \in Seq([page: Pages, url: Urls]) /\ x \in [page: Pages, url: Urls]
      /\ views[v].opened \in BOOLEAN /\ views[v].loaded \in BOOLEAN
  BY <1>4 DEF View
<1>8. x.page = b.page /\ x.url = b.url
  OBVIOUS
<1>9. Len(views[v].imageUrls) \in {0} \cup Pages
  BY <1>6, ListFacts DEF ViewOK
<1> HIDE DEF x
<1>10. /\ Append(subs, x) \in Seq([page: Pages, url: Urls]) /\ Append(subs, x) # <<>>
       /\ DOMAIN subs \subseteq DOMAIN Append(subs, x)
       /\ Len(subs) + 1 \in DOMAIN Append(subs, x)
       /\ \A n \in DOMAIN Append(subs, x) : n \in DOMAIN subs \/ n = Len(subs) + 1
       /\ \A n \in DOMAIN subs : Append(subs, x)[n] = subs[n]
       /\ Append(subs, x)[Len(subs) + 1] = x
  <2> HIDE DEF subs
  <2>1. /\ Append(subs, x) \in Seq([page: Pages, url: Urls])
        /\ Len(Append(subs, x)) = Len(subs) + 1
        /\ \A i \in 1 .. Len(subs) : Append(subs, x)[i] = subs[i]
        /\ Append(subs, x)[Len(subs) + 1] = x
    BY <1>7, AppendProperties
  <2>2. /\ DOMAIN subs = 1 .. Len(subs) /\ Len(subs) \in Nat
        /\ DOMAIN Append(subs, x) = 1 .. Len(subs) + 1
    BY <1>7, <2>1
  <2>3. QED  BY <2>1, <2>2
<1>11. /\ w \in View /\ w.opened = views[v].opened /\ w.loaded = views[v].loaded
       /\ w.imageUrls = views[v].imageUrls /\ w.subviews = Append(subs, x)
       /\ w.width = Len(views[v].imageUrls) /\ w.dots = views[v].dots
  <2>1. /\ w.opened = views[v].opened /\ w.loaded = views[v].loaded
        /\ w.imageUrls = views[v].imageUrls /\ w.subviews = Append(subs, x)
        /\ w.width = Len(views[v].imageUrls) /\ w.dots = views[v].dots
    BY <1>4 DEF View
  <2>2. w \in View
    BY <1>4, <1>9, <1>10, ZenonT(40) DEF View
  <2>3. QED  BY <2>1, <2>2
<1>12. /\ views[v].loaded /\ b.page \in DOMAIN views[v].imageUrls
       /\ b.url = views[v].imageUrls[b.page]
       /\ \A n \in DOMAIN subs : subs[n].page # b.page
  BY <1>6 DEF Expected, Shown
<1>13. /\ views[v].imageUrls \in Lists \cup {<<>>} /\ views[v].opened
       /\ views[v].dots = Len(views[v].imageUrls)
       /\ \A n \in DOMAIN subs : /\ subs[n].page \in DOMAIN views[v].imageUrls
                                /\ subs[n].url = views[v].imageUrls[subs[n].page]
       /\ \A m, n \in DOMAIN subs : subs[m].page = subs[n].page => m = n
  BY <1>6, <1>12 DEF ViewOK
<1> HIDE DEF b, v, w, subs
<1>14. ViewOK(w)
  <2>1. \A n \in DOMAIN w.subviews :
           /\ w.subviews[n].page \in DOMAIN w.imageUrls
           /\ w.subviews[n].url = w.imageUrls[w.subviews[n].page]
    BY <1>8, <1>10, <1>11, <1>12, <1>13
  <2>2. \A m, n \in DOMAIN w.subviews : w.subviews[m].page = w.subviews[n].page => m = n
    BY <1>8, <1>10, <1>11, <1>12, <1>13
  <2>3. QED  BY <1>11, <1>12, <1>13, <2>1, <2>2 DEF ViewOK
<1>15. /\ views' \in [Screens -> View] /\ ViewsOK'
       /\ \A u \in Screens : views'[u] = IF u = v THEN w ELSE views[u]
  BY <1>4, <1>5, <1>11, <1>14, OneViewChanges
<1>16. TypeOK'
  BY <1>1, <1>3, <1>4, <1>15 DEF TypeOK, View, Block
<1>17. \A u \in Screens : /\ views'[u].opened = views[u].opened
                          /\ views'[u].loaded = views[u].loaded
                          /\ views'[u].imageUrls = views[u].imageUrls
  BY <1>11, <1>15
<1>18. \A u \in Screens : \A n : Shown(u, n)' <=> Shown(u, n) \/ (u = v /\ n = b.page)
  <2> SUFFICES ASSUME NEW u \in Screens, NEW n
               PROVE  Shown(u, n)' <=> Shown(u, n) \/ (u = v /\ n = b.page)
    OBVIOUS
  <2>1. CASE u # v
    BY <1>15, <2>1 DEF Shown
  <2>2. CASE u = v
    <3>1. /\ views'[u].subviews = Append(subs, x) /\ views[u].subviews = subs
          /\ x.page = b.page
      BY <1>8, <1>11, <1>15, <2>2 DEF subs
    <3>2. Shown(u, n)' <=> \E m \in DOMAIN Append(subs, x) : Append(subs, x)[m].page = n
      BY <3>1 DEF Shown
    <3>3. Shown(u, n) <=> \E m \in DOMAIN subs : subs[m].page = n
      BY <3>1 DEF Shown
    <3>4. CASE Shown(u, n)
      BY <1>10, <3>2, <3>3, <3>4
    <3>5. CASE n = b.page
      BY <1>10, <2>2, <3>1, <3>2, <3>5
    <3>6. ASSUME Shown(u, n)', n # b.page PROVE Shown(u, n)
      <4>1. PICK m \in DOMAIN Append(subs, x) : Append(subs, x)[m].page = n
        BY <3>2, <3>6
      <4>2. m \in DOMAIN subs /\ Append(subs, x)[m] = subs[m]
        BY <1>10, <3>1, <3>6, <4>1
      <4>3. QED  BY <3>3, <4>1, <4>2
    <3>7. QED  BY <2>2, <3>4, <3>5, <3>6
  <2>3. QED  BY <2>1, <2>2
<1>19. ASSUME NEW y, y.screen \in Screens, Expected(y), y.screen # v \/ y.page # b.page
       PROVE  Expected(y)'
  BY <1>17, <1>18, <1>19 DEF Expected
<1>20. DetailsOK'
  BY <1>1, <1>4, <1>17, TypeFacts DEF IndInv, DetailsOK
<1>21. Pending(v, b.page)
  BY <1>3 DEF Pending, v, b
<1>22. DownloadsOK'
  <2> SUFFICES ASSUME NEW d \in downloads PROVE Expected(d)' /\ ~Pending(d.screen, d.page)'
    BY <1>1 DEF DownloadsOK, Expected, Shown, Pending
  <2>1. Expected(d) /\ ~Pending(d.screen, d.page) /\ d.screen \in Screens
    BY <1>4, TypeFacts DEF IndInv, DownloadsOK
  <2>2. d.screen # v \/ d.page # b.page
    BY <1>21, <2>1
  <2>3. Expected(d)'
    BY <1>19, <2>1, <2>2
  <2>4. ~Pending(d.screen, d.page)'
    BY <1>3, <2>1 DEF Pending
  <2>5. QED  BY <2>3, <2>4
<1>23. \A n \in DOMAIN queue : queue[n] \in Block /\ queue[n].screen \in Screens
  BY <1>4, TypeFacts, BlockFacts
<1>24. DetailBlocksOK'
  <2> SUFFICES ASSUME NEW n \in DOMAIN queue', queue'[n].kind = "detail"
               PROVE  LET u == queue'[n].screen
                      IN  /\ u \notin details' /\ views'[u].opened /\ ~views'[u].loaded
                          /\ \A m \in DOMAIN queue' :
                                queue'[m].kind = "detail" /\ queue'[m].screen = u => m = n
    BY DEF DetailBlocksOK
  <2>1. n + 1 \in DOMAIN queue /\ queue'[n] = queue[n + 1]
    BY <1>3
  <2>2. \A m \in DOMAIN queue' :
           queue'[m].kind = "detail" /\ queue'[m].screen = queue'[n].screen => m = n
    BY <1>3, <2>1 DEF IndInv, DetailBlocksOK
  <2>3. QED  BY <1>1, <1>17, <1>23, <2>1, <2>2 DEF IndInv, DetailBlocksOK
<1>25. ImageBlocksOK'
  <2>1. ASSUME NEW n \in DOMAIN queue', queue'[n].kind = "image"
        PROVE  /\ n + 1 \in DOMAIN queue /\ queue'[n] = queue[n + 1]
               /\ queue[n + 1].screen \in Screens /\ Expected(queue[n + 1])
               /\ queue[n + 1].screen # v \/ queue[n + 1].page # b.page
    BY <1>3, <1>23, <2>1 DEF IndInv, ImageBlocksOK, v, b
  <2>2. ASSUME NEW n \in DOMAIN queue', queue'[n].kind = "image"
        PROVE  Expected(queue[n])'
    <3> DEFINE y == queue[n + 1]
    <3>1. /\ queue'[n] = y /\ Expected(y) /\ y.screen \in Screens
          /\ y.screen # v \/ y.page # b.page
      BY <2>1, <2>2
    <3> HIDE DEF y
    <3>2. ~Shown(y.screen, y.page)
      BY <3>1 DEF Expected
    <3>3. /\ views'[y.screen].loaded /\ y.page \in DOMAIN views'[y.screen].imageUrls
          /\ y.url = views'[y.screen].imageUrls[y.page]
      BY <1>17, <3>1 DEF Expected
    <3>4. ~\E m \in DOMAIN views'[y.screen].subviews : views'[y.screen].subviews[m].page = y.page
      BY <1>18, <3>1, <3>2 DEF Shown
    <3>5. QED  BY <3>1, <3>3, <3>4 DEF Expected, Shown
  <2>3. \A m, n \in DOMAIN queue' :
           /\ queue'[m].kind = "image" /\ queue'[n].kind = "image"
           /\ queue'[m].screen = queue'[n].screen /\ queue'[m].page = queue'[n].page
           => m = n
    BY <1>1, StillDistinct DEF IndInv
  <2>4. QED  BY <2>2, <2>3 DEF ImageBlocksOK
<1>26. BlankPageExplained'
  <2> SUFFICES ASSUME current \in Screens, views'[current].loaded,
                      NEW n \in DOMAIN views'[current].imageUrls,
                      views'[current].imageUrls[n] \notin BadUrls,
                      [screen |-> current, page |-> n, url |-> views'[current].imageUrls[n]]
                          \notin downloads \cup failures
               PROVE  Shown(current, n)' \/ Pending(current, n)'
    BY <1>1 DEF BlankPageExplained, Shown, Pending
  <2>1. Shown(current, n) \/ Pending(current, n)
    BY <1>17 DEF IndInv, BlankPageExplained, Shown, Pending
  <2>2. (Shown(current, n) \/ (current = v /\ n = b.page)) => Shown(current, n)'
    BY <1>1, <1>18, ZenonT(40) DEF Shown
  <2>3. ASSUME Pending(current, n), current # v \/ n # b.page
        PROVE  Pending(current, n)'
    <3>1. PICK m \in DOMAIN queue : /\ queue[m].kind = "image"
                                    /\ queue[m].screen = current /\ queue[m].page = n
      BY <2>3 DEF Pending
    <3>2. m # 1
      BY <1>3, <2>3, <3>1 DEF v, b
    <3>3. m - 1 \in DOMAIN queue' /\ queue'[m - 1] = queue[m]
      BY <1>3, <3>2
    <3>4. QED  BY <1>1, <3>1, <3>3 DEF Pending
  <2>4. QED  BY <2>1, <2>2, <2>3
<1>27. QED
  BY <1>15, <1>16, <1>20, <1>22, <1>24, <1>25, <1>26 DEF IndInv

---------------------------------------------------------------------------
(* Every step. *)

\* At the start no detail screen has been opened.
LEMMA InitEstablishes == Init => IndInv
<1> SUFFICES ASSUME Init PROVE IndInv
  OBVIOUS
<1>1. /\ NewView \in View /\ ViewOK(NewView)
  <2>1. <<>> \in Seq(Urls) /\ <<>> \in Seq([page: Pages, url: Urls]) /\ DOMAIN <<>> = {}
        /\ Len(<<>>) = 0
    OBVIOUS
  <2>2. QED  BY <2>1 DEF NewView, View, ViewOK
<1>2. views \in [Screens -> View] /\ \A v \in Screens : views[v] = NewView
  BY <1>1 DEF Init
<1>3. TypeOK
  <2>1. token \in BOOLEAN /\ current = Home
    BY DEF Init
  <2>2. details = {} /\ downloads = {} /\ failures = {} /\ queue = <<>> /\ summary = 0
    BY DEF Init
  <2>3. summaries \in [Summaries -> {"unused", "sent", "shown", "closed"}]
    BY DEF Init
  <2>4. queue \in Seq(DetailBlock \cup ImageBlock)
    BY <2>2
  <2>5. current \in {Home, Login} \cup Screens /\ summary \in {0} \cup Summaries
    BY <2>1, <2>2
  <2>6. QED  BY Zenon, <1>2, <2>1, <2>2, <2>3, <2>4, <2>5 DEF TypeOK, View
<1>4. ViewsOK
  BY <1>1, <1>2 DEF ViewsOK
<1>5. DetailsOK /\ DownloadsOK /\ DetailBlocksOK /\ ImageBlocksOK
  BY DEF Init, DetailsOK, DownloadsOK, DetailBlocksOK, ImageBlocksOK
<1>6. BlankPageExplained
  BY HomeIsNoScreen DEF Init, BlankPageExplained
<1>7. QED  BY <1>3, <1>4, <1>5, <1>6 DEF IndInv

\* One tap, reply, download or block keeps the invariant.
LEMMA NextKeeps ==
    ASSUME IndInv, [Next]_vars
    PROVE  IndInv'
<1>1. CASE \/ CapsuleExitButtonTap \/ OriginalContentButtonTap \/ LogoutArrives \/ SwitchRoot
           \/ \E n \in Summaries : AISummaryButtonTap(n) \/ SummaryArrives(n) \/ SummaryFails(n)
  BY <1>1, ScreensKeep
<1>2. ASSUME NEW v \in Screens, DidSelectItemAt(v) PROVE IndInv'
  BY <1>2, SelectKeeps
<1>3. ASSUME NEW v \in Screens, NEW list \in Lists, DetailArrives(v, list) PROVE IndInv'
  BY <1>3, DetailArrivesKeeps
<1>4. CASE (\E v \in Screens : DetailFails(v)) \/ (\E d \in downloads : DownloadFails(d))
  BY <1>4, FailuresKeep
<1>5. ASSUME NEW d \in downloads, DownloadArrives(d) PROVE IndInv'
  BY <1>5, DownloadArrivesKeeps
<1>6. CASE MainQueue
  <2>1. Head(queue).kind = "detail" \/ Head(queue).kind = "image"
    BY <1>6 DEF MainQueue
  <2>2. QED  BY <1>6, <2>1, ShowDetailKeeps, ShowImageKeeps
<1>7. CASE UNCHANGED vars
  <2>1. UNCHANGED <<token, current, views, details, downloads, failures, queue, summary, summaries>>
    BY <1>7 DEF vars, net, ai
  <2>2. TypeOK' /\ BlankPageExplained'
    BY <2>1 DEF IndInv, TypeOK, BlankPageExplained
  <2>3. ViewsOK' /\ DetailsOK' /\ DownloadsOK' /\ DetailBlocksOK' /\ ImageBlocksOK'
    BY <2>1 DEF IndInv, ViewsOK, ViewOK, DetailsOK, DownloadsOK, DetailBlocksOK, ImageBlocksOK,
                Expected, Shown, Pending
  <2>4. QED  BY <2>2, <2>3 DEF IndInv
<1>8. QED  BY <1>1, <1>2, <1>3, <1>4, <1>5, <1>6, <1>7 DEF Next

\* The inductive invariant is one.
LEMMA Inductive == Spec => []IndInv
<1>1. Init => IndInv
  BY InitEstablishes
<1>2. IndInv /\ [Next]_vars => IndInv'
  BY NextKeeps
<1>3. QED  BY <1>1, <1>2, PTL DEF Spec

---------------------------------------------------------------------------
(* The results. *)

\* The variables of CapsuleViewController and CapsuleAIViewController keep their
\* types.
THEOREM TypeCorrect == Spec => []TypeOK
<1>1. IndInv => TypeOK
  BY DEF IndInv
<1>2. QED  BY <1>1, Inductive, PTL

\* addImagesToScrollView puts every image on the page of its place in the list, once,
\* within the width and the dots, in whatever order the downloads end and
\* whichever screens are closed and opened meanwhile.
THEOREM ImagesStayInPlace == Spec => []ImagesInPlace
<1>1. IndInv => ImagesInPlace
  <2> SUFFICES ASSUME IndInv, NEW v \in Screens, ViewOK(views[v])
               PROVE  LET view == views[v]
                      IN  /\ \A n \in DOMAIN view.subviews :
                                /\ view.subviews[n].page \in DOMAIN view.imageUrls
                                /\ view.subviews[n].url = view.imageUrls[view.subviews[n].page]
                                /\ view.subviews[n].page <= view.width
                                /\ view.subviews[n].page <= view.dots
                          /\ \A m, n \in DOMAIN view.subviews :
                                view.subviews[m].page = view.subviews[n].page => m = n
    BY DEF IndInv, ViewsOK, ImagesInPlace
  <2>1. DOMAIN views[v].imageUrls = 1 .. Len(views[v].imageUrls) /\ Len(views[v].imageUrls) \in Nat
    BY ListFacts DEF ViewOK
  <2>2. DOMAIN <<>> = {}
    OBVIOUS
  <2>3. \A n \in DOMAIN views[v].subviews :
           /\ views[v].subviews[n].page \in 1 .. Len(views[v].imageUrls)
           /\ views[v].width = Len(views[v].imageUrls) /\ views[v].dots = Len(views[v].imageUrls)
    BY <2>1, <2>2 DEF ViewOK
  <2>4. \A n \in DOMAIN views[v].subviews : /\ views[v].subviews[n].page <= views[v].width
                                            /\ views[v].subviews[n].page <= views[v].dots
    BY <2>1, <2>3
  <2>5. QED  BY <2>4 DEF ViewOK
<1>2. QED  BY <1>1, Inductive, PTL

\* A blank page of the screen on display has a reason: a bad URL, a download that
\* failed or is under way, or a block that the main queue has not run yet.  No
\* image is lost between the download and the scroll view.
THEOREM NoImageIsLost == Spec => []BlankPageExplained
<1>1. IndInv => BlankPageExplained
  BY DEF IndInv
<1>2. QED  BY <1>1, Inductive, PTL

\* A step loses no image: one that waits in a block goes on waiting or is shown,
\* and one that is shown stays.
NoImageTakenAway ==
    \A v \in Screens : \A n \in Pages :
        /\ Pending(v, n) => Pending(v, n)' \/ Shown(v, n)'
        /\ Shown(v, n) => Shown(v, n)'

\* A new block is put behind the others and takes nothing off the screens.
LEMMA EnqueueTakesNothing ==
    ASSUME TypeOK, NEW b \in Block, queue' = Append(queue, b), views' = views
    PROVE  NoImageTakenAway
<1>1. /\ DOMAIN queue \subseteq DOMAIN queue'
      /\ \A n \in DOMAIN queue : queue'[n] = queue[n]
  BY Enqueued
<1>2. QED  BY <1>1 DEF NoImageTakenAway, Pending, Shown

\* displayCapsuleDetail's block empties a scroll view that was empty.
LEMMA DetailTakesNothing ==
    ASSUME IndInv, MainQueue, Head(queue).kind = "detail"
    PROVE  NoImageTakenAway
<1> DEFINE v == Head(queue).screen
<1>1. queue # <<>> /\ queue' = Tail(queue) /\ ShowDetail(Head(queue))
  BY DEF MainQueue
<1>2. /\ Head(queue) \in Block /\ 1 \in DOMAIN queue /\ Head(queue) = queue[1]
      /\ \A n \in DOMAIN queue : n # 1 => n - 1 \in DOMAIN queue' /\ queue'[n - 1] = queue[n]
  BY <1>1, Dequeued DEF IndInv
<1>3. v \in Screens /\ views \in [Screens -> View]
  BY <1>2, TypeFacts, BlockFacts DEF IndInv
<1>4. views[v].subviews = <<>>
  BY <1>2, <1>3 DEF IndInv, DetailBlocksOK, ViewsOK, ViewOK
<1>5. \A u \in Screens : u # v => views'[u] = views[u]
  BY <1>1, <1>3 DEF ShowDetail
<1>6. \A u \in Screens : \A n \in Pages : Shown(u, n) => Shown(u, n)'
  <2>1. \A n \in Pages : ~Shown(v, n)
    BY <1>4 DEF Shown
  <2>2. QED  BY <1>5, <2>1 DEF Shown
<1>7. \A u \in Screens : \A n \in Pages : Pending(u, n) => Pending(u, n)'
  BY <1>2 DEF Pending
<1>8. QED  BY <1>6, <1>7 DEF NoImageTakenAway

\* The block of a download adds its image to those that are there.
LEMMA ImageTakesNothing ==
    ASSUME IndInv, MainQueue, Head(queue).kind = "image"
    PROVE  NoImageTakenAway
<1> DEFINE b == Head(queue)
           v == b.screen
           x == [page |-> b.page, url |-> b.url]
           subs == views[v].subviews
<1>1. queue # <<>> /\ queue' = Tail(queue) /\ ShowImage(b)
  BY DEF MainQueue
<1>2. /\ b \in Block /\ 1 \in DOMAIN queue /\ b = queue[1]
      /\ \A n \in DOMAIN queue : n # 1 => n - 1 \in DOMAIN queue' /\ queue'[n - 1] = queue[n]
  BY <1>1, Dequeued DEF IndInv
<1>3. v \in Screens /\ views \in [Screens -> View] /\ b.page \in Pages /\ b.url \in Urls
  BY <1>2, TypeFacts, BlockFacts DEF IndInv
<1>4. /\ \A u \in Screens : u # v => views'[u] = views[u]
      /\ views'[v].subviews = Append(subs, x)
  BY <1>1, <1>3 DEF ShowImage, View
<1>5. subs \in Seq([page: Pages, url: Urls]) /\ x \in [page: Pages, url: Urls] /\ x.page = b.page
  BY <1>3 DEF View
<1> HIDE DEF x, subs
<1>6. /\ Len(subs) \in Nat /\ DOMAIN subs = 1 .. Len(subs)
      /\ DOMAIN Append(subs, x) = 1 .. Len(subs) + 1
      /\ \A n \in 1 .. Len(subs) : Append(subs, x)[n] = subs[n]
      /\ Append(subs, x)[Len(subs) + 1] = x
  BY <1>5, AppendProperties, LenProperties
<1>7. /\ \A n \in DOMAIN subs : n \in DOMAIN Append(subs, x) /\ Append(subs, x)[n] = subs[n]
      /\ Len(subs) + 1 \in DOMAIN Append(subs, x)
  BY <1>6
<1>8. \A u \in Screens : \A n \in Pages : Shown(u, n) => Shown(u, n)'
  BY <1>4, <1>7 DEF Shown, subs
<1>9. \E m \in DOMAIN views'[v].subviews : views'[v].subviews[m].page = b.page
  BY <1>4, <1>5, <1>6, <1>7
<1>10. ASSUME NEW u \in Screens, NEW n \in Pages, Pending(u, n)
       PROVE  Pending(u, n)' \/ Shown(u, n)'
  <2>1. PICK m \in DOMAIN queue : /\ queue[m].kind = "image" /\ queue[m].screen = u
                                  /\ queue[m].page = n
    BY <1>10 DEF Pending
  <2>2. CASE m = 1
    BY <1>2, <1>9, <2>1, <2>2 DEF Shown
  <2>3. CASE m # 1
    BY <1>2, <2>1, <2>3 DEF Pending
  <2>4. QED  BY <2>2, <2>3
<1>11. QED  BY <1>8, <1>10 DEF NoImageTakenAway

\* An image that has reached the main queue leaves it only onto its page, and no
\* block, no other screen and no late detail takes it away again.  With the
\* fairness of the main queue this is what DownloadedIsShown rests on.
THEOREM ImagesComeToStay == Spec => [][NoImageTakenAway]_vars
<1>1. ASSUME IndInv, Next PROVE NoImageTakenAway
  <2>1. CASE MainQueue
    <3>1. Head(queue).kind = "detail" \/ Head(queue).kind = "image"
      BY <2>1 DEF MainQueue
    <3>2. QED  BY <1>1, <2>1, <3>1, DetailTakesNothing, ImageTakesNothing
  <2>2. ASSUME NEW v \in Screens, NEW list \in Lists, DetailArrives(v, list)
        PROVE  NoImageTakenAway
    <3> DEFINE b == [kind |-> "detail", screen |-> v, list |-> list]
    <3>1. b \in Block /\ queue' = Append(queue, b) /\ views' = views
      BY <2>2 DEF DetailArrives, Block, DetailBlock
    <3> HIDE DEF b
    <3>2. QED  BY <1>1, <3>1, EnqueueTakesNothing DEF IndInv
  <2>3. ASSUME NEW d \in downloads, DownloadArrives(d) PROVE NoImageTakenAway
    <3> DEFINE b == [kind |-> "image", screen |-> d.screen, page |-> d.page, url |-> d.url]
    <3>1. views' = views /\ (queue' = Append(queue, b) \/ queue' = queue)
      BY <2>3 DEF DownloadArrives
    <3>2. b \in Block
      BY <1>1 DEF IndInv, TypeOK, Download, Block, ImageBlock
    <3> HIDE DEF b
    <3>3. CASE queue' = queue
      BY <3>1, <3>3 DEF NoImageTakenAway, Pending, Shown
    <3>4. QED  BY <1>1, <3>1, <3>2, <3>3, EnqueueTakesNothing DEF IndInv
  <2>4. ASSUME NEW v \in Screens, DidSelectItemAt(v) PROVE NoImageTakenAway
    <3>1. queue' = queue /\ views' = [views EXCEPT ![v].opened = TRUE]
      BY <2>4 DEF DidSelectItemAt
    <3>2. views \in [Screens -> View]
      BY <1>1, TypeFacts DEF IndInv
    <3>3. \A u \in Screens : views'[u].subviews = views[u].subviews
      BY <3>1, <3>2 DEF View
    <3>4. QED  BY <3>1, <3>3 DEF NoImageTakenAway, Pending, Shown
  <2>5. CASE \/ CapsuleExitButtonTap \/ OriginalContentButtonTap \/ LogoutArrives \/ SwitchRoot
             \/ \E v \in Screens : DetailFails(v)
             \/ \E d \in downloads : DownloadFails(d)
             \/ \E n \in Summaries : AISummaryButtonTap(n) \/ SummaryArrives(n) \/ SummaryFails(n)
    <3>1. queue' = queue /\ views' = views
      BY <2>5 DEF CapsuleExitButtonTap, OriginalContentButtonTap, LogoutArrives, SwitchRoot,
                  DetailFails, DownloadFails, AISummaryButtonTap, SummaryArrives, SummaryFails
    <3>2. QED  BY <3>1 DEF NoImageTakenAway, Pending, Shown
  <2>6. QED  BY <1>1, <2>1, <2>2, <2>3, <2>4, <2>5 DEF Next
<1>2. IndInv /\ [Next]_vars => [NoImageTakenAway]_vars
  BY <1>1
<1>3. QED  BY <1>2, Inductive, PTL DEF Spec
=============================================================================
