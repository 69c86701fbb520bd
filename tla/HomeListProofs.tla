--------------------------- MODULE HomeListProofs ---------------------------
(***************************************************************************)
(* The invariants and action properties of the home list, and that it      *)
(* implements the safety part of the board, for any number of capsules,    *)
(* requests in flight and page size.                                       *)
(***************************************************************************)
EXTENDS HomeListBoard, PreviewListProofs

\* Every element of s passes the selected buttons.
Obeys(tag, state, s) == \A n \in DOMAIN s : Passes(tag, state, s[n])

\* Requests in flight: their replies repeat no capsule, open nothing early,
\* and paging goes on from followed cursors only.
GoodMessage(m, open, created) ==
    /\ m \in Requests
    /\ UniqueList(m.reply.caps)
    /\ Honest(m.reply.caps, open)
    /\ m.reply.hasNext => Followed(m.reply.cursor, created)
    /\ m.kind \in {"page", "initPage"} => Followed(m.arg, created)

GoodNet(n, open, created) ==
    n \in [Slots -> Requests] /\ \A s \in Slots : GoodMessage(n[s], open, created)

\* The inductive invariant.  NoCapsuleTwice needs it of the replies too,
\* NoRequestOfTheLastCursor needs it of the stored cursor and of the replies.
IndInv ==
    /\ born \subseteq Ids /\ dead \subseteq Ids /\ opened \subseteq Ids
    /\ token \in BOOLEAN /\ screen \in Screens
    /\ alert \in 0 .. NumCapsules /\ detail \in 0 .. NumCapsules
    /\ selectedTag \in Tags \cup {NoTag} /\ selectedState \in States
    /\ cursor \in 0 .. NumCapsules /\ hasNext \in BOOLEAN
    /\ reloadPending \in BOOLEAN
    /\ UniqueList(original) /\ UniqueList(filtered) /\ rows \in Seq(Preview)
    /\ Honest(original, opened) /\ Honest(filtered, opened) /\ Honest(rows, opened)
    /\ Obeys(selectedTag, selectedState, filtered)
    /\ reloadPending \/ rows = filtered
    /\ screen = "trapped" => reloadPending /\ Len(rows) > Len(filtered)
    /\ detail # 0 => detail \in opened
    /\ hasNext => Followed(cursor, born)
    /\ GoodNet(net, opened, born)

---------------------------------------------------------------------------
(* The server's replies. *)

\* A nonempty set of positions has a last one.
LEMMA LastExists ==
    ASSUME NEW m \in Nat, NEW ids \in SUBSET (1 .. m), ids # {}
    PROVE  \E i \in ids : \A j \in ids : j <= i
<1>1. /\ IsFiniteSet(ids) /\ Cardinality(ids) \in Nat
      /\ \A n \in 1 .. Cardinality(ids) :
            \E i \in ids : Cardinality({j \in ids : j <= i}) = n
  BY Ranking
<1>2. Cardinality(ids) # 0
  BY <1>1, FS_EmptySet
<1>3. PICK i \in ids : Cardinality({j \in ids : j <= i}) = Cardinality(ids)
  <2>1. Cardinality(ids) \in 1 .. Cardinality(ids)
    BY <1>1, <1>2
  <2> QED
    BY <1>1, <2>1
<1>4. {j \in ids : j <= i} \in SUBSET ids
  OBVIOUS
<1>5. {j \in ids : j <= i} = ids
  BY <1>1, <1>3, <1>4, FS_Subset
<1> QED
  BY <1>5

\* The cursor after a page is the number of a capsule, or unchanged after an empty page.
LEMMA LastOfType ==
    ASSUME NEW ids \in SUBSET Ids, NEW c \in 0 .. NumCapsules
    PROVE  LastOf(ids, c) \in 0 .. NumCapsules
<1>0. NumCapsules \in Nat
  BY CapsuleAssumption
<1>1. CASE ids = {}
  BY <1>1 DEF LastOf
<1>2. CASE ids # {}
  <2>1. \E i \in ids : \A j \in ids : j <= i
    BY <1>0, <1>2, LastExists DEF Ids
  <2>2. LastOf(ids, c) \in ids
    BY <1>2, <2>1 DEF LastOf
  <2>3. LastOf(ids, c) \in Ids
    BY <2>2
  <2> QED
    BY <1>0, <2>3 DEF Ids
<1> QED
  BY <1>1, <1>2

\* A snapshot lists each capsule once, and says "opened" only where the
\* server does.
LEMMA SnapshotProperties ==
    ASSUME NEW ids \in SUBSET Ids
    PROVE  /\ UniqueList(Snapshot(ids))
           /\ Honest(Snapshot(ids), opened)
           /\ IdsOf(Snapshot(ids)) \subseteq ids
<1> DEFINE base == [i \in Ids |-> [id |-> i, isOpened |-> i \in opened]]
<1>0. NumCapsules \in Nat /\ Ids = 1 .. NumCapsules
  BY CapsuleAssumption DEF Ids
<1>1. base \in [1 .. NumCapsules -> Preview] /\ DOMAIN base = Ids
  BY <1>0 DEF Preview
<1>2. base \in Seq(Preview)
  BY <1>0, <1>1, SeqDef
<1>3. \A i \in Ids : base[i].id = i /\ base[i].isOpened = (i \in opened)
  OBVIOUS
<1> HIDE DEF base
<1>4. UniqueList(base)
  BY <1>1, <1>2, <1>3 DEF UniqueList
<1>5. ids \in SUBSET (DOMAIN base)
  BY <1>1
<1>6. Snapshot(ids) = Pick(base, ids)
  BY DEF Snapshot, base
<1>7. /\ UniqueList(Snapshot(ids))
      /\ \A n \in DOMAIN Snapshot(ids) : \E i \in ids : Snapshot(ids)[n] = base[i]
  BY <1>4, <1>5, <1>6, PickOfUnique
<1>8. \A n \in DOMAIN Snapshot(ids) :
         /\ Snapshot(ids)[n].id \in ids
         /\ Snapshot(ids)[n].isOpened => Snapshot(ids)[n].id \in opened
  <2> SUFFICES ASSUME NEW n \in DOMAIN Snapshot(ids)
               PROVE  /\ Snapshot(ids)[n].id \in ids
                      /\ Snapshot(ids)[n].isOpened => Snapshot(ids)[n].id \in opened
    OBVIOUS
  <2>1. PICK i \in ids : Snapshot(ids)[n] = base[i]
    BY <1>7
  <2>2. base[i].id = i /\ base[i].isOpened = (i \in opened)
    BY <1>3
  <2> QED
    BY <2>1, <2>2
<1> QED
  BY <1>7, <1>8 DEF Honest, IdsOf

\* What the server answers to a page or a full fetch: typed, without repeated
\* ids, honest about what has opened, and of living capsules only.
LEMMA RepliesType ==
    ASSUME born \subseteq Ids, NEW c \in 0 .. NumCapsules
    PROVE  /\ PageAfter(c) \in SUBSET Ids
           /\ AllReply \in Replies /\ UniqueList(AllReply.caps) /\ Honest(AllReply.caps, opened)
           /\ PageReply(c) \in Replies /\ UniqueList(PageReply(c).caps) /\ Honest(PageReply(c).caps, opened)
           /\ IdsOf(AllReply.caps) \subseteq Alive
           /\ IdsOf(PageReply(c).caps) \subseteq Alive
           /\ ~AllReply.hasNext
           /\ PageReply(c).hasNext => Followed(PageReply(c).cursor, born)
<1>0. NumCapsules \in Nat /\ 0 \in 0 .. NumCapsules
  BY CapsuleAssumption
<1>1. Alive \in SUBSET Ids /\ PageAfter(c) \in SUBSET Ids /\ PageAfter(c) \subseteq Alive
  BY DEF Alive, PageAfter
<1>2. /\ UniqueList(Snapshot(Alive)) /\ Honest(Snapshot(Alive), opened)
      /\ IdsOf(Snapshot(Alive)) \subseteq Alive
  BY <1>1, SnapshotProperties
<1>3. /\ UniqueList(Snapshot(PageAfter(c))) /\ Honest(Snapshot(PageAfter(c)), opened)
      /\ IdsOf(Snapshot(PageAfter(c))) \subseteq Alive
  BY <1>1, SnapshotProperties
<1>4. Snapshot(Alive) \in Seq(Preview) /\ Snapshot(PageAfter(c)) \in Seq(Preview)
  BY <1>2, <1>3 DEF UniqueList
<1>5. LastOf(PageAfter(c), c) \in 0 .. NumCapsules
  BY <1>1, LastOfType
<1>6. /\ AllReply.caps = Snapshot(Alive) /\ AllReply.hasNext = FALSE
      /\ AllReply \in Replies
  BY <1>0, <1>4 DEF AllReply, Replies
<1>7. /\ PageReply(c).caps = Snapshot(PageAfter(c))
      /\ PageReply(c).cursor = LastOf(PageAfter(c), c)
      /\ PageReply(c).hasNext = (\E i \in Alive : i > LastOf(PageAfter(c), c))
      /\ PageReply(c) \in Replies
  BY <1>4, <1>5 DEF PageReply, Replies
<1>8. PageReply(c).hasNext => Followed(PageReply(c).cursor, born)
  BY <1>7 DEF Followed, Alive
<1> QED
  BY <1>1, <1>2, <1>3, <1>6, <1>7, <1>8

---------------------------------------------------------------------------
(* The requests in flight. *)

\* The empty list satisfies everything asked of a list.
LEMMA EmptyList == UniqueList(<<>>) /\ \A open : Honest(<<>>, open)
  BY DEF UniqueList, Honest

\* A new request, not answered yet, satisfies GoodMessage.
LEMMA GoodRequest ==
    ASSUME NEW kind \in {"idle", "initPage", "page", "all", "delete", "refetch", "logout"},
           NEW arg \in 0 .. NumCapsules, NEW open, NEW created,
           kind \in {"page", "initPage"} => Followed(arg, created)
    PROVE  GoodMessage(Request(kind, arg), open, created)
<1>1. 0 \in 0 .. NumCapsules
  BY CapsuleAssumption
<1>2. NoReply \in Replies /\ NoReply.caps = <<>> /\ NoReply.hasNext = FALSE
  BY <1>1, EmptyList DEF NoReply, Replies, UniqueList
<1>3. /\ Request(kind, arg) \in Requests /\ Request(kind, arg).reply = NoReply
      /\ Request(kind, arg).kind = kind /\ Request(kind, arg).arg = arg
  BY <1>2 DEF Request, Requests
<1> HIDE DEF NoReply, Request
<1> QED
  BY <1>2, <1>3, EmptyList DEF GoodMessage

\* A free slot satisfies GoodMessage.
LEMMA GoodIdle ==
    ASSUME NEW open, NEW created
    PROVE  GoodMessage(Idle, open, created)
<1>1. Idle = Request("idle", 0) /\ 0 \in 0 .. NumCapsules
  BY CapsuleAssumption DEF Idle, Request
<1> QED
  BY <1>1, GoodRequest

\* Putting a good message into a slot keeps the network good.
LEMMA PutMessage ==
    ASSUME NEW n, NEW open, NEW created, GoodNet(n, open, created),
           NEW s \in Slots, NEW m, GoodMessage(m, open, created)
    PROVE  GoodNet([n EXCEPT ![s] = m], open, created)
<1>1. m \in Requests
  BY DEF GoodMessage
<1> QED
  BY <1>1 DEF GoodNet

\* So does answering a request with a good reply.
LEMMA PutReply ==
    ASSUME NEW n, NEW open, NEW created, GoodNet(n, open, created),
           NEW s \in Slots, NEW r \in Replies,
           UniqueList(r.caps), Honest(r.caps, open), r.hasNext => Followed(r.cursor, created)
    PROVE  GoodNet([n EXCEPT ![s].reply = r], open, created)
<1> DEFINE m == [n[s] EXCEPT !.reply = r]
<1>1. n \in [Slots -> Requests] /\ n[s] \in Requests /\ GoodMessage(n[s], open, created)
  BY DEF GoodNet
<1>2. m \in Requests /\ m.reply = r /\ m.kind = n[s].kind /\ m.arg = n[s].arg
  BY <1>1 DEF Requests
<1>3. GoodMessage(m, open, created)
  BY <1>1, <1>2 DEF GoodMessage
<1>4. [n EXCEPT ![s].reply = r] = [n EXCEPT ![s] = m]
  BY <1>1
<1> QED
  BY <1>3, <1>4, PutMessage

\* More capsules created or opened do no harm.
LEMMA GoodNetGrows ==
    ASSUME NEW n, NEW open, NEW created, GoodNet(n, open, created),
           NEW open2, open \subseteq open2, NEW created2, created \subseteq created2
    PROVE  GoodNet(n, open2, created2)
  BY DEF GoodNet, GoodMessage, Honest, Followed

\* A part of an honest list is honest.
LEMMA HonestPart ==
    ASSUME NEW s, NEW t, NEW open, Honest(s, open),
           \A n \in DOMAIN t : \E i \in DOMAIN s : t[n] = s[i]
    PROVE  Honest(t, open)
  BY DEF Honest

\* What filter() leaves of a good list is good and obeys the buttons.
LEMMA FilterGood ==
    ASSUME NEW s, UniqueList(s), NEW open, Honest(s, open), NEW tag, NEW state
    PROVE  /\ UniqueList(Filter(tag, state, s))
           /\ Honest(Filter(tag, state, s), open)
           /\ Obeys(tag, state, Filter(tag, state, s))
<1>1. /\ UniqueList(Filter(tag, state, s))
      /\ \A n \in DOMAIN Filter(tag, state, s) :
           /\ Passes(tag, state, Filter(tag, state, s)[n])
           /\ \E i \in DOMAIN s : Filter(tag, state, s)[n] = s[i]
  BY FilterProperties
<1>2. Honest(Filter(tag, state, s), open)
  BY <1>1, HonestPart
<1> QED
  BY <1>1, <1>2 DEF Obeys

\* What combineArrays makes of two good lists is good.
LEMMA CombineGood ==
    ASSUME NEW left, UniqueList(left), NEW open, Honest(left, open),
           NEW right, UniqueList(right), Honest(right, open)
    PROVE  /\ UniqueList(CombineArrays(left, right))
           /\ Honest(CombineArrays(left, right), open)
<1>1. right \in Seq(Preview)
  BY DEF UniqueList
<1>2. /\ UniqueList(CombineArrays(left, right))
      /\ \A n \in DOMAIN CombineArrays(left, right) :
           \/ \E i \in DOMAIN left : CombineArrays(left, right)[n] = left[i]
           \/ \E i \in DOMAIN right : CombineArrays(left, right)[n] = right[i]
  BY <1>1, CombineArraysProperties
<1>3. Honest(CombineArrays(left, right), open)
  BY <1>2 DEF Honest
<1> QED
  BY <1>2, <1>3

---------------------------------------------------------------------------
(* The initial state and the steps. *)

\* A process that has just been started satisfies the invariant.
LEMMA InitIndInv == Init => IndInv
<1> SUFFICES ASSUME Init PROVE IndInv
  OBVIOUS
<1>1. GoodNet(net, opened, born)
  <2>1. \A s \in Slots : net[s] = Idle
    BY DEF Init
  <2>2. GoodMessage(Idle, opened, born)
    BY GoodIdle
  <2>3. Idle \in Requests
    BY <2>2 DEF GoodMessage
  <2> QED
    BY <2>1, <2>2, <2>3 DEF Init, GoodNet
<1>2. UniqueList(<<>>) /\ Honest(<<>>, opened) /\ <<>> \in Seq(Preview)
  BY EmptyList DEF UniqueList
<1>3. Obeys(selectedTag, selectedState, filtered)
  BY DEF Init, Obeys
<1>4. 0 \in 0 .. NumCapsules
  BY CapsuleAssumption
<1> QED
  BY <1>1, <1>2, <1>3, <1>4, HomeAssumption
  DEF Init, IndInv, Screens, States, Followed

\* A reply that has arrived is a good one.
LEMMA ArrivedReply ==
    ASSUME IndInv, NEW s \in Slots
    PROVE  /\ net[s] \in Requests
           /\ net[s].arg \in 0 .. NumCapsules
           /\ net[s].reply \in Replies
           /\ net[s].reply.cursor \in 0 .. NumCapsules
           /\ net[s].reply.hasNext \in BOOLEAN
           /\ UniqueList(net[s].reply.caps)
           /\ Honest(net[s].reply.caps, opened)
           /\ net[s].reply.hasNext => Followed(net[s].reply.cursor, born)
  BY DEF IndInv, GoodNet, GoodMessage, Requests, Replies

\* A completion that frees its slot keeps the network good.
LEMMA ReleaseGood ==
    ASSUME IndInv, NEW s \in Slots
    PROVE  GoodNet([net EXCEPT ![s] = Idle], opened, born)
  BY GoodIdle, PutMessage DEF IndInv

\* A handler that sends a request keeps the network good.
LEMMA RequestGood ==
    ASSUME IndInv, NEW s \in Slots,
           NEW kind \in {"initPage", "page", "all", "delete", "refetch", "logout"},
           NEW arg \in 0 .. NumCapsules,
           kind \in {"page", "initPage"} => Followed(arg, born)
    PROVE  GoodNet([net EXCEPT ![s] = Request(kind, arg)], opened, born)
<1>1. GoodMessage(Request(kind, arg), opened, born)
  BY GoodRequest
<1> QED
  BY <1>1, PutMessage DEF IndInv

\* ServerAnswers: the reply is good.
LEMMA ServerAnswersStep ==
    ASSUME IndInv, NEW s \in Slots, ServerAnswers(s)
    PROVE  IndInv'
<1>1. born \subseteq Ids /\ net[s].arg \in 0 .. NumCapsules
  BY ArrivedReply DEF IndInv
<1>2. dead' \subseteq Ids
  BY DEF ServerAnswers, IndInv, Alive
<1>3. GoodNet(net', opened, born)
  <2>1. CASE net' = [net EXCEPT ![s].reply = AllReply]
    <3>1. /\ AllReply \in Replies /\ UniqueList(AllReply.caps)
          /\ Honest(AllReply.caps, opened) /\ ~AllReply.hasNext
      BY <1>1, RepliesType
    <3> QED
      BY <2>1, <3>1, PutReply DEF IndInv
  <2>2. CASE net' = [net EXCEPT ![s].reply = PageReply(net[s].arg)]
    <3> DEFINE r == PageReply(net[s].arg)
    <3>1. /\ r \in Replies /\ UniqueList(r.caps)
          /\ Honest(r.caps, opened) /\ (r.hasNext => Followed(r.cursor, born))
      BY <1>1, RepliesType
    <3> HIDE DEF r
    <3>2. GoodNet([net EXCEPT ![s].reply = r], opened, born)
      BY <3>1, PutReply DEF IndInv
    <3> QED
      BY <2>2, <3>2 DEF r
  <2>3. CASE net' = [net EXCEPT ![s].reply = DoneReply]
    <3>1. 0 \in 0 .. NumCapsules /\ <<>> \in Seq(Preview)
      BY CapsuleAssumption
    <3>2. DoneReply \in Replies /\ DoneReply.caps = <<>> /\ DoneReply.hasNext = FALSE
      BY <3>1 DEF DoneReply, Replies
    <3>3. UniqueList(DoneReply.caps) /\ Honest(DoneReply.caps, opened)
      BY <3>2, EmptyList
    <3> QED
      BY <2>3, <3>2, <3>3, PutReply DEF IndInv
  <2> QED
    BY <2>1, <2>2, <2>3 DEF ServerAnswers, Answer
<1> QED
  BY <1>2, <1>3 DEF ServerAnswers, IndInv, nav, list, selection, paging, table

\* The other steps of the server only add capsules and opened capsules.
LEMMA ServerGrowsStep ==
    ASSUME IndInv, NEW i \in Ids, ServerCreates(i) \/ ServerOpens(i)
    PROVE  IndInv'
<1>1. /\ born \subseteq born' /\ opened \subseteq opened'
      /\ born' \subseteq Ids /\ opened' \subseteq Ids /\ dead' = dead
      /\ UNCHANGED <<nav, list, selection, paging, table, net>>
  BY DEF ServerCreates, ServerOpens, IndInv
<1>2. GoodNet(net, opened', born')
  BY <1>1, GoodNetGrows DEF IndInv
<1>3. /\ Honest(original, opened') /\ Honest(filtered, opened') /\ Honest(rows, opened')
      /\ detail # 0 => detail \in opened'
      /\ hasNext => Followed(cursor, born')
  BY <1>1 DEF IndInv, Honest, Followed
<1> QED
  BY <1>1, <1>2, <1>3 DEF IndInv, nav, list, selection, paging, table

\* Completions that change the list: the new original is good, and filtered
\* and the reload follow from it.
LEMMA NewListStep ==
    ASSUME IndInv, NEW o, UniqueList(o), Honest(o, opened), ShowList(o),
           GoodNet(net', opened, born),
           cursor' \in 0 .. NumCapsules, hasNext' \in BOOLEAN,
           hasNext' => Followed(cursor', born),
           screen # "trapped",
           UNCHANGED <<server, nav, selection>>
    PROVE  IndInv'
<1>1. /\ UniqueList(filtered') /\ Honest(filtered', opened)
      /\ Obeys(selectedTag, selectedState, filtered')
  BY FilterGood DEF ShowList
<1> QED
  BY <1>1 DEF ShowList, IndInv, server, nav, selection

\* A page reply: the cursor and hasNext move to values the reply vouches for.
LEMMA PageArrivesStep ==
    ASSUME IndInv, NEW s \in Slots, PageArrives(s)
    PROVE  IndInv'
<1> DEFINE o == CombineArrays(original, net[s].reply.caps)
           f == Filter(selectedTag, selectedState, o)
<1>1. UniqueList(o) /\ Honest(o, opened)
  BY ArrivedReply, CombineGood DEF IndInv
<1> HIDE DEF o
<1>2. UniqueList(f) /\ Honest(f, opened) /\ Obeys(selectedTag, selectedState, f)
  BY <1>1, FilterGood
<1> HIDE DEF f
<1>3. RemovingDuplicates(o) = o /\ RemovingDuplicates(f) = f
  BY <1>1, <1>2, RemovingDuplicatesIsIdentity
<1>4. original' = o /\ filtered' = f
  BY <1>3 DEF PageArrives, o, f
<1>5. GoodNet(net', opened, born)
  BY ReleaseGood DEF PageArrives, Release
<1>6. /\ cursor' \in 0 .. NumCapsules /\ hasNext' \in BOOLEAN
      /\ hasNext' => Followed(cursor', born)
  BY ArrivedReply DEF PageArrives, StorePage, IndInv
<1> QED
  BY <1>1, <1>2, <1>4, <1>5, <1>6
  DEF PageArrives, Arrived, IndInv, server, nav, selection

\* The second page of viewDidLoad, which replaces original.
LEMMA InitialPageArrivesStep ==
    ASSUME IndInv, NEW s \in Slots, InitialPageArrives(s)
    PROVE  IndInv'
<1>1. UniqueList(net[s].reply.caps) /\ Honest(net[s].reply.caps, opened)
  BY ArrivedReply
<1>2. GoodNet(net', opened, born)
  BY ReleaseGood DEF InitialPageArrives, Release
<1>3. /\ cursor' \in 0 .. NumCapsules /\ hasNext' \in BOOLEAN
      /\ hasNext' => Followed(cursor', born)
  BY ArrivedReply DEF InitialPageArrives, StorePage, IndInv
<1>4. ShowList(net[s].reply.caps) /\ screen # "trapped" /\ UNCHANGED <<server, nav, selection>>
  BY DEF InitialPageArrives, Arrived
<1> QED
  BY <1>1, <1>2, <1>3, <1>4, NewListStep

\* A full fetch, which adds to original and leaves the cursor alone.
LEMMA AllArriveStep ==
    ASSUME IndInv, NEW s \in Slots, AllArrive(s)
    PROVE  IndInv'
<1> DEFINE o == CombineArrays(original, net[s].reply.caps)
<1>1. UniqueList(o) /\ Honest(o, opened)
  BY ArrivedReply, CombineGood DEF IndInv
<1>2. GoodNet(net', opened, born)
  BY ReleaseGood DEF AllArrive, Release
<1>3. /\ cursor' \in 0 .. NumCapsules /\ hasNext' \in BOOLEAN
      /\ hasNext' => Followed(cursor', born)
  BY DEF AllArrive, paging, IndInv
<1>4. ShowList(o) /\ screen # "trapped" /\ UNCHANGED <<server, nav, selection>>
  BY DEF AllArrive, Arrived
<1> HIDE DEF o
<1> QED
  BY <1>1, <1>2, <1>3, <1>4, NewListStep

\* A sort permutes original and filters it again.
LEMMA SortStep ==
    ASSUME IndInv, NEW key, NEW asc, Sort(key, asc)
    PROVE  IndInv'
<1>1. PICK o \in SortsOf(original, key, asc) : ShowList(o)
  BY DEF Sort
<1>2. /\ UniqueList(o)
      /\ \A n \in DOMAIN o : \E i \in DOMAIN original : o[n] = original[i]
  BY SortsOfProperties DEF IndInv
<1>3. Honest(o, opened)
  BY <1>2, HonestPart DEF IndInv
<1>4. /\ GoodNet(net', opened, born)
      /\ cursor' \in 0 .. NumCapsules /\ hasNext' \in BOOLEAN
      /\ hasNext' => Followed(cursor', born)
      /\ screen # "trapped"
      /\ UNCHANGED <<server, nav, selection>>
  BY DEF Sort, AtHome, paging, IndInv
<1> QED
  BY <1>1, <1>2, <1>3, <1>4, NewListStep

\* The fetch after a deletion: original is replaced, filtered is not, and the
\* slot sends a full fetch.
LEMMA RefetchArrivesStep ==
    ASSUME IndInv, NEW s \in Slots, RefetchArrives(s)
    PROVE  IndInv'
<1>1. UniqueList(original') /\ Honest(original', opened)
  BY ArrivedReply DEF RefetchArrives
<1>2. GoodNet(net', opened, born)
  <2>1. 0 \in 0 .. NumCapsules
    BY CapsuleAssumption
  <2>2. GoodNet([net EXCEPT ![s] = Request("all", 0)], opened, born)
    BY <2>1, RequestGood
  <2> QED
    BY <2>2, ReleaseGood DEF RefetchArrives
<1> QED
  BY <1>1, <1>2 DEF RefetchArrives, Arrived, IndInv, server, nav, selection, paging, table

\* Completions that leave the list alone.
LEMMA OtherCompletionStep ==
    ASSUME IndInv, NEW s \in Slots, DeleteArrives(s) \/ LogoutArrives(s) \/ RequestFails(s)
    PROVE  IndInv'
<1>1. 0 \in 0 .. NumCapsules
  BY CapsuleAssumption
<1>2. CASE DeleteArrives(s)
  <2>1. GoodNet(net', opened, born)
    BY <1>1, <1>2, RequestGood DEF DeleteArrives
  <2> QED
    BY <1>2, <2>1 DEF DeleteArrives, IndInv, server, nav, list, selection, paging, table
<1>3. CASE LogoutArrives(s)
  <2>1. GoodNet(net', opened, born)
    BY <1>3, ReleaseGood DEF LogoutArrives, Release
  <2> QED
    BY <1>3, <2>1 DEF LogoutArrives, IndInv, server, list, selection, paging, table
<1>4. CASE RequestFails(s)
  <2>1. GoodNet(net', opened, born)
    BY <1>4, ReleaseGood DEF RequestFails, Release
  <2> QED
    BY <1>4, <2>1 DEF RequestFails, IndInv, server, nav, list, selection, paging, table
<1> QED
  BY <1>2, <1>3, <1>4

\* viewDidLoad and viewWillAppear send up to three requests; the page requests
\* start at the cursor, which a capsule follows while hasNext is set.
LEMMA LaunchStep ==
    ASSUME IndInv, Launch
    PROVE  IndInv'
<1> DEFINE Pages(a, b, c) == [net EXCEPT ![a] = Request("page", cursor),
                                         ![b] = Request("initPage", cursor),
                                         ![c] = Request("all", 0)]
<1>0. cursor \in 0 .. NumCapsules /\ 0 \in 0 .. NumCapsules
  BY CapsuleAssumption DEF IndInv
<1>1. GoodMessage(Request("all", 0), opened, born)
  BY <1>0, GoodRequest
<1>2. ASSUME hasNext
      PROVE  /\ GoodMessage(Request("page", cursor), opened, born)
             /\ GoodMessage(Request("initPage", cursor), opened, born)
  <2>1. Followed(cursor, born)
    BY <1>2 DEF IndInv
  <2> QED
    BY <1>0, <2>1, GoodRequest
<1>3. GoodNet(net', opened, born)
  <2>1. CASE hasNext /\ \E a, b, c \in Slots : net' = Pages(a, b, c)
    <3>1. PICK a, b, c \in Slots : net' = Pages(a, b, c)
      BY <2>1
    <3> DEFINE p == Request("page", cursor)
               q == Request("initPage", cursor)
               r == Request("all", 0)
    <3>2. net' = [[[net EXCEPT ![a] = p] EXCEPT ![b] = q] EXCEPT ![c] = r]
      BY <3>1
    <3>3. GoodMessage(p, opened, born) /\ GoodMessage(q, opened, born) /\ GoodMessage(r, opened, born)
      BY <1>1, <1>2, <2>1
    <3> HIDE DEF p, q, r
    <3>4. GoodNet([net EXCEPT ![a] = p], opened, born)
      BY <3>3, PutMessage DEF IndInv
    <3>5. GoodNet([[net EXCEPT ![a] = p] EXCEPT ![b] = q], opened, born)
      BY <3>3, <3>4, PutMessage
    <3> QED
      BY <3>2, <3>3, <3>5, PutMessage
  <2>2. CASE \E c \in Slots : net' = [net EXCEPT ![c] = Request("all", 0)]
    <3>1. PICK c \in Slots : net' = [net EXCEPT ![c] = Request("all", 0)]
      BY <2>2
    <3>2. GoodNet([net EXCEPT ![c] = Request("all", 0)], opened, born)
      BY <1>0, RequestGood
    <3> QED
      BY <3>1, <3>2
  <2> QED
    BY <2>1, <2>2 DEF Launch
<1> QED
  BY <1>3 DEF Launch, IndInv, Screens, server, list, selection, paging, table

\* Steps that send at most one request and otherwise only move between
\* screens.
LEMMA NavigationStep ==
    ASSUME IndInv,
           \/ ViewWillAppear \/ PushScreen \/ ScrollViewDidScroll
           \/ ConfirmPressed \/ CancelPressed
           \/ LogoutButtonTapped \/ ShowLogin \/ SignIn
    PROVE  IndInv'
<1>0. cursor \in 0 .. NumCapsules /\ 0 \in 0 .. NumCapsules /\ alert \in 0 .. NumCapsules
  BY CapsuleAssumption DEF IndInv
<1>1. GoodNet(net, opened, born) /\ (hasNext => Followed(cursor, born))
  BY DEF IndInv
<1>2. CASE ViewWillAppear
  <2>1. \A s \in Slots : GoodNet([net EXCEPT ![s] = Request("all", 0)], opened, born)
    BY <1>0, RequestGood
  <2>2. GoodNet(net', opened, born)
    BY <1>1, <1>2, <2>1 DEF ViewWillAppear
  <2> QED
    BY <1>0, <1>2, <2>2 DEF ViewWillAppear, IndInv, Screens, server, list, selection, paging, table
<1>3. CASE ScrollViewDidScroll
  <2>1. \A s \in Slots : GoodNet([net EXCEPT ![s] = Request("page", cursor)], opened, born)
    BY <1>0, <1>1, <1>3, RequestGood DEF ScrollViewDidScroll
  <2>2. GoodNet(net', opened, born)
    BY <1>3, <2>1 DEF ScrollViewDidScroll
  <2> QED
    BY <1>3, <2>2 DEF ScrollViewDidScroll, IndInv, server, nav, list, selection, paging, table
<1>4. CASE ConfirmPressed
  <2>1. \A s \in Slots : GoodNet([net EXCEPT ![s] = Request("delete", alert)], opened, born)
    BY <1>0, RequestGood
  <2>2. GoodNet(net', opened, born)
    BY <1>4, <2>1 DEF ConfirmPressed
  <2> QED
    BY <1>0, <1>4, <2>2 DEF ConfirmPressed, IndInv, server, list, selection, paging, table
<1>5. CASE PushScreen
  BY <1>0, <1>5 DEF PushScreen, AtHome, IndInv, Screens, server, list, selection, paging, table
<1>6. CASE CancelPressed
  BY <1>0, <1>6 DEF CancelPressed, IndInv, Screens, server, list, selection, paging, table
<1>7. CASE LogoutButtonTapped
  <2>1. \A s \in Slots : GoodNet([net EXCEPT ![s] = Request("logout", 0)], opened, born)
    BY <1>0, RequestGood
  <2>2. GoodNet(net', opened, born)
    BY <1>7, <2>1 DEF LogoutButtonTapped
  <2> QED
    BY <1>7, <2>2 DEF LogoutButtonTapped, IndInv, server, nav, list, selection, paging, table
<1>8. CASE ShowLogin
  BY <1>0, <1>8 DEF ShowLogin, IndInv, Screens, server, list, selection, paging, table
<1>9. CASE SignIn
  BY <1>0, <1>9 DEF SignIn, IndInv, Screens, server, list, selection, paging, table
<1> QED
  BY <1>2, <1>3, <1>4, <1>5, <1>6, <1>7, <1>8, <1>9

\* A button that changes the selection filters again.
LEMMA RefilterStep ==
    ASSUME IndInv, NEW tag \in Tags \cup {NoTag}, NEW state \in States, Refilter(tag, state),
           AtHome, UNCHANGED <<server, nav, paging, net>>
    PROVE  IndInv'
<1>1. /\ UniqueList(filtered') /\ Honest(filtered', opened)
      /\ Obeys(tag, state, filtered')
  BY FilterGood DEF Refilter, IndInv
<1> QED
  BY <1>1 DEF Refilter, AtHome, IndInv, server, nav, paging

\* The tag buttons and the state buttons, with their toggles.
LEMMA ButtonStep ==
    ASSUME IndInv,
           \/ \E t \in TagButtons : HandleTagButtonTap(t)
           \/ \E st \in StateButtons : ToggleCapsuleViewButton(st)
    PROVE  IndInv'
<1>0. selectedTag \in Tags \cup {NoTag} /\ selectedState \in States
  BY DEF IndInv
<1>1. ASSUME NEW t \in TagButtons, HandleTagButtonTap(t) PROVE IndInv'
  <2>1. (IF selectedTag = t THEN NoTag ELSE t) \in Tags \cup {NoTag}
    BY HomeAssumption
  <2> QED
    BY <1>0, <1>1, <2>1, RefilterStep DEF HandleTagButtonTap
<1>2. ASSUME NEW st \in StateButtons, ToggleCapsuleViewButton(st) PROVE IndInv'
  <2>1. (IF selectedState = st THEN "all" ELSE st) \in States
    BY HomeAssumption DEF States
  <2> QED
    BY <1>0, <1>2, <2>1, RefilterStep DEF ToggleCapsuleViewButton
<1> QED
  BY <1>1, <1>2

\* Steps that read filtered at the index of a row on screen.
LEMMA RowStep ==
    ASSUME IndInv, NEW row \in DOMAIN rows,
           DidSelectItemAt(row) \/ CellForItemAt(row) \/ DidPressedDeleteButton(row)
    PROVE  IndInv'
<1>0. /\ rows \in Seq(Preview) /\ Len(rows) \in Nat /\ row \in 1 .. Len(rows)
      /\ rows[row] \in Preview
  BY LenProperties, ElementOfSeq DEF IndInv
<1>1. filtered \in Seq(Preview) /\ Len(filtered) \in Nat /\ DOMAIN filtered = 1 .. Len(filtered)
  BY LenProperties DEF IndInv, UniqueList
<1>2. CASE row > Len(filtered) /\ Trap
  <2>1. Len(rows) > Len(filtered)
    BY <1>0, <1>1, <1>2
  <2>2. reloadPending
    BY <1>0, <1>1, <2>1 DEF IndInv
  <2> QED
    BY <1>2, <2>1, <2>2 DEF Trap, IndInv, Screens, server, list, selection, paging, table
<1>3. ASSUME row <= Len(filtered)
      PROVE  /\ row \in DOMAIN filtered /\ filtered[row] \in Preview
             /\ filtered[row].id \in 0 .. NumCapsules
             /\ filtered[row].isOpened => filtered[row].id \in opened
  <2>1. row \in 1 .. Len(filtered)
    BY <1>0, <1>1, <1>3
  <2>2. filtered[row] \in Preview
    BY <1>1, <2>1, ElementOfSeq
  <2>3. filtered[row].id \in 0 .. NumCapsules
    BY <2>2, CapsuleAssumption DEF Preview, Ids
  <2> QED
    BY <1>1, <2>1, <2>2, <2>3 DEF IndInv, Honest
<1>4. CASE DidSelectItemAt(row) /\ row <= Len(filtered)
  BY <1>1, <1>3, <1>4 DEF DidSelectItemAt, Trap, AtHome, IndInv, Screens, server, list, selection, paging, table
<1>5. CASE CellForItemAt(row) /\ row <= Len(filtered)
  <2>0. screen = "home" /\ rows' = [rows EXCEPT ![row] = filtered[row]]
    BY <1>0, <1>1, <1>5 DEF CellForItemAt
  <2>1. rows' \in Seq(Preview) /\ Len(rows') = Len(rows)
    BY <1>0, <1>3, <1>5, <2>0, ExceptSeq
  <2>2. DOMAIN rows' = DOMAIN rows
    BY <2>0
  <2>3. Honest(rows', opened)
    BY <1>0, <1>3, <1>5, <2>0, <2>2 DEF Honest, IndInv
  <2>4. reloadPending \/ rows' = filtered
    BY <1>0, <1>1, <2>0 DEF IndInv
  <2>5. UNCHANGED <<server, nav, list, selection, paging, reloadPending, net>>
    BY <1>0, <1>1, <1>5 DEF CellForItemAt
  <2> QED
    BY <2>0, <2>1, <2>3, <2>4, <2>5 DEF IndInv, server, nav, list, selection, paging
<1>6. CASE DidPressedDeleteButton(row)
  <2>1. rows[row].id \in 0 .. NumCapsules
    BY <1>0, CapsuleAssumption DEF Preview, Ids
  <2> QED
    BY <1>6, <2>1 DEF DidPressedDeleteButton, IndInv, server, list, selection, paging, table
<1> QED
  BY <1>0, <1>1, <1>2, <1>4, <1>5, <1>6 DEF DidSelectItemAt, CellForItemAt

\* The queued reload copies filtered to the rows.
LEMMA ReloadDataStep ==
    ASSUME IndInv, ReloadData
    PROVE  IndInv'
  BY DEF ReloadData, IndInv, UniqueList, server, nav, list, selection, paging

\* The end of the process resets everything but the server and the token.
LEMMA RelaunchStep ==
    ASSUME IndInv, Relaunch
    PROVE  IndInv'
<1>1. GoodNet(net', opened, born)
  <2>1. \A s \in Slots : net'[s] = Idle
    BY DEF Relaunch
  <2>2. GoodMessage(Idle, opened, born)
    BY GoodIdle
  <2>3. Idle \in Requests
    BY <2>2 DEF GoodMessage
  <2> QED
    BY <2>1, <2>2, <2>3 DEF Relaunch, GoodNet
<1>2. UniqueList(<<>>) /\ Honest(<<>>, opened) /\ <<>> \in Seq(Preview)
  BY EmptyList DEF UniqueList
<1>3. Obeys(NoTag, "all", <<>>)
  BY DEF Obeys
<1>4. 0 \in 0 .. NumCapsules
  BY CapsuleAssumption
<1> QED
  BY <1>1, <1>2, <1>3, <1>4 DEF Relaunch, IndInv, Screens, States, Followed, server

\* Every step of the home screen, the user or the server keeps the invariant.
LEMMA NextIndInv == IndInv /\ [Next]_vars => IndInv'
<1> SUFFICES ASSUME IndInv, [Next]_vars PROVE IndInv'
  OBVIOUS
<1>1. ASSUME NEW s \in Slots, ServerAnswers(s) PROVE IndInv'
  BY <1>1, ServerAnswersStep
<1>2. ASSUME NEW s \in Slots, Completes(s) PROVE IndInv'
  BY <1>2, PageArrivesStep, InitialPageArrivesStep, AllArriveStep, RefetchArrivesStep,
     OtherCompletionStep DEF Completes
<1>3. ASSUME NEW i \in Created, ServerCreates(i) PROVE IndInv'
  BY <1>3, HomeAssumption, ServerGrowsStep
<1>4. ASSUME NEW i \in Opening, ServerOpens(i) PROVE IndInv'
  BY <1>4, HomeAssumption, ServerGrowsStep
<1>5. CASE UserActs
  BY <1>5, NavigationStep, ButtonStep, SortStep, RowStep DEF UserActs
<1>6. CASE ReloadData \/ Launch \/ ShowLogin \/ Relaunch
  BY <1>6, ReloadDataStep, LaunchStep, NavigationStep, RelaunchStep
<1>7. CASE UNCHANGED vars
  BY <1>7 DEF vars, IndInv, server, nav, list, selection, paging, table
<1> QED
  BY <1>1, <1>2, <1>3, <1>4, <1>5, <1>6, <1>7 DEF Next

\* The inductive invariant holds in every state of every behaviour: the
\* argument behind the theorems below.
THEOREM Invariance == Spec => []IndInv
<1> QED
  BY InitIndInv, NextIndInv, PTL DEF Spec

---------------------------------------------------------------------------
(* The properties, for every value of the constants. *)

\* The invariant gives every invariant that the runs check.
LEMMA IndInvImplies ==
    IndInv => /\ TypeOK
              /\ NoCapsuleTwice
              /\ FilteredObeysSelection
              /\ NothingOpensEarly
              /\ RowsFollowFiltered
              /\ TrapNeedsPendingReload
              /\ NoRequestOfTheLastCursor
<1> SUFFICES ASSUME IndInv
             PROVE  /\ TypeOK /\ NoCapsuleTwice /\ FilteredObeysSelection /\ NothingOpensEarly
                    /\ RowsFollowFiltered /\ TrapNeedsPendingReload /\ NoRequestOfTheLastCursor
  OBVIOUS
<1>1. TypeOK
  BY DEF IndInv, TypeOK, GoodNet, UniqueList
<1>2. NoCapsuleTwice
  BY DEF IndInv, NoCapsuleTwice
<1>3. FilteredObeysSelection
  BY DEF IndInv, FilteredObeysSelection, Obeys
<1>4. NothingOpensEarly
  BY DEF IndInv, NothingOpensEarly, GoodNet, GoodMessage
<1>5. RowsFollowFiltered
  BY DEF IndInv, RowsFollowFiltered
<1>6. TrapNeedsPendingReload
  BY DEF IndInv, TrapNeedsPendingReload
<1>7. NoRequestOfTheLastCursor
  BY DEF IndInv, NoRequestOfTheLastCursor, GoodNet, GoodMessage
<1> QED
  BY <1>1, <1>2, <1>3, <1>4, <1>5, <1>6, <1>7

\* The statics, the screen and the requests keep their types.
THEOREM TypeCorrect == Spec => []TypeOK
  BY Invariance, IndInvImplies, PTL

\* No capsule is listed twice, with any number of requests in flight and
\* replies in any order.
THEOREM NeverTwice == Spec => []NoCapsuleTwice
  BY Invariance, IndInvImplies, PTL

\* The filtered list obeys the selected buttons in every state.
THEOREM SelectionObeyed == Spec => []FilteredObeysSelection
  BY Invariance, IndInvImplies, PTL

\* Nothing on the phone says "opened" before the server does.
THEOREM NeverOpensEarly == Spec => []NothingOpensEarly
  BY Invariance, IndInvImplies, PTL

\* The table shows filtered whenever no reload is queued.
THEOREM RowsFollow == Spec => []RowsFollowFiltered
  BY Invariance, IndInvImplies, PTL

\* A subscript is out of range only while a reload is queued.
THEOREM TrapWindow == Spec => []TrapNeedsPendingReload
  BY Invariance, IndInvImplies, PTL

\* No page is asked for after a cursor that nothing ever followed.
THEOREM LastCursorNotRequested == Spec => []NoRequestOfTheLastCursor
  BY Invariance, IndInvImplies, PTL

---------------------------------------------------------------------------
(* filtered changes only by being rebuilt. *)

\* No step changes filtered but by filtering original.
LEMMA RebuiltStep ==
    IndInv /\ [Next]_vars =>
        (filtered' # filtered => filtered' = Filter(selectedTag, selectedState, original)')
<1> DEFINE Goal == filtered' # filtered => filtered' = Filter(selectedTag', selectedState', original')
<1> SUFFICES ASSUME IndInv, [Next]_vars PROVE Goal
  OBVIOUS
<1>1. ASSUME filtered' = filtered PROVE Goal
  BY <1>1
<1>2. ASSUME NEW o, ShowList(o), UNCHANGED selection PROVE Goal
  BY <1>2 DEF ShowList, selection
<1>3. ASSUME NEW tag, NEW state, Refilter(tag, state) PROVE Goal
  BY <1>3 DEF Refilter
<1>4. ASSUME NEW s \in Slots, PageArrives(s) PROVE Goal
  <2> DEFINE o == CombineArrays(original, net[s].reply.caps)
             f == Filter(selectedTag, selectedState, o)
  <2>1. UniqueList(o) /\ Honest(o, opened)
    BY ArrivedReply, CombineGood DEF IndInv
  <2>2. UniqueList(f)
    <3> HIDE DEF o
    <3> QED
      BY <2>1, FilterGood
  <2>3. RemovingDuplicates(o) = o /\ RemovingDuplicates(f) = f
    <3> HIDE DEF o, f
    <3> QED
      BY <2>1, <2>2, RemovingDuplicatesIsIdentity
  <2>4. original' = o /\ filtered' = f /\ UNCHANGED selection
    BY <1>4, <2>3 DEF PageArrives
  <2> QED
    BY <2>4 DEF selection
<1> HIDE DEF Goal
<1>5. ASSUME NEW s \in Slots, Completes(s) PROVE Goal
  <2>1. CASE InitialPageArrives(s)
    BY <1>2, <2>1 DEF InitialPageArrives
  <2>2. CASE AllArrive(s)
    BY <1>2, <2>2 DEF AllArrive
  <2>3. CASE DeleteArrives(s) \/ RefetchArrives(s) \/ LogoutArrives(s) \/ RequestFails(s)
    BY <1>1, <2>3 DEF DeleteArrives, RefetchArrives, LogoutArrives, RequestFails, list
  <2> QED
    BY <1>4, <1>5, <2>1, <2>2, <2>3 DEF Completes
<1>6. CASE UserActs
  <2>1. ASSUME NEW t \in TagButtons, HandleTagButtonTap(t) PROVE Goal
    BY <1>3, <2>1 DEF HandleTagButtonTap
  <2>2. ASSUME NEW st \in StateButtons, ToggleCapsuleViewButton(st) PROVE Goal
    BY <1>3, <2>2 DEF ToggleCapsuleViewButton
  <2>3. ASSUME NEW key \in SortBy, NEW asc \in BOOLEAN, Sort(key, asc) PROVE Goal
    BY <1>2, <2>3 DEF Sort
  <2>4. ASSUME NEW row \in DOMAIN rows,
               DidSelectItemAt(row) \/ CellForItemAt(row) \/ DidPressedDeleteButton(row)
        PROVE  Goal
    BY <1>1, <2>4 DEF DidSelectItemAt, CellForItemAt, DidPressedDeleteButton, Trap, list
  <2>5. CASE PushScreen \/ ViewWillAppear \/ ScrollViewDidScroll \/ ConfirmPressed
             \/ CancelPressed \/ LogoutButtonTapped \/ SignIn
    BY <1>1, <2>5
    DEF PushScreen, ViewWillAppear, ScrollViewDidScroll, ConfirmPressed, CancelPressed,
        LogoutButtonTapped, SignIn, list
  <2> QED
    BY <1>6, <2>1, <2>2, <2>3, <2>4, <2>5 DEF UserActs
<1>7. CASE Relaunch
  <2>1. Filter(NoTag, "all", <<>>) = <<>>
    <3>1. FilterTag(NoTag, <<>>) = <<>> /\ FilterState("all", <<>>) = <<>>
      <4>1. Pick(<<>>, {}) = <<>>
        BY FS_EmptySet DEF Pick
      <4> QED
        BY <4>1 DEF FilterTag, FilterState
    <3> QED
      BY <3>1 DEF Filter
  <2> QED
    BY <1>7, <2>1 DEF Relaunch, Goal
<1>8. ASSUME NEW i, ServerCreates(i) \/ ServerOpens(i) \/ ServerAnswers(i) PROVE Goal
  BY <1>1, <1>8 DEF ServerCreates, ServerOpens, ServerAnswers, list
<1>9. CASE ReloadData \/ Launch \/ ShowLogin \/ UNCHANGED vars
  BY <1>1, <1>9 DEF ReloadData, Launch, ShowLogin, vars, list
<1> QED
  BY <1>5, <1>6, <1>7, <1>8, <1>9 DEF Next

\* Every step that changes filtered leaves exactly what filter() makes of
\* original.
THEOREM AlwaysRebuilt == Spec => FilteredIsRebuilt
  BY Invariance, RebuiltStep, PTL DEF Spec, FilteredIsRebuilt

---------------------------------------------------------------------------
(* What is deleted stays gone. *)

\* The list after a step holds nothing but what the list or a reply held before.
LEMMA ListStaysKnown ==
    ASSUME IndInv, Next
    PROVE  IdsOf(original)' \subseteq Known
<1> DEFINE Goal == IdsOf(original') \subseteq Known
<1> SUFFICES Goal
  BY DEF IdsOf
<1>1. ASSUME original' = original PROVE Goal
  BY <1>1 DEF Known
<1>2. ASSUME NEW s \in Slots PROVE IdsOf(net[s].reply.caps) \subseteq Known
  BY DEF Known
<1>3. ASSUME NEW s \in Slots, original' = net[s].reply.caps PROVE Goal
  BY <1>2, <1>3
<1>4. ASSUME NEW s \in Slots
      PROVE  IdsOf(CombineArrays(original, net[s].reply.caps)) \subseteq Known
  <2> DEFINE caps == net[s].reply.caps
             o == CombineArrays(original, caps)
  <2>1. UniqueList(original) /\ caps \in Seq(Preview)
    BY ArrivedReply DEF IndInv, UniqueList
  <2>2. \A n \in DOMAIN o : (\E i \in DOMAIN original : o[n] = original[i])
                            \/ (\E i \in DOMAIN caps : o[n] = caps[i])
    BY <2>1, CombineArraysProperties
  <2>3. IdsOf(original) \subseteq Known /\ IdsOf(caps) \subseteq Known
    BY <1>2 DEF Known
  <2> HIDE DEF o, caps
  <2>4. IdsOf(o) \subseteq Known
    BY <2>2, <2>3 DEF IdsOf
  <2> QED  BY <2>4 DEF o, caps
<1>5. ASSUME NEW s \in Slots, Completes(s) PROVE Goal
  <2>1. CASE PageArrives(s)
    <3> DEFINE o == CombineArrays(original, net[s].reply.caps)
    <3>1. UniqueList(o)
      BY ArrivedReply, CombineGood DEF IndInv
    <3>2. original' = RemovingDuplicates(o)
      BY <2>1 DEF PageArrives
    <3>3. original' = o
      <4> HIDE DEF o
      <4> QED  BY <3>1, <3>2, RemovingDuplicatesIsIdentity
    <3> QED  BY <1>4, <3>3
  <2>2. CASE InitialPageArrives(s) \/ RefetchArrives(s)
    BY <1>3, <2>2 DEF InitialPageArrives, RefetchArrives, ShowList
  <2>3. CASE AllArrive(s)
    BY <1>4, <2>3 DEF AllArrive, ShowList
  <2>4. CASE DeleteArrives(s) \/ LogoutArrives(s) \/ RequestFails(s)
    BY <1>1, <2>4 DEF DeleteArrives, LogoutArrives, RequestFails, list
  <2> QED
    BY <1>5, <2>1, <2>2, <2>3, <2>4 DEF Completes
<1>6. ASSUME NEW key \in SortBy, NEW asc \in BOOLEAN, Sort(key, asc) PROVE Goal
  <2>1. PICK o \in SortsOf(original, key, asc) : original' = o
    BY <1>6 DEF Sort, ShowList
  <2>2. \A n \in DOMAIN o : \E i \in DOMAIN original : o[n] = original[i]
    BY SortsOfProperties DEF IndInv
  <2>3. IdsOf(o) \subseteq IdsOf(original)
    BY <2>2 DEF IdsOf
  <2> QED  BY <2>1, <2>3 DEF Known
<1>7. CASE Relaunch
  <2>1. IdsOf(<<>>) = {}
    BY DEF IdsOf
  <2> QED  BY <1>7, <2>1 DEF Relaunch
<1> HIDE DEF Goal
<1>8. CASE UserActs
  <2>1. ASSUME NEW tag, NEW state, Refilter(tag, state) PROVE Goal
    BY <1>1, <2>1 DEF Refilter
  <2>2. ASSUME NEW t, HandleTagButtonTap(t) \/ ToggleCapsuleViewButton(t) PROVE Goal
    BY <2>1, <2>2 DEF HandleTagButtonTap, ToggleCapsuleViewButton
  <2>3. ASSUME NEW row \in DOMAIN rows,
               DidSelectItemAt(row) \/ CellForItemAt(row) \/ DidPressedDeleteButton(row)
        PROVE  Goal
    BY <1>1, <2>3 DEF DidSelectItemAt, CellForItemAt, DidPressedDeleteButton, Trap, list
  <2>4. CASE PushScreen \/ ViewWillAppear \/ ScrollViewDidScroll \/ ConfirmPressed
             \/ CancelPressed \/ LogoutButtonTapped \/ SignIn
    BY <1>1, <2>4
    DEF PushScreen, ViewWillAppear, ScrollViewDidScroll, ConfirmPressed, CancelPressed,
        LogoutButtonTapped, SignIn, list
  <2> QED
    BY <1>6, <1>8, <2>2, <2>3, <2>4 DEF UserActs
<1>9. ASSUME NEW i, ServerCreates(i) \/ ServerOpens(i) \/ ServerAnswers(i) PROVE Goal
  BY <1>1, <1>9 DEF ServerCreates, ServerOpens, ServerAnswers, list
<1>10. CASE ReloadData \/ Launch \/ ShowLogin
  BY <1>1, <1>10 DEF ReloadData, Launch, ShowLogin, list
<1> QED
  BY <1>5, <1>7, <1>8, <1>9, <1>10 DEF Next

\* The server answers with living capsules only; no other step adds to a reply.
LEMMA RepliesStayKnown ==
    ASSUME IndInv, Next, NEW r \in Slots
    PROVE  IdsOf(net[r].reply.caps)' \subseteq Known \cup Alive
<1> DEFINE Goal == IdsOf(net'[r].reply.caps) \subseteq Known \cup Alive
<1> SUFFICES Goal
  BY DEF IdsOf
<1>0. IdsOf(<<>>) = {} /\ net \in [Slots -> Requests]
  BY DEF IdsOf, IndInv, GoodNet
<1>1. ASSUME net'[r] = net[r] PROVE Goal
  BY <1>1 DEF Known
<1>2. ASSUME net'[r].reply.caps = <<>> PROVE Goal
  BY <1>0, <1>2
<1>3. /\ \A kind, arg : Request(kind, arg).reply.caps = <<>>
      /\ Idle.reply.caps = <<>>
  BY DEF Request, Idle, NoReply
<1>4. ASSUME NEW s \in Slots, NEW m, m.reply.caps = <<>>, net' = [net EXCEPT ![s] = m]
      PROVE  Goal
  <2>1. net'[r] = IF r = s THEN m ELSE net[r]
    BY <1>0, <1>4
  <2> QED  BY <1>1, <1>2, <1>4, <2>1
<1>5. ASSUME NEW s \in Slots, ServerAnswers(s) PROVE Goal
  <2>1. \/ net' = [net EXCEPT ![s].reply = AllReply]
        \/ net' = [net EXCEPT ![s].reply = PageReply(net[s].arg)]
        \/ net' = [net EXCEPT ![s].reply = DoneReply]
    BY <1>5 DEF ServerAnswers, Answer
  <2>2. /\ IdsOf(AllReply.caps) \subseteq Alive /\ IdsOf(PageReply(net[s].arg).caps) \subseteq Alive
        /\ DoneReply.caps = <<>>
    BY ArrivedReply, RepliesType DEF IndInv, DoneReply
  <2>3. ASSUME NEW rep, net' = [net EXCEPT ![s].reply = rep], IdsOf(rep.caps) \subseteq Alive
        PROVE  Goal
    <3>1. r = s => net'[r].reply = rep
      BY <1>0, <2>3 DEF Requests
    <3>2. r # s => net'[r] = net[r]
      BY <1>0, <2>3
    <3>3. r = s => Goal
      BY <2>3, <3>1
    <3> HIDE DEF Goal
    <3> QED  BY <1>1, <3>2, <3>3
  <2> HIDE DEF Goal
  <2> QED  BY <1>0, <2>1, <2>2, <2>3
<1> HIDE DEF Goal
<1>6. ASSUME net' = net PROVE Goal
  BY <1>1, <1>6
<1>7. ASSUME NEW s \in Slots, Completes(s) PROVE Goal
  <2>1. CASE PageArrives(s) \/ InitialPageArrives(s) \/ AllArrive(s) \/ LogoutArrives(s)
             \/ RequestFails(s)
    BY <1>3, <1>4, <2>1 DEF PageArrives, InitialPageArrives, AllArrive, LogoutArrives,
                            RequestFails, Release
  <2>2. CASE DeleteArrives(s)
    BY <1>3, <1>4, <2>2 DEF DeleteArrives
  <2>3. CASE RefetchArrives(s)
    <3>1. net' = [net EXCEPT ![s] = Request("all", 0)] \/ net' = [net EXCEPT ![s] = Idle]
      BY <2>3 DEF RefetchArrives
    <3> QED  BY <1>3, <1>4, <3>1
  <2> QED
    BY <1>7, <2>1, <2>2, <2>3 DEF Completes
<1>8. CASE Launch
  <2>1. PICK a, b, c \in Slots :
           \/ net' = [net EXCEPT ![a] = Request("page", cursor),
                                 ![b] = Request("initPage", cursor), ![c] = Request("all", 0)]
           \/ net' = [net EXCEPT ![c] = Request("all", 0)]
    BY <1>8 DEF Launch
  <2>2. net'[r] \in {net[r], Request("page", cursor), Request("initPage", cursor), Request("all", 0)}
    BY <1>0, <2>1
  <2> QED  BY <1>1, <1>2, <1>3, <2>2
<1>9. CASE Relaunch
  BY <1>2, <1>3, <1>9 DEF Relaunch
<1>10. CASE UserActs
  <2>1. CASE ViewWillAppear \/ ScrollViewDidScroll \/ ConfirmPressed \/ LogoutButtonTapped
    <3>1. net' = net \/ \E s \in Slots : \E kind, arg : net' = [net EXCEPT ![s] = Request(kind, arg)]
      BY <2>1 DEF ViewWillAppear, ScrollViewDidScroll, ConfirmPressed, LogoutButtonTapped
    <3> QED  BY <1>3, <1>4, <1>6, <3>1
  <2>2. ASSUME NEW t, HandleTagButtonTap(t) \/ ToggleCapsuleViewButton(t) PROVE Goal
    BY <1>6, <2>2 DEF HandleTagButtonTap, ToggleCapsuleViewButton
  <2>3. ASSUME NEW key, NEW asc, Sort(key, asc) PROVE Goal
    BY <1>6, <2>3 DEF Sort
  <2>4. ASSUME NEW row \in DOMAIN rows,
               DidSelectItemAt(row) \/ CellForItemAt(row) \/ DidPressedDeleteButton(row)
        PROVE  Goal
    BY <1>6, <2>4 DEF DidSelectItemAt, CellForItemAt, DidPressedDeleteButton, Trap
  <2>5. CASE PushScreen \/ CancelPressed \/ SignIn
    BY <1>6, <2>5 DEF PushScreen, CancelPressed, SignIn
  <2> QED
    BY <1>10, <2>1, <2>2, <2>3, <2>4, <2>5 DEF UserActs
<1>11. ASSUME NEW i, ServerCreates(i) \/ ServerOpens(i) PROVE Goal
  BY <1>6, <1>11 DEF ServerCreates, ServerOpens
<1>12. CASE ReloadData \/ ShowLogin
  BY <1>6, <1>12 DEF ReloadData, ShowLogin
<1> QED
  BY <1>5, <1>7, <1>8, <1>9, <1>10, <1>11, <1>12 DEF Next

\* A deleted capsule that neither original nor a reply under way holds is never
\* listed again, by a late page, by the two fetches after a deletion or from filtered.
THEOREM GoneForGood == Spec => DeletedStaysGone
<1> DEFINE P == \A i \in dead \ Known :
                    i \notin Known' /\ (i \in IdsOf(filtered)' => i \in IdsOf(filtered))
<1>1. ASSUME IndInv, IndInv', Next PROVE P
  <2> SUFFICES ASSUME NEW i \in dead \ Known
               PROVE  i \notin Known' /\ (i \in IdsOf(filtered)' => i \in IdsOf(filtered))
    OBVIOUS
  <2>1. i \notin IdsOf(original)'
    BY <1>1, ListStaysKnown
  <2>2. \A r \in Slots : i \notin IdsOf(net[r].reply.caps)'
    BY <1>1, RepliesStayKnown DEF Alive
  <2>3. i \notin Known'
    BY <2>1, <2>2 DEF Known
  <2>4. filtered' # filtered => filtered' = Filter(selectedTag', selectedState', original')
    BY <1>1, RebuiltStep
  <2>5. \A n \in DOMAIN Filter(selectedTag', selectedState', original') :
           \E m \in DOMAIN original' : Filter(selectedTag', selectedState', original')[n] = original'[m]
    BY <1>1, FilterProperties DEF IndInv
  <2>6. filtered' # filtered => i \notin IdsOf(filtered)'
    BY <2>1, <2>4, <2>5 DEF IdsOf
  <2>7. filtered' = filtered => (i \in IdsOf(filtered)' => i \in IdsOf(filtered))
    BY DEF IdsOf
  <2> QED  BY <2>3, <2>6, <2>7
<1>2. IndInv /\ IndInv' /\ [Next]_vars => [P]_vars
  BY <1>1
<1>3. QED
  BY <1>2, Invariance, PTL DEF Spec, DeletedStaysGone

---------------------------------------------------------------------------
(* The refinement of the board's safety part.  The list is truthful by the *)
(* inductive invariant; one more fact is needed, that no detail screen is  *)
(* open under the home screen.                                             *)

\* A detail screen is only open while the home screen is covered.
DetailCovers == screen # "other" => detail = 0

\* Every step keeps a detail screen on top of the home screen.
LEMMA DetailCoversStep == DetailCovers /\ [Next]_vars => DetailCovers'
<1> SUFFICES ASSUME DetailCovers, [Next]_vars PROVE DetailCovers'
  OBVIOUS
<1>1. ASSUME UNCHANGED nav PROVE DetailCovers'
  BY <1>1 DEF DetailCovers, nav
<1>2. ASSUME NEW s \in Slots, ServerAnswers(s) \/ Completes(s) PROVE DetailCovers'
  BY <1>1, <1>2 DEF ServerAnswers, Completes, PageArrives, InitialPageArrives, AllArrive,
     DeleteArrives, RefetchArrives, LogoutArrives, RequestFails, DetailCovers, nav
<1>3. ASSUME UserActs PROVE DetailCovers'
  <2>1. CASE PushScreen \/ ViewWillAppear
    BY <2>1 DEF PushScreen, ViewWillAppear, AtHome, DetailCovers
  <2>2. CASE ScrollViewDidScroll \/ LogoutButtonTapped
    BY <1>1, <2>2 DEF ScrollViewDidScroll, LogoutButtonTapped
  <2>3. CASE ConfirmPressed \/ CancelPressed \/ SignIn
    BY <2>3 DEF ConfirmPressed, CancelPressed, SignIn, DetailCovers
  <2>4. ASSUME NEW t, HandleTagButtonTap(t) \/ ToggleCapsuleViewButton(t) PROVE DetailCovers'
    BY <1>1, <2>4 DEF HandleTagButtonTap, ToggleCapsuleViewButton
  <2>5. ASSUME NEW key, NEW asc, Sort(key, asc) PROVE DetailCovers'
    BY <1>1, <2>5 DEF Sort
  <2>6. ASSUME NEW row \in DOMAIN rows,
               DidSelectItemAt(row) \/ CellForItemAt(row) \/ DidPressedDeleteButton(row)
        PROVE  DetailCovers'
    BY <1>1, <2>6 DEF DidSelectItemAt, CellForItemAt, DidPressedDeleteButton, Trap, AtHome,
       DetailCovers, nav
  <2> QED
    BY <1>3, <2>1, <2>2, <2>3, <2>4, <2>5, <2>6 DEF UserActs
<1>4. CASE Launch \/ ShowLogin \/ Relaunch
  BY <1>4 DEF Launch, ShowLogin, Relaunch, DetailCovers
<1>5. CASE ReloadData \/ (\E i \in Created : ServerCreates(i)) \/ (\E i \in Opening : ServerOpens(i))
  BY <1>1, <1>5 DEF ReloadData, ServerCreates, ServerOpens
<1>6. CASE UNCHANGED vars
  BY <1>1, <1>6 DEF vars, nav
<1> QED
  BY <1>2, <1>3, <1>4, <1>5, <1>6 DEF Next

---------------------------------------------------------------------------
(* Each step of the home screen is a step of the board. *)

BoardStep == [Board!Next]_(Board!boardVars)

\* A step that leaves the board alone.
LEMMA QuietStep ==
    ASSUME UNCHANGED <<opened, filtered, rows, reloadPending, detail>>,
           screen = "trapped" <=> screen' = "trapped"
    PROVE  BoardStep
  BY DEF BoardStep, Board!boardVars

\* A step that gives the list a new value and queues a reload.
LEMMA RelistStep ==
    ASSUME IndInv', screen # "trapped",
           UNCHANGED <<opened, rows, detail, screen>>, reloadPending' = TRUE
    PROVE  BoardStep
<1>1. Board!Truthful(filtered', opened)
  BY DEF IndInv, UniqueList, Honest, Board!Truthful
<1>2. Board!Relist
  BY <1>1 DEF Board!Relist
<1> QED
  BY <1>2 DEF BoardStep, Board!Next

\* A step that closes the detail screen, or finds it closed.
LEMMA CloseStep ==
    ASSUME UNCHANGED <<opened, filtered, rows, reloadPending>>, detail' = 0,
           screen = "trapped" <=> screen' = "trapped"
    PROVE  BoardStep
  BY DEF BoardStep, Board!Next, Board!CloseDetail

\* A subscript out of range.
LEMMA TrapStep ==
    ASSUME IndInv', screen # "trapped", Trap PROVE BoardStep
<1>1. Board!Stop
  BY DEF IndInv, Trap, Board!Stop, table, list, server
<1> QED
  BY <1>1 DEF BoardStep, Board!Next

\* A tap on a row, or a row drawn again.
LEMMA RowBoardStep ==
    ASSUME IndInv, IndInv', DetailCovers, NEW row \in DOMAIN rows,
           DidSelectItemAt(row) \/ CellForItemAt(row) \/ DidPressedDeleteButton(row)
    PROVE  BoardStep
<1>1. row \in Nat \ {0} /\ DOMAIN filtered = 1 .. Len(filtered) /\ Len(filtered) \in Nat
  BY DEF IndInv, UniqueList
<1>2. CASE Trap /\ screen = "home"
  BY <1>2, TrapStep
<1>3. CASE DidPressedDeleteButton(row)
  BY <1>3, QuietStep DEF DidPressedDeleteButton, server, list, table
<1>4. CASE DidSelectItemAt(row) /\ ~Trap
  <2>1. Board!ShowDetail(row)
    BY <1>1, <1>4 DEF DidSelectItemAt, AtHome, DetailCovers, Board!ShowDetail, server, list, table
  <2> QED
    BY <2>1 DEF BoardStep, Board!Next
<1>5. CASE CellForItemAt(row) /\ ~Trap
  <2>1. Board!RedrawRow(row)
    BY <1>1, <1>5 DEF CellForItemAt, Board!RedrawRow, server, list, nav
  <2> QED
    BY <2>1 DEF BoardStep, Board!Next
<1> QED
  BY <1>2, <1>3, <1>4, <1>5 DEF DidSelectItemAt, CellForItemAt, AtHome

\* A completion relists the board or leaves it alone.
LEMMA CompletesBoardStep ==
    ASSUME IndInv', NEW s \in Slots, Completes(s) PROVE BoardStep
<1>1. CASE PageArrives(s)
  BY <1>1, RelistStep DEF PageArrives, Arrived, server, nav
<1>2. CASE InitialPageArrives(s) \/ AllArrive(s)
  BY <1>2, RelistStep DEF InitialPageArrives, AllArrive, ShowList, Arrived, server, nav
<1>3. CASE DeleteArrives(s) \/ RefetchArrives(s) \/ LogoutArrives(s) \/ RequestFails(s)
  BY <1>3, QuietStep DEF DeleteArrives, RefetchArrives, LogoutArrives, RequestFails,
     server, nav, list, table
<1> QED
  BY <1>1, <1>2, <1>3 DEF Completes

\* A tap is a step of the board or leaves it alone.
LEMMA UserBoardStep ==
    ASSUME IndInv, IndInv', DetailCovers, UserActs PROVE BoardStep
<1>1. CASE PushScreen \/ ScrollViewDidScroll \/ ConfirmPressed \/ CancelPressed
           \/ LogoutButtonTapped \/ SignIn
  BY <1>1, QuietStep DEF PushScreen, ScrollViewDidScroll, ConfirmPressed, CancelPressed,
     LogoutButtonTapped, SignIn, AtHome, server, nav, list, table
<1>2. CASE ViewWillAppear
  BY <1>2, CloseStep DEF ViewWillAppear, server, list, table
<1>3. ASSUME NEW t, HandleTagButtonTap(t) \/ ToggleCapsuleViewButton(t) PROVE BoardStep
  BY <1>3, RelistStep DEF HandleTagButtonTap, ToggleCapsuleViewButton, Refilter, AtHome, server, nav
<1>4. ASSUME NEW key, NEW asc, Sort(key, asc) PROVE BoardStep
  BY <1>4, RelistStep DEF Sort, ShowList, AtHome, server, nav
<1> QED
  BY <1>1, <1>2, <1>3, <1>4, RowBoardStep DEF UserActs

\* Every step is a step of the board or leaves it alone.
LEMMA NextBoardStep ==
    IndInv /\ IndInv' /\ DetailCovers /\ [Next]_vars => BoardStep
<1> SUFFICES ASSUME IndInv, IndInv', DetailCovers, [Next]_vars PROVE BoardStep
  OBVIOUS
<1>1. ASSUME NEW s \in Slots, ServerAnswers(s) PROVE BoardStep
  BY <1>1, QuietStep DEF ServerAnswers, nav, list, table
<1>2. ASSUME NEW i, ServerCreates(i) PROVE BoardStep
  BY <1>2, QuietStep DEF ServerCreates, nav, list, table
<1>3. ASSUME NEW i, ServerOpens(i) PROVE BoardStep
  <2>1. Board!CapsuleOpens
    BY <1>3 DEF ServerOpens, Board!CapsuleOpens, nav, list, table
  <2> QED
    BY <2>1 DEF BoardStep, Board!Next
<1>4. CASE ReloadData
  <2>1. Board!Redraw
    BY <1>4 DEF ReloadData, Board!Redraw, server, nav, list
  <2> QED
    BY <2>1 DEF BoardStep, Board!Next
<1>5. CASE Launch
  BY <1>5, QuietStep DEF Launch, server, list, table
<1>6. CASE ShowLogin
  BY <1>6, CloseStep DEF ShowLogin, server, list, table
<1>7. CASE Relaunch
  <2>1. Board!Restart
    BY <1>7 DEF Relaunch, Board!Restart, server
  <2> QED
    BY <2>1 DEF BoardStep, Board!Next
<1>8. CASE UNCHANGED vars
  BY <1>8, QuietStep DEF vars, server, nav, list, table
<1> QED
  BY <1>1, <1>2, <1>3, <1>4, <1>5, <1>6, <1>7, <1>8, CompletesBoardStep, UserBoardStep DEF Next

\* A process that has just been started maps to the board's initial state.
LEMMA InitBoard == Init => Board!Init /\ DetailCovers
  BY DEF Init, Board!Init, DetailCovers

\* The home screen implements the safety part of the board: with any number of
\* capsules and requests, and replies in any order, its list names no capsule
\* twice and opens none early, is redrawn after it has changed, traps only
\* before it has been redrawn, and opens detail screens only for what it lists
\* as opened.
THEOREM Refinement == Spec => Board!Safety
<1>1. Spec => []DetailCovers
  BY InitBoard, DetailCoversStep, PTL DEF Spec
<1> QED
  BY <1>1, InitBoard, Invariance, NextBoardStep, PTL DEF Spec, Board!Safety, BoardStep
=============================================================================
