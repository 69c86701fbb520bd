----------------------- MODULE CapsuleCreationProofs -----------------------
(***************************************************************************)
(* The invariants of CapsuleCreation, for any limit on the pictures and    *)
(* any number of photos and requests.                                      *)
(***************************************************************************)
EXTENDS CapsuleCreation, SequenceTheorems, FiniteSetTheorems, TLAPS

---------------------------------------------------------------------------
(* Sequences without repetition. *)

Distinct(s) == \A i, j \in DOMAIN s : s[i] = s[j] => i = j

\* Array.remove(at:) drops one position and keeps the order of the others.
LEMMA RemoveAtIndexProperties ==
    ASSUME NEW S, NEW s \in Seq(S), NEW n \in 1 .. Len(s)
    PROVE  LET t == RemoveAtIndex(s, n)
           IN  /\ t \in Seq(S) /\ Len(t) = Len(s) - 1
               /\ \A i \in 1 .. Len(s) - 1 : t[i] = IF i < n THEN s[i] ELSE s[i + 1]
<1> DEFINE front == SubSeq(s, 1, n - 1)
           back == SubSeq(s, n + 1, Len(s))
<1>0. Len(s) \in Nat /\ n \in Nat
  OBVIOUS
<1>1. /\ front \in Seq(S) /\ Len(front) = n - 1
      /\ \A i \in 1 .. n - 1 : front[i] = s[i]
  BY <1>0, SubSeqProperties
<1>2. /\ back \in Seq(S) /\ Len(back) = Len(s) - n
      /\ \A i \in 1 .. Len(s) - n : back[i] = s[n + i]
  BY <1>0, SubSeqProperties
<1> HIDE DEF front, back
<1>3. /\ front \o back \in Seq(S) /\ Len(front \o back) = Len(s) - 1
      /\ \A i \in 1 .. Len(s) - 1 : (front \o back)[i] =
            IF i <= n - 1 THEN front[i] ELSE back[i - (n - 1)]
  <2>1. /\ front \o back \in Seq(S) /\ Len(front \o back) = Len(front) + Len(back)
        /\ \A i \in 1 .. Len(front) + Len(back) : (front \o back)[i] =
              IF i <= Len(front) THEN front[i] ELSE back[i - Len(front)]
    BY <1>1, <1>2, ConcatProperties
  <2>2. Len(front) + Len(back) = Len(s) - 1
    BY <1>0, <1>1, <1>2
  <2>3. QED  BY <1>1, <2>1, <2>2
<1>4. ASSUME NEW i \in 1 .. Len(s) - 1
      PROVE  (front \o back)[i] = IF i < n THEN s[i] ELSE s[i + 1]
  <2>1. CASE i < n
    <3>1. i \in 1 .. n - 1 /\ i <= n - 1
      BY <1>0, <2>1
    <3>2. QED  BY <1>1, <1>3, <2>1, <3>1
  <2>2. CASE ~(i < n)
    <3>1. /\ i - (n - 1) \in 1 .. Len(s) - n /\ ~(i <= n - 1)
          /\ n + (i - (n - 1)) = i + 1
      BY <1>0, <2>2
    <3>2. QED  BY <1>2, <1>3, <2>2, <3>1
  <2>3. QED  BY <2>1, <2>2
<1>5. QED  BY <1>3, <1>4 DEF RemoveAtIndex, front, back

\* Without repetition the removed element is gone.
LEMMA RemoveFromDistinct ==
    ASSUME NEW S, NEW s \in Seq(S), Distinct(s), NEW n \in 1 .. Len(s)
    PROVE  LET t == RemoveAtIndex(s, n)
           IN  Distinct(t) /\ Elements(t) = Elements(s) \ {s[n]}
<1> DEFINE t == RemoveAtIndex(s, n)
<1>1. /\ t \in Seq(S) /\ Len(t) = Len(s) - 1 /\ Len(s) \in Nat
      /\ \A i \in 1 .. Len(s) - 1 : t[i] = IF i < n THEN s[i] ELSE s[i + 1]
      /\ DOMAIN t = 1 .. Len(s) - 1 /\ DOMAIN s = 1 .. Len(s)
  BY RemoveAtIndexProperties
<1> HIDE DEF t
<1>2. \A i, j \in 1 .. Len(s) : s[i] = s[j] => i = j
  BY <1>1 DEF Distinct
<1>3. Distinct(t)
  BY <1>1, <1>2 DEF Distinct
<1>4. \A x \in Elements(t) : x \in Elements(s) /\ x # s[n]
  BY <1>1, <1>2 DEF Elements
<1>5. ASSUME NEW x \in Elements(s), x # s[n] PROVE x \in Elements(t)
  <2>1. PICK i \in 1 .. Len(s) : x = s[i]
    BY <1>1 DEF Elements
  <2>2. CASE i < n
    <3>1. i \in DOMAIN t /\ t[i] = x
      BY <1>1, <2>1, <2>2
    <3>2. QED  BY <3>1 DEF Elements
  <2>3. CASE i > n
    <3>1. i - 1 \in DOMAIN t /\ t[i - 1] = x
      BY <1>1, <2>1, <2>3
    <3>2. QED  BY <3>1 DEF Elements
  <2>4. QED  BY <1>5, <2>1, <2>2, <2>3
<1>6. Elements(t) = Elements(s) \ {s[n]}
  BY <1>4, <1>5
<1>7. QED  BY <1>3, <1>6 DEF t

\* Appending what is not there yet.
LEMMA AppendToDistinct ==
    ASSUME NEW S, NEW s \in Seq(S), NEW x \in S
    PROVE  /\ Elements(Append(s, x)) = Elements(s) \cup {x}
           /\ Distinct(s) /\ x \notin Elements(s) => Distinct(Append(s, x))
<1> DEFINE t == Append(s, x)
<1>1. /\ t \in Seq(S) /\ Len(t) = Len(s) + 1 /\ Len(s) \in Nat
      /\ \A i \in 1 .. Len(s) : t[i] = s[i]
      /\ t[Len(s) + 1] = x
      /\ DOMAIN t = 1 .. Len(s) + 1 /\ DOMAIN s = 1 .. Len(s)
  BY AppendProperties
<1> HIDE DEF t
<1>2. DOMAIN t = DOMAIN s \cup {Len(s) + 1}
  BY <1>1
<1>3. Elements(t) = Elements(s) \cup {x}
  BY <1>1, <1>2 DEF Elements
<1>4. ASSUME Distinct(s), x \notin Elements(s) PROVE Distinct(t)
  BY <1>1, <1>2, <1>4 DEF Distinct, Elements
<1>5. QED  BY <1>3, <1>4 DEF t

\* A sequence without repetition has as many elements as positions.
LEMMA DistinctCounts ==
    ASSUME NEW S, NEW s \in Seq(S), Distinct(s)
    PROVE  Cardinality(Elements(s)) = Len(s)
<1>1. Len(s) \in Nat /\ DOMAIN s = 1 .. Len(s) /\ s \in [1 .. Len(s) -> Elements(s)]
  BY DEF Elements
<1>2. s \in Injection(1 .. Len(s), Elements(s))
  BY <1>1 DEF Injection, IsInjective, Distinct
<1>3. s \in Surjection(1 .. Len(s), Elements(s))
  BY <1>1 DEF Surjection, Elements
<1>4. s \in Bijection(1 .. Len(s), Elements(s))
  BY <1>2, <1>3 DEF Bijection
<1>5. IsFiniteSet(1 .. Len(s)) /\ Cardinality(1 .. Len(s)) = Len(s)
  BY <1>1, FS_Interval
<1>6. ExistsBijection(1 .. Len(s), Elements(s))
  BY <1>4 DEF ExistsBijection
<1>7. QED  BY <1>5, <1>6, FS_Bijection

---------------------------------------------------------------------------
(* The inductive invariant. *)

\* A chosen tag is not the prompt.
ScreenOK ==
    /\ token \in BOOLEAN /\ screen \in {"editing", "left"}
    /\ formFilled \in BOOLEAN /\ dropDown \in BOOLEAN /\ isTagSelected \in BOOLEAN
    /\ tagTitle \in Tags \cup {Prompt}
    /\ isTagSelected => tagTitle # Prompt
    /\ requests \in Seq(Request)
    /\ RequestsNameATag

ArraysOK ==
    /\ images \in Seq(Photos) /\ imageIds \in Seq(Photos) /\ refused \subseteq Photos
    /\ ArraysInStep

\* A photo is being uploaded, or its id is there once, or its deletion is asked
\* for: never two of these.
PhotosOK ==
    /\ picked \in 0 .. MaxPicks
    /\ uploads \subseteq 1 .. picked /\ stored \subseteq 1 .. picked
    /\ deletes \subseteq 1 .. picked /\ excused \subseteq Photos
    /\ Distinct(imageIds)
    /\ Elements(imageIds) \subseteq stored \ deletes
    /\ uploads \cap Elements(imageIds) = {} /\ uploads \cap deletes = {}
    /\ stored \subseteq uploads \cup deletes \cup Elements(imageIds) \cup excused

\* A photo that is not answered yet was not answered at the tap of any request.
SentOK ==
    /\ \A n \in DOMAIN requests : Late \subseteq requests[n].late
    /\ NothingLeftOut

IndInv == ScreenOK /\ ArraysOK /\ PhotosOK /\ SentOK

\* The form stays, and with it the promise about the tag.
LEMMA SameScreen ==
    ASSUME ScreenOK, UNCHANGED <<token, screen, form, requests>>
    PROVE  ScreenOK'
BY DEF ScreenOK, form, RequestsNameATag

\* The arrays stay.
LEMMA SameArrays ==
    ASSUME ArraysOK, UNCHANGED arrays
    PROVE  ArraysOK'
BY DEF ArraysOK, ArraysInStep, arrays

\* The photos stay where they are.
LEMMA SamePhotos ==
    ASSUME PhotosOK, UNCHANGED <<imageIds, picked, uploads, deletes, stored, excused>>
    PROVE  PhotosOK'
BY DEF PhotosOK, Distinct, Elements

\* The requests and the photos stay; a deletion may be asked for or given up.
LEMMA SameSent ==
    ASSUME SentOK, UNCHANGED <<picked, uploads, stored, requests>>,
           deletes \cup excused \subseteq deletes' \cup excused'
    PROVE  SentOK'
BY DEF SentOK, NothingLeftOut, Late, Elements

\* Picked photos are photos.
LEMMA PickedArePhotos ==
    ASSUME PhotosOK
    PROVE  /\ 1 .. picked \subseteq Photos /\ picked \in Nat /\ MaxPicks \in Nat
           /\ uploads \subseteq Photos /\ deletes \subseteq Photos /\ stored \subseteq Photos
BY CreationAssumption DEF PhotosOK, Photos

---------------------------------------------------------------------------
(* The form and the capsule. *)

\* The text, the tag table and the session.
LEMMA FormKeeps ==
    ASSUME IndInv,
           \/ \E filled \in BOOLEAN : EditText(filled)
           \/ ShowTagDropDown \/ \E tag \in Tags : DidSelectRowAt(tag)
           \/ CancelCreationButtonTap \/ PopToRootViewController \/ LogoutArrives \/ ShowLogin
    PROVE  IndInv'
<1> USE DEF EditText, ShowTagDropDown, DidSelectRowAt, CancelCreationButtonTap,
            PopToRootViewController, LogoutArrives, ShowLogin
<1>1. UNCHANGED <<requests, arrays, picked, uploads, deletes, stored, excused>>
  OBVIOUS
<1>2. ScreenOK'
  <2>1. requests' = requests /\ token' \in BOOLEAN /\ screen' \in {screen, "left"}
    BY DEF IndInv, ScreenOK
  <2>2. formFilled' \in BOOLEAN /\ dropDown' \in BOOLEAN /\ isTagSelected' \in BOOLEAN
    BY Zenon DEF IndInv, ScreenOK, form
  <2>3. tagTitle' \in Tags \cup {Prompt}
    BY DEF IndInv, ScreenOK, form
  <2>4. isTagSelected' => tagTitle' # Prompt
    BY CreationAssumption DEF IndInv, ScreenOK, form
  <2>5. QED  BY <2>1, <2>2, <2>3, <2>4 DEF IndInv, ScreenOK, RequestsNameATag
<1>3. ArraysOK'
  BY <1>1, SameArrays DEF IndInv
<1>4. PhotosOK' /\ SentOK'
  BY <1>1, SamePhotos, SameSent DEF IndInv, arrays
<1>5. QED  BY <1>2, <1>3, <1>4 DEF IndInv

\* The request carries the tag that validateRequestData has seen chosen, and the
\* images that are there.
LEMMA DoneKeeps ==
    ASSUME IndInv, DoneCreationButtonTap
    PROVE  IndInv'
<1> DEFINE r == [imageList |-> imageIds, tagName |-> tagTitle, late |-> Late,
                 status |-> "sent"]
<1>1. /\ UNCHANGED <<token, screen, form, arrays, picked, uploads, deletes, stored, excused>>
      /\ isTagSelected /\ requests' = Append(requests, r)
  BY DEF DoneCreationButtonTap, ValidateRequestData, SendTimeCapsuleRequest
<1>2. Late \subseteq Photos
  BY PickedArePhotos DEF IndInv, Late, Photos
<1>3. /\ r \in Request /\ r.tagName # Prompt /\ requests \in Seq(Request)
      /\ r.late = Late /\ r.imageList = imageIds
  BY <1>1, <1>2 DEF IndInv, ScreenOK, ArraysOK, Request
<1> HIDE DEF r
<1>4. /\ requests' \in Seq(Request) /\ Len(requests) \in Nat
      /\ DOMAIN requests' = 1 .. Len(requests) + 1 /\ DOMAIN requests = 1 .. Len(requests)
      /\ \A n \in 1 .. Len(requests) : requests'[n] = requests[n]
      /\ requests'[Len(requests) + 1] = r
  BY <1>1, <1>3, AppendProperties
<1>5. \A n \in DOMAIN requests' : n \in DOMAIN requests \/ n = Len(requests) + 1
  BY <1>4
<1>6. RequestsNameATag'
  BY <1>3, <1>4, <1>5 DEF IndInv, ScreenOK, RequestsNameATag
<1>7. ScreenOK'
  BY <1>1, <1>4, <1>6 DEF IndInv, ScreenOK, form
<1>8. ArraysOK' /\ PhotosOK'
  BY <1>1, SameArrays, SamePhotos DEF IndInv, arrays
<1>9. SentOK'
  <2>1. UNCHANGED <<Late, stored, deletes, excused>>
    BY <1>1 DEF Late
  <2>2. stored \ (deletes \cup excused) \subseteq Elements(r.imageList) \cup r.late
    BY <1>3 DEF IndInv, PhotosOK, Late
  <2>3. ASSUME NEW n \in DOMAIN requests'
        PROVE  /\ Late' \subseteq requests'[n].late
               /\ stored' \ (deletes' \cup excused') \subseteq
                    Elements(requests'[n].imageList) \cup requests'[n].late
    BY <1>3, <1>4, <1>5, <2>1, <2>2 DEF IndInv, SentOK, NothingLeftOut
  <2>4. QED  BY <2>3 DEF SentOK, NothingLeftOut, Elements
<1>10. QED  BY <1>7, <1>8, <1>9 DEF IndInv

\* A request goes on and keeps what it carries.
LEMMA RequestGoesOn ==
    ASSUME IndInv, NEW n \in DOMAIN requests,
           ServerCreatesCapsule(n) \/ CreationArrives(n) \/ CreationFails(n)
    PROVE  IndInv'
<1>1. UNCHANGED <<token, screen, form, arrays, picked, uploads, deletes, stored, excused>>
  BY DEF ServerCreatesCapsule, CreationArrives, CreationFails
<1>2. PICK st \in {"created", "succeeded", "failed"} :
        requests' = [requests EXCEPT ![n].status = st]
  BY DEF ServerCreatesCapsule, CreationArrives, CreationFails
<1> DEFINE r == [requests[n] EXCEPT !.status = st]
<1>3. requests \in Seq(Request) /\ requests[n] \in Request /\ n \in 1 .. Len(requests)
  BY DEF IndInv, ScreenOK
<1>4. /\ r \in Request /\ r.tagName = requests[n].tagName
      /\ r.late = requests[n].late /\ r.imageList = requests[n].imageList
  BY <1>3 DEF Request
<1>5. requests' = [requests EXCEPT ![n] = r]
  BY <1>2
<1> HIDE DEF r
<1>6. /\ requests' \in Seq(Request) /\ DOMAIN requests' = DOMAIN requests
      /\ \A m \in DOMAIN requests : requests'[m] = IF m = n THEN r ELSE requests[m]
  BY <1>3, <1>4, <1>5, ExceptSeq
<1>7. ScreenOK'
  BY <1>1, <1>4, <1>6 DEF IndInv, ScreenOK, RequestsNameATag, form
<1>8. ArraysOK' /\ PhotosOK'
  BY <1>1, SameArrays, SamePhotos DEF IndInv, arrays
<1>9. SentOK'
  <2>1. UNCHANGED <<Late, stored, deletes, excused>>
    BY <1>1 DEF Late
  <2>2. /\ DOMAIN requests' = DOMAIN requests
        /\ \A m \in DOMAIN requests : /\ requests'[m].late = requests[m].late
                                      /\ requests'[m].imageList = requests[m].imageList
    BY <1>4, <1>6
  <2>3. QED  BY <2>1, <2>2 DEF IndInv, SentOK, NothingLeftOut, Elements
<1>10. QED  BY <1>7, <1>8, <1>9 DEF IndInv

---------------------------------------------------------------------------
(* The photos. *)

\* A new photo has a new number; the server and the failures move it between the
\* places that it may be in.
LEMMA PhotoMoves ==
    ASSUME IndInv,
           \/ UploadImage
           \/ \E p \in Photos : \/ ServerStores(p) \/ UploadFails(p)
                                \/ ServerDeletes(p) \/ DeleteFails(p)
    PROVE  IndInv'
<1> USE DEF UploadImage, ServerStores, UploadFails, ServerDeletes, DeleteFails
<1>1. UNCHANGED <<token, screen, form, requests, arrays>>
  OBVIOUS
<1>2. ScreenOK' /\ ArraysOK'
  BY <1>1, SameScreen, SameArrays DEF IndInv
<1>3. PhotosOK'
  <2>1. imageIds' = imageIds /\ Elements(imageIds)' = Elements(imageIds)
        /\ (Distinct(imageIds) => Distinct(imageIds)')
    BY <1>1 DEF arrays, Elements, Distinct
  <2>2. CASE UploadImage
    <3>1. /\ picked' \in 0 .. MaxPicks /\ 1 .. picked \subseteq 1 .. picked'
          /\ picked + 1 \in 1 .. picked' /\ picked + 1 \notin 1 .. picked
      BY <2>2, PickedArePhotos DEF IndInv, PhotosOK
    <3>2. QED  BY <2>1, <2>2, <3>1 DEF IndInv, PhotosOK
  <2>3. CASE \E p \in Photos : \/ ServerStores(p) \/ UploadFails(p)
                               \/ ServerDeletes(p) \/ DeleteFails(p)
    BY <2>1, <2>3 DEF IndInv, PhotosOK
  <2>4. QED  BY <2>2, <2>3
<1>4. SentOK'
  <2>1. Late' \subseteq Late
    <3>1. CASE UploadImage
      BY <3>1, PickedArePhotos DEF IndInv, Late
    <3>2. CASE \E p \in Photos : \/ ServerStores(p) \/ UploadFails(p)
                                 \/ ServerDeletes(p) \/ DeleteFails(p)
      BY <3>2 DEF Late
    <3>3. QED  BY <3>1, <3>2
  <2>2. stored' \ (deletes' \cup excused') \subseteq (stored \ (deletes \cup excused)) \cup Late
    BY DEF Late
  <2>3. QED  BY <1>1, <2>1, <2>2 DEF IndInv, SentOK, NothingLeftOut, Elements
<1>5. QED  BY <1>2, <1>3, <1>4 DEF IndInv

\* The id of an upload is new to the array; beyond the limit only the picture is
\* refused.
LEMMA UploadArrivesKeeps ==
    ASSUME IndInv, NEW p \in Photos, UploadArrives(p)
    PROVE  IndInv'
<1>1. /\ UNCHANGED <<token, screen, form, requests, picked, deletes, stored, excused>>
      /\ p \in uploads /\ p \in stored /\ uploads' = uploads \ {p}
      /\ imageIds' = Append(imageIds, p)
      /\ \/ Len(images) < MaxImages /\ images' = Append(images, p) /\ refused' = refused
         \/ Len(images) >= MaxImages /\ images' = images /\ refused' = refused \cup {p}
  BY DEF UploadArrives, AddImageToCollectionView
<1>2. /\ images \in Seq(Photos) /\ imageIds \in Seq(Photos) /\ Len(images) \in Nat
      /\ Len(imageIds) \in Nat /\ MaxImages \in Nat
  BY CreationAssumption DEF IndInv, ArraysOK
<1>3. /\ imageIds' \in Seq(Photos) /\ Len(imageIds') = Len(imageIds) + 1
      /\ Append(images, p) \in Seq(Photos) /\ Len(Append(images, p)) = Len(images) + 1
  BY <1>1, <1>2, AppendProperties
<1>4. ArraysOK'
  <2>1. /\ Len(images) <= Len(imageIds) /\ Len(images) <= MaxImages /\ refused \subseteq Photos
        /\ refused = {} => images = imageIds
    BY DEF IndInv, ArraysOK, ArraysInStep
  <2>2. CASE Len(images) < MaxImages /\ images' = Append(images, p) /\ refused' = refused
    <3>1. /\ images' \in Seq(Photos) /\ refused' \subseteq Photos
          /\ Len(images') <= Len(imageIds') /\ Len(images') <= MaxImages
      BY <1>2, <1>3, <2>1, <2>2
    <3>2. refused' = {} => images' = imageIds'
      BY <1>1, <2>1, <2>2
    <3>3. QED  BY <1>3, <3>1, <3>2 DEF ArraysOK, ArraysInStep
  <2>3. CASE Len(images) >= MaxImages /\ images' = images /\ refused' = refused \cup {p}
    BY <1>2, <1>3, <2>1, <2>3 DEF ArraysOK, ArraysInStep
  <2>4. QED  BY <1>1, <2>2, <2>3
<1>5. p \notin Elements(imageIds) /\ p \notin deletes
  BY <1>1 DEF IndInv, PhotosOK
<1>6. Elements(imageIds') = Elements(imageIds) \cup {p} /\ Distinct(imageIds')
  BY <1>1, <1>2, <1>5, AppendToDistinct DEF IndInv, PhotosOK
<1>7. PhotosOK'
  BY <1>1, <1>5, <1>6 DEF IndInv, PhotosOK
<1>8. SentOK'
  <2>1. Late' \subseteq Late
    BY <1>1 DEF Late
  <2>2. QED  BY <1>1, <2>1 DEF IndInv, SentOK, NothingLeftOut, Elements
<1>9. QED  BY <1>1, <1>4, <1>7, <1>8, SameScreen DEF IndInv

\* The two removals are at the same position, which both arrays have.
LEMMA DeleteKeeps ==
    ASSUME IndInv, NEW n \in DOMAIN images, DeleteImageButtonTap(n)
    PROVE  IndInv'
<1> DEFINE id == imageIds[n]
<1>1. /\ UNCHANGED <<token, screen, form, refused, requests, picked, uploads, stored>>
      /\ images' = RemoveAtIndex(images, n) /\ imageIds' = RemoveAtIndex(imageIds, n)
      /\ \/ deletes' = deletes \cup {id} /\ excused' = excused
         \/ deletes' = deletes /\ excused' = excused \cup {id}
  BY DEF DeleteImageButtonTap
<1>2. /\ images \in Seq(Photos) /\ imageIds \in Seq(Photos) /\ Len(images) \in Nat
      /\ Len(imageIds) \in Nat /\ MaxImages \in Nat /\ Len(images) <= Len(imageIds)
      /\ Len(images) <= MaxImages
  BY CreationAssumption DEF IndInv, ArraysOK, ArraysInStep
<1>3. n \in 1 .. Len(images) /\ n \in 1 .. Len(imageIds) /\ id \in Photos
      /\ id \in Elements(imageIds)
  BY <1>2 DEF Elements
<1>4. /\ images' \in Seq(Photos) /\ Len(images') = Len(images) - 1
      /\ imageIds' \in Seq(Photos) /\ Len(imageIds') = Len(imageIds) - 1
  BY <1>1, <1>2, <1>3, RemoveAtIndexProperties
<1>5. ArraysOK'
  BY <1>1, <1>2, <1>3, <1>4 DEF IndInv, ArraysOK, ArraysInStep
<1>6. Elements(imageIds') = Elements(imageIds) \ {id} /\ Distinct(imageIds')
  BY <1>1, <1>2, <1>3, RemoveFromDistinct DEF IndInv, PhotosOK
<1> HIDE DEF id
<1>7. PhotosOK'
  BY <1>1, <1>3, <1>6 DEF IndInv, PhotosOK
<1>8. SentOK'
  BY <1>1, SameSent DEF IndInv
<1>9. QED  BY <1>1, <1>5, <1>7, <1>8, SameScreen DEF IndInv

---------------------------------------------------------------------------
(* Every step. *)

\* viewDidLoad starts with an empty form.
LEMMA InitEstablishes == Init => IndInv
<1> SUFFICES ASSUME Init PROVE IndInv
  OBVIOUS
<1>1. DOMAIN imageIds = {} /\ DOMAIN requests = {} /\ Elements(imageIds) = {}
  BY DEF Init, Elements
<1>2. ScreenOK
  <2>1. /\ token \in BOOLEAN /\ formFilled \in BOOLEAN /\ dropDown \in BOOLEAN
        /\ isTagSelected \in BOOLEAN /\ ~isTagSelected
    BY DEF Init
  <2>2. requests \in Seq(Request) /\ screen = "editing" /\ tagTitle = Prompt
    BY DEF Init
  <2>3. QED  BY <1>1, <2>1, <2>2 DEF ScreenOK, RequestsNameATag
<1>3. ArraysOK
  BY CreationAssumption DEF Init, ArraysOK, ArraysInStep
<1>4. PhotosOK
  <2>1. /\ picked \in 0 .. MaxPicks /\ Distinct(imageIds)
        /\ stored = {} /\ uploads = {} /\ deletes = {} /\ excused = {}
    BY <1>1, CreationAssumption DEF Init, Distinct
  <2>2. QED  BY <1>1, <2>1 DEF PhotosOK
<1>5. SentOK
  BY <1>1 DEF SentOK, NothingLeftOut
<1>6. QED  BY <1>2, <1>3, <1>4, <1>5 DEF IndInv

\* One handler, answer or server step keeps the invariant.
LEMMA NextKeeps ==
    ASSUME IndInv, [Next]_vars
    PROVE  IndInv'
<1>1. CASE \/ \E filled \in BOOLEAN : EditText(filled)
           \/ ShowTagDropDown \/ \E tag \in Tags : DidSelectRowAt(tag)
           \/ CancelCreationButtonTap \/ PopToRootViewController \/ LogoutArrives \/ ShowLogin
  BY <1>1, FormKeeps
<1>2. CASE DoneCreationButtonTap
  BY <1>2, DoneKeeps
<1>3. ASSUME NEW n \in DOMAIN requests,
             ServerCreatesCapsule(n) \/ CreationArrives(n) \/ CreationFails(n)
      PROVE  IndInv'
  BY <1>3, RequestGoesOn
<1>4. CASE \/ UploadImage
           \/ \E p \in Photos : \/ ServerStores(p) \/ UploadFails(p)
                                \/ ServerDeletes(p) \/ DeleteFails(p)
  BY <1>4, PhotoMoves
<1>5. ASSUME NEW p \in Photos, UploadArrives(p) PROVE IndInv'
  BY <1>5, UploadArrivesKeeps
<1>6. ASSUME NEW n \in DOMAIN images, DeleteImageButtonTap(n) PROVE IndInv'
  BY <1>6, DeleteKeeps
<1>7. CASE UNCHANGED vars
  BY <1>7, SameScreen, SameArrays, SamePhotos, SameSent DEF IndInv, vars, arrays, form
<1>8. QED  BY <1>1, <1>2, <1>3, <1>4, <1>5, <1>6, <1>7 DEF Next

\* The inductive invariant is one.
LEMMA Inductive == Spec => []IndInv
<1>1. Init => IndInv
  BY InitEstablishes
<1>2. IndInv /\ [Next]_vars => IndInv'
  BY NextKeeps
<1>3. QED  BY <1>1, <1>2, PTL DEF Spec

---------------------------------------------------------------------------
(* The results. *)

\* The variables of CapsuleCreation2ViewController keep their types.
THEOREM TypeCorrect == Spec => []TypeOK
<1>1. IndInv => TypeOK
  BY PickedArePhotos DEF IndInv, ScreenOK, ArraysOK, PhotosOK, TypeOK
<1>2. QED  BY <1>1, Inductive, PTL

\* images and imageIds stay in step, whatever uploads arrive late and whatever is
\* deleted meanwhile: the subscript and both removals of deleteImageButtonTap are
\* in range, and delete the picture tapped as long as the limit has refused none.
THEOREM ArraysStayInStep == Spec => []ArraysInStep
<1>1. IndInv => ArraysInStep
  BY DEF IndInv, ArraysOK
<1>2. QED  BY <1>1, Inductive, PTL

\* No id of imageIds is there twice, of an image that the server lacks or of one
\* whose deletion has been asked for, and no image on the server is forgotten
\* without a reason.
THEOREM ImagesAccounted == Spec => []ImagesAccountedFor
<1>1. IndInv => ImagesAccountedFor
  <2> SUFFICES ASSUME IndInv PROVE ImagesAccountedFor
    OBVIOUS
  <2>1. Cardinality(Elements(imageIds)) = Len(imageIds)
    BY DistinctCounts DEF IndInv, ArraysOK, PhotosOK
  <2>2. QED  BY <2>1 DEF IndInv, PhotosOK, ImagesAccountedFor
<1>2. QED  BY <1>1, Inductive, PTL

\* validateRequestData keeps the prompt out of every request, although opening
\* the tag table forgets the choice and closing it does not restore it.
THEOREM TagIsNamed == Spec => []RequestsNameATag
<1>1. IndInv => RequestsNameATag
  BY DEF IndInv, ScreenOK
<1>2. QED  BY <1>1, Inductive, PTL

\* doneCreationButtonTap leaves no image out but those whose uploads were not
\* answered yet, however uploads, refusals and deletions were mixed before the tap
\* and go on after it.
THEOREM AllImagesAreSent == Spec => []NothingLeftOut
<1>1. IndInv => NothingLeftOut
  BY DEF IndInv, SentOK
<1>2. QED  BY <1>1, Inductive, PTL

\* AtMostFourImages does not hold of the code, and the limit on the pictures is the
\* only reason: as long as addImageToCollectionView has refused no photo, no
\* request carries more images than the screen may show.
THEOREM OnlyRefusedExceed == Spec => [](refused = {} => AtMostFourImages)
<1> DEFINE Within == refused = {} => AtMostFourImages
<1>1. Init => Within
  BY DEF Init, AtMostFourImages
<1>2. ASSUME IndInv, Within, Next PROVE Within'
  <2>0. requests \in Seq(Request) /\ Len(requests) \in Nat /\ DOMAIN requests = 1 .. Len(requests)
    BY <1>2 DEF IndInv, ScreenOK
  <2>1. CASE DoneCreationButtonTap
    <3> DEFINE r == [imageList |-> imageIds, tagName |-> tagTitle, late |-> Late,
                     status |-> "sent"]
    <3>1. requests' = Append(requests, r) /\ refused' = refused
      BY <2>1 DEF DoneCreationButtonTap, SendTimeCapsuleRequest, arrays
    <3>0. Late \subseteq Photos
      BY <1>2, PickedArePhotos DEF IndInv, Late, Photos
    <3>2. refused = {} => Len(r.imageList) <= MaxImages
      BY <1>2 DEF IndInv, ArraysOK, ArraysInStep
    <3>3. r \in Request
      BY <1>2, <3>0 DEF IndInv, ScreenOK, ArraysOK, Request
    <3> HIDE DEF r
    <3>4. /\ DOMAIN requests' = 1 .. Len(requests) + 1
          /\ \A n \in 1 .. Len(requests) : requests'[n] = requests[n]
          /\ requests'[Len(requests) + 1] = r
      BY <2>0, <3>1, <3>3, AppendProperties
    <3>5. \A n \in DOMAIN requests' : n \in DOMAIN requests \/ n = Len(requests) + 1
      BY <2>0, <3>4
    <3>6. QED  BY <1>2, <2>0, <3>1, <3>2, <3>4, <3>5 DEF AtMostFourImages
  <2>2. ASSUME NEW n \in DOMAIN requests,
               ServerCreatesCapsule(n) \/ CreationArrives(n) \/ CreationFails(n)
        PROVE  Within'
    <3>1. PICK st : requests' = [requests EXCEPT ![n].status = st]
      BY <2>2 DEF ServerCreatesCapsule, CreationArrives, CreationFails
    <3>2. refused' = refused
      BY <2>2 DEF ServerCreatesCapsule, CreationArrives, CreationFails, arrays
    <3>3. \A m \in DOMAIN requests : requests[m] \in Request
      BY <2>0
    <3>4. /\ DOMAIN requests' = DOMAIN requests
          /\ \A m \in DOMAIN requests : requests'[m].imageList = requests[m].imageList
      BY <3>1, <3>3 DEF Request
    <3>5. QED  BY <1>2, <3>2, <3>4 DEF AtMostFourImages
  <2>3. CASE \/ \E filled \in BOOLEAN : EditText(filled)
             \/ ShowTagDropDown \/ \E tag \in Tags : DidSelectRowAt(tag)
             \/ CancelCreationButtonTap \/ PopToRootViewController \/ LogoutArrives
             \/ ShowLogin \/ UploadImage
             \/ \E p \in Photos : \/ ServerStores(p) \/ UploadArrives(p) \/ UploadFails(p)
                                  \/ ServerDeletes(p) \/ DeleteFails(p)
             \/ \E n \in DOMAIN images : DeleteImageButtonTap(n)
    <3>1. requests' = requests /\ refused \subseteq refused'
      BY <2>3 DEF EditText, ShowTagDropDown, DidSelectRowAt, CancelCreationButtonTap,
                  PopToRootViewController, LogoutArrives, ShowLogin, UploadImage, ServerStores, UploadArrives, UploadFails,
                  ServerDeletes, DeleteFails, DeleteImageButtonTap, AddImageToCollectionView, arrays
    <3>2. QED  BY <1>2, <3>1 DEF AtMostFourImages
  <2>4. QED  BY <1>2, <2>1, <2>2, <2>3 DEF Next
<1>3. Within /\ UNCHANGED vars => Within'
  BY DEF vars, arrays, AtMostFourImages
<1>4. IndInv /\ Within /\ [Next]_vars => Within'
  BY <1>2, <1>3
<1>5. QED  BY <1>1, <1>4, Inductive, PTL DEF Spec
=============================================================================
