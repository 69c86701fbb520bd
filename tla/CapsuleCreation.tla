-------------------------- MODULE CapsuleCreation --------------------------
(***************************************************************************)
(* One visit to the second creation screen, CapsuleCreation2ViewController: *)
(* photos are uploaded one by one, may be deleted again, and the capsule   *)
(* is created with the ids of the uploaded photos.  The screen keeps two   *)
(* arrays side by side, the pictures it shows (images) and the ids it will *)
(* send (imageIds).  A photo and the id the server gives it have one name  *)
(* here, its number in the order of picking, so the arrays can be compared.*)
(*                                                                         *)
(* The screen is reached from the home screen, where a RefreshToken is     *)
(* stored.  A logout asked for on my page before may still be under way:   *)
(* its completion deletes the token and, half a second later, replaces the *)
(* screen.                                                                 *)
(***************************************************************************)
EXTENDS Integers, Sequences, FiniteSets

CONSTANTS
    MaxImages,     \* pictures shown at most, 4 in addImageToCollectionView
    MaxPicks,      \* bound: photos picked during the visit
    MaxRequests,   \* bound: creation requests sent during the visit
    Tags           \* K.String.tags

Prompt == "pick a tag"    \* the tag button's title before a tag is chosen

ASSUME CreationAssumption ==
    /\ MaxImages \in Nat /\ MaxPicks \in Nat /\ MaxRequests \in Nat
    /\ Prompt \notin Tags

Photos == 1 .. MaxPicks

VARIABLES
    token,         \* RefreshToken is in the keychain
    screen,        \* "editing" until the screen is popped
    formFilled,    \* title and content are both non-empty
    dropDown,      \* the tag table is visible
    isTagSelected,
    tagTitle,      \* title of the tag button
    images,        \* the pictures shown
    imageIds,      \* the ids to send
    picked,        \* number of photos picked so far
    uploads,       \* uploads in flight
    deletes,       \* image deletions in flight
    stored,        \* images the server keeps
    excused,       \* history: images the phone has lost track of, for a reason
    refused,       \* photos that the limit on images has refused
    requests       \* creation requests, with their progress

form == <<formFilled, dropDown, isTagSelected, tagTitle>>
arrays == <<images, imageIds, refused>>
vars == <<token, screen, form, arrays, picked, uploads, deletes, stored, excused, requests>>

Elements(s) == {s[n] : n \in DOMAIN s}

\* late is history: the photos whose upload had not been answered at the tap.
Request == [imageList: Seq(Photos), tagName: Tags \cup {Prompt},
            late: SUBSET Photos,
            status: {"sent", "created", "succeeded", "failed"}]

TypeOK ==
    /\ token \in BOOLEAN
    /\ screen \in {"editing", "left"}
    /\ formFilled \in BOOLEAN /\ dropDown \in BOOLEAN /\ isTagSelected \in BOOLEAN
    /\ tagTitle \in Tags \cup {Prompt}
    /\ images \in Seq(Photos) /\ imageIds \in Seq(Photos)
    /\ picked \in 0 .. MaxPicks
    /\ uploads \subseteq Photos /\ deletes \subseteq Photos
    /\ stored \subseteq Photos /\ excused \subseteq Photos /\ refused \subseteq Photos
    /\ requests \in Seq(Request)

Init ==
    /\ token = TRUE /\ screen = "editing"
    /\ formFilled = FALSE /\ dropDown = FALSE /\ isTagSelected = FALSE /\ tagTitle = Prompt
    /\ images = <<>> /\ imageIds = <<>> /\ refused = {}
    /\ picked = 0 /\ uploads = {} /\ deletes = {} /\ stored = {} /\ excused = {}
    /\ requests = <<>>

Editing == screen = "editing"

---------------------------------------------------------------------------
(* The form. *)

EditText(filled) ==
    /\ Editing
    /\ formFilled' = filled
    /\ UNCHANGED <<token, screen, dropDown, isTagSelected, tagTitle, arrays, picked, uploads, deletes,
                   stored, excused, requests>>

\* Opening the table resets isTagSelected, closing it does not set it again.
ShowTagDropDown ==
    /\ Editing
    /\ dropDown' = ~dropDown
    /\ isTagSelected' = (isTagSelected /\ ~dropDown')
    /\ UNCHANGED <<token, screen, formFilled, tagTitle, arrays, picked, uploads, deletes, stored, excused, requests>>

DidSelectRowAt(tag) ==
    /\ Editing
    /\ dropDown
    /\ tagTitle' = tag /\ dropDown' = FALSE /\ isTagSelected' = TRUE
    /\ UNCHANGED <<token, screen, formFilled, arrays, picked, uploads, deletes, stored, excused, requests>>

---------------------------------------------------------------------------
(* The photos. *)

\* Array.remove(at:)
RemoveAtIndex(s, n) == SubSeq(s, 1, n - 1) \o SubSeq(s, n + 1, Len(s))

\* A photo comes back from the picker and its upload starts.
UploadImage ==
    /\ Editing /\ token
    /\ picked < MaxPicks
    /\ picked' = picked + 1
    /\ uploads' = uploads \cup {picked + 1}
    /\ UNCHANGED <<token, screen, form, arrays, deletes, stored, excused, requests>>

ServerStores(p) ==
    /\ p \in uploads \ stored
    /\ stored' = stored \cup {p}
    /\ UNCHANGED <<token, screen, form, arrays, picked, uploads, deletes, excused, requests>>

\* addImageToCollectionView: only the pictures are limited.
AddImageToCollectionView(p) ==
    \/ /\ Len(images) < MaxImages
       /\ images' = Append(images, p)
       /\ UNCHANGED refused
    \/ /\ Len(images) >= MaxImages
       /\ refused' = refused \cup {p}
       /\ UNCHANGED images

\* Mutant: a reply without an id is taken as id 0.
UploadArrivesDefault(p) ==
    /\ p \in uploads \cap stored
    /\ uploads' = uploads \ {p}
    /\ AddImageToCollectionView(p)
    /\ \E id \in {0, p} : imageIds' = Append(imageIds, id)
    /\ UNCHANGED <<token, screen, form, picked, deletes, stored, excused, requests>>

\* Mutant: a photo beyond the limit is dropped with its id.
UploadArrivesStrict(p) ==
    /\ p \in uploads \cap stored
    /\ uploads' = uploads \ {p}
    /\ AddImageToCollectionView(p)
    /\ imageIds' = IF Len(images) < MaxImages THEN Append(imageIds, p) ELSE imageIds
    /\ UNCHANGED <<token, screen, form, picked, deletes, stored, excused, requests>>

\* An upload succeeds, also when the screen has been left meanwhile.
UploadArrives(p) ==
    /\ p \in uploads \cap stored
    /\ uploads' = uploads \ {p}
    /\ AddImageToCollectionView(p)
    /\ imageIds' = Append(imageIds, p)
    /\ UNCHANGED <<token, screen, form, picked, deletes, stored, excused, requests>>

\* An upload is rejected or fails, or its answer is lost: a console message.
UploadFails(p) ==
    /\ p \in uploads
    /\ uploads' = uploads \ {p}
    /\ excused' = excused \cup {p}
    /\ UNCHANGED <<token, screen, form, arrays, picked, deletes, stored, requests>>

\* Mutant: the second removal is forgotten.
DeleteImageButtonTapPictureOnly(n) ==
    /\ Editing
    /\ deletes' = deletes \cup {imageIds[n]}
    /\ images' = RemoveAtIndex(images, n)
    /\ UNCHANGED <<token, screen, form, imageIds, refused, picked, uploads, stored, excused, requests>>

\* The delete button of the n-th picture: the id is looked up by position, and
\* both arrays lose the position before the server has answered.
DeleteImageButtonTap(n) ==
    /\ Editing
    /\ deletes' = IF token THEN deletes \cup {imageIds[n]} ELSE deletes
    /\ excused' = IF token THEN excused ELSE excused \cup {imageIds[n]}
    /\ images' = RemoveAtIndex(images, n)
    /\ imageIds' = RemoveAtIndex(imageIds, n)
    /\ UNCHANGED <<token, screen, form, refused, picked, uploads, stored, requests>>

ServerDeletes(p) ==
    /\ p \in deletes
    /\ deletes' = deletes \ {p}
    /\ stored' = stored \ {p}
    /\ UNCHANGED <<token, screen, form, arrays, picked, uploads, excused, requests>>

\* A deletion fails: a console message; the picture is gone all the same.
DeleteFails(p) ==
    /\ p \in deletes
    /\ deletes' = deletes \ {p}
    /\ excused' = excused \cup {p}
    /\ UNCHANGED <<token, screen, form, arrays, picked, uploads, stored, requests>>

---------------------------------------------------------------------------
(* The capsule. *)

\* Mutant: the tag is not looked at.
ValidateTextOnly == formFilled

ValidateRequestData == formFilled /\ isTagSelected

Late == uploads \cup (picked + 1 .. MaxPicks)

SendTimeCapsuleRequest(ids) ==
    requests' = Append(requests, [imageList |-> ids, tagName |-> tagTitle, late |-> Late,
                                  status |-> "sent"])

\* Mutant: as many ids are sent as there are pictures.
DoneCreationButtonTapShown ==
    /\ Editing /\ token
    /\ ValidateRequestData
    /\ Len(requests) < MaxRequests
    /\ SendTimeCapsuleRequest(SubSeq(imageIds, 1, Len(images)))
    /\ UNCHANGED <<token, screen, form, arrays, picked, uploads, deletes, stored, excused>>

\* Nothing keeps the button from being tapped again while a request is out, or
\* while the screen is about to be popped.
DoneCreationButtonTap ==
    /\ Editing /\ token
    /\ ValidateRequestData
    /\ Len(requests) < MaxRequests
    /\ SendTimeCapsuleRequest(imageIds)
    /\ UNCHANGED <<token, screen, form, arrays, picked, uploads, deletes, stored, excused>>

ServerCreatesCapsule(n) ==
    /\ requests[n].status = "sent"
    /\ requests' = [requests EXCEPT ![n].status = "created"]
    /\ UNCHANGED <<token, screen, form, arrays, picked, uploads, deletes, stored, excused>>

\* Success is printed, and a block that pops the screen is queued on the main
\* queue.
CreationArrives(n) ==
    /\ requests[n].status = "created"
    /\ requests' = [requests EXCEPT ![n].status = "succeeded"]
    /\ UNCHANGED <<token, screen, form, arrays, picked, uploads, deletes, stored, excused>>

\* The block runs.  When the screen has been left meanwhile, it finds nothing to
\* pop and changes nothing.
PopToRootViewController ==
    /\ Editing
    /\ \E n \in DOMAIN requests : requests[n].status = "succeeded"
    /\ screen' = "left"
    /\ UNCHANGED <<token, form, arrays, picked, uploads, deletes, stored, excused, requests>>

CreationFails(n) ==
    /\ requests[n].status \in {"sent", "created"}
    /\ requests' = [requests EXCEPT ![n].status = "failed"]
    /\ UNCHANGED <<token, screen, form, arrays, picked, uploads, deletes, stored, excused>>

\* Cancel and the back button pop the screen and leave the uploads alone.
CancelCreationButtonTap ==
    /\ Editing
    /\ screen' = "left"
    /\ UNCHANGED <<token, form, arrays, picked, uploads, deletes, stored, excused, requests>>

---------------------------------------------------------------------------
(* The session. *)

LogoutArrives ==
    /\ token
    /\ token' = FALSE
    /\ UNCHANGED <<screen, form, arrays, picked, uploads, deletes, stored, excused, requests>>

ShowLogin ==
    /\ Editing /\ ~token
    /\ screen' = "left"
    /\ UNCHANGED <<token, form, arrays, picked, uploads, deletes, stored, excused, requests>>

---------------------------------------------------------------------------
Next ==
    \/ \E filled \in BOOLEAN : EditText(filled)
    \/ ShowTagDropDown \/ UploadImage \/ DoneCreationButtonTap \/ CancelCreationButtonTap
    \/ \E tag \in Tags : DidSelectRowAt(tag)
    \/ \E p \in Photos : \/ ServerStores(p) \/ UploadArrives(p) \/ UploadFails(p)
                         \/ ServerDeletes(p) \/ DeleteFails(p)
    \/ \E n \in DOMAIN images : DeleteImageButtonTap(n)
    \/ \E n \in DOMAIN requests :
         ServerCreatesCapsule(n) \/ CreationArrives(n) \/ CreationFails(n)
    \/ PopToRootViewController \/ LogoutArrives \/ ShowLogin

Spec == Init /\ [][Next]_vars

---------------------------------------------------------------------------
(* Properties. *)

\* Every picture has an id at its position, so that the subscript and the two
\* removals of deleteImageButtonTap stay in range, after any mix of late
\* uploads and deletions.  As long as the limit has refused no photo, the ids are
\* those of the pictures, position by position: a deletion deletes the picture
\* tapped.
ArraysInStep ==
    /\ Len(images) <= Len(imageIds) /\ Len(images) <= MaxImages
    /\ refused = {} => images = imageIds

\* Phone and server agree on the images.  Every id that would be sent is of an
\* image the server has and nobody has asked it to delete, and no id is there
\* twice.  While the screen is up, an image that the server keeps is one the
\* phone still knows of, to send or to delete, unless the answer to its upload
\* was lost, its deletion failed, or there was no token to ask for the deletion:
\* deleteImageButtonTap removes the picture before it knows.
ImagesAccountedFor ==
    /\ Elements(imageIds) \subseteq stored \ deletes
    /\ Cardinality(Elements(imageIds)) = Len(imageIds)
    /\ Editing => stored \subseteq uploads \cup deletes \cup Elements(imageIds) \cup excused

\* No request carries the prompt as its tag, however the table was opened and
\* closed before.
RequestsNameATag == \A n \in DOMAIN requests : requests[n].tagName # Prompt

\* The request carries every image that can belong to the capsule.  An image that
\* the server keeps, and that is neither being deleted nor lost track of, is in
\* every request of the visit whose tap came after the answer to its upload: the
\* picture limit, deletions, failures and later uploads leave no other image out.
NothingLeftOut ==
    \A n \in DOMAIN requests :
       stored \ (deletes \cup excused) \subseteq
          Elements(requests[n].imageList) \cup requests[n].late

\* "At most 4 are possible" (line 202): no capsule is created with more images
\* than the screen shows.
AtMostFourImages == \A n \in DOMAIN requests : Len(requests[n].imageList) <= MaxImages
=============================================================================
