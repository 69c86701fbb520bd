---------------------------- MODULE PreviewList ----------------------------
(***************************************************************************)
(* The list operations of TimeCapsulePreviewModel, as pure operators on    *)
(* sequences of previews.  A preview keeps the two fields that the code    *)
(* compares and that can differ between two copies of one capsule: its id  *)
(* and isOpened.  The fields the server never changes (tagName, createdAt, *)
(* deadline, title) are functions of the id.                               *)
(*                                                                         *)
(* Everything is defined by picking positions of a sequence, without       *)
(* recursion, so that the definitions can be reasoned about; PreviewLoops  *)
(* shows that they compute what the loops of the Swift code do.            *)
(***************************************************************************)
EXTENDS Integers, Sequences, FiniteSets

CONSTANTS
    NumCapsules,   \* capsules are numbered 1 .. NumCapsules by deadline
    Tags,          \* the tag names, K.String.tags
    TagOf,         \* tagName of each capsule
    CreatedDate,   \* the three sort keys of each capsule, as ranks
    DeadlineDate,
    Title

Ids == 1 .. NumCapsules

ASSUME CapsuleAssumption ==
    /\ NumCapsules \in Nat
    /\ TagOf \in [Ids -> Tags]
    /\ CreatedDate \in [Ids -> Nat]
    /\ DeadlineDate \in [Ids -> Nat]
    /\ Title \in [Ids -> Nat]

NoTag == "no tag"     \* selectedTag == nil
ASSUME NoTagAssumption == NoTag \notin Tags

States == {"all", "closed", "opened"}   \* selectedState: nil, tag 0, tag 1

Preview == [id: Ids, isOpened: BOOLEAN]

\* A list of previews in which no capsule occurs twice.
UniqueList(s) == s \in Seq(Preview) /\ \A m, n \in DOMAIN s : s[m].id = s[n].id => m = n

IdsOf(s) == {s[n].id : n \in DOMAIN s}

\* The n-th of a set of positions, counted upwards.
Nth(keep, n) == CHOOSE i \in keep : Cardinality({j \in keep : j <= i}) = n

\* The elements of s at the positions in keep, in their order in s.
Pick(s, keep) == [n \in 1 .. Cardinality(keep) |-> s[Nth(keep, n)]]

---------------------------------------------------------------------------
\* Mutants of the operators below: plausible mistakes in the Swift code.

\* the id comparison of the inner loop is dropped
CombineArraysNoCheck(left, right) == left \o right

\* the inner loop scans leftArray instead of result
CombineArraysLeftOnly(left, right) ==
    left \o Pick(right, {n \in DOMAIN right : right[n].id \notin IdsOf(left)})

---------------------------------------------------------------------------
\* combineArrays: left, then each element of right whose id is not yet there.
\* The copy already in the list wins.
CombineArrays(left, right) ==
    left \o Pick(right, {n \in DOMAIN right :
                            /\ right[n].id \notin IdsOf(left)
                            /\ \A m \in 1 .. n - 1 : right[m].id # right[n].id})

\* removingDuplicates: the first of equal records stays.
RemovingDuplicates(s) ==
    Pick(s, {n \in DOMAIN s : \A m \in 1 .. n - 1 : s[m] # s[n]})

\* filterTag: what is kept of original when a tag button is selected.
FilterTag(tag, s) ==
    Pick(s, {n \in DOMAIN s : tag \in {NoTag, TagOf[s[n].id]}})

\* filterState: onlyClosed removes the opened capsules, onlyOpened the others.
FilterState(state, s) ==
    Pick(s, {n \in DOMAIN s : state = "all" \/ s[n].isOpened = (state = "opened")})

\* filter(): filtered is rebuilt from original.
Filter(tag, state, s) == FilterState(state, FilterTag(tag, s))

\* What the selected buttons ask of a capsule.
Passes(tag, state, p) ==
    /\ tag \in {NoTag, TagOf[p.id]}
    /\ state = "all" \/ p.isOpened = (state = "opened")

\* One sortBy... function per key and direction.
SortKeys == {CreatedDate, DeadlineDate, Title}

\* The results Array.sort may leave: it is a permutation ordered by the key,
\* and nothing fixes the order of equal keys.
SortsOf(s, key, asc) ==
    {t \in {[n \in DOMAIN s |-> s[p[n]]] :
                p \in {q \in [DOMAIN s -> DOMAIN s] :
                          \A m, n \in DOMAIN s : q[m] = q[n] => m = n}} :
        \A n \in 1 .. Len(t) - 1 :
            IF asc THEN key[t[n].id] <= key[t[n + 1].id]
                   ELSE key[t[n].id] >= key[t[n + 1].id]}
=============================================================================
