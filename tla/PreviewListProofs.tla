------------------------- MODULE PreviewListProofs -------------------------
(***************************************************************************)
(* What the list operations of PreviewList preserve, for lists of any      *)
(* length, and that the loops of PreviewLoops compute them.  All of them   *)
(* pick positions of a sequence, so everything rests on PickProperties,    *)
(* and the loops on PickOneMore.                                           *)
(***************************************************************************)
EXTENDS PreviewLoops, FiniteSetTheorems, FunctionTheorems, SequenceTheorems, TLAPS

\* Counting the chosen positions up to a given one numbers them 1, 2, ...
LEMMA Ranking ==
    ASSUME NEW m \in Nat, NEW keep \in SUBSET (1 .. m)
    PROVE  /\ IsFiniteSet(keep)
           /\ Cardinality(keep) \in Nat
           /\ \A n \in 1 .. Cardinality(keep) :
                 \E i \in keep : Cardinality({j \in keep : j <= i}) = n
           /\ \A i \in keep : Cardinality({j \in keep : j <= i}) \in 1 .. Cardinality(keep)
           /\ \A i, k \in keep :
                 Cardinality({j \in keep : j <= i}) = Cardinality({j \in keep : j <= k}) => i = k
<1> DEFINE upto(i) == {j \in keep : j <= i}
           rank == [i \in keep |-> Cardinality(upto(i))]
           N == Cardinality(keep)
<1>1. IsFiniteSet(keep) /\ N \in Nat
  <2>1. IsFiniteSet(1 .. m)
    BY FS_Interval
  <2>2. IsFiniteSet(keep)
    BY <2>1, FS_Subset
  <2> QED
    BY <2>2, FS_CardinalityType
<1>2. ASSUME NEW i \in keep
      PROVE  IsFiniteSet(upto(i)) /\ Cardinality(upto(i)) \in 1 .. N
  <2>1. upto(i) \in SUBSET keep
    OBVIOUS
  <2>2. IsFiniteSet(upto(i)) /\ Cardinality(upto(i)) <= N
    BY <1>1, <2>1, FS_Subset
  <2>3. Cardinality(upto(i)) \in Nat
    BY <2>2, FS_CardinalityType
  <2>4. i \in upto(i)
    BY keep \subseteq 1 .. m
  <2>5. Cardinality(upto(i)) # 0
    BY <2>2, <2>4, FS_EmptySet
  <2> QED
    BY <1>1, <2>2, <2>3, <2>5
<1>3. ASSUME NEW i \in keep, NEW k \in keep, Cardinality(upto(i)) = Cardinality(upto(k))
      PROVE  i = k
  <2>0. i \in Int /\ k \in Int /\ \A j \in keep : j \in Int
    OBVIOUS
  <2>1. CASE i <= k
    <3>0. \A j \in keep : j <= i => j <= k
      BY <2>0, <2>1
    <3>1. upto(i) \in SUBSET upto(k)
      BY <3>0
    <3>2. IsFiniteSet(upto(k))
      BY <1>2
    <3>3. upto(k) = upto(i)
      BY <3>1, <3>2, <1>3, FS_Subset
    <3>4. k \in upto(k)
      BY <2>0
    <3> QED
      BY <2>0, <2>1, <3>3, <3>4
  <2>2. CASE k <= i
    <3>0. \A j \in keep : j <= k => j <= i
      BY <2>0, <2>2
    <3>1. upto(k) \in SUBSET upto(i)
      BY <3>0
    <3>2. IsFiniteSet(upto(i))
      BY <1>2
    <3>3. upto(i) = upto(k)
      BY <3>1, <3>2, <1>3, FS_Subset
    <3>4. i \in upto(i)
      BY <2>0
    <3> QED
      BY <2>0, <2>2, <3>3, <3>4
  <2> QED
    BY <2>0, <2>1, <2>2
<1>4. rank \in Surjection(keep, 1 .. N)
  <2>1. rank \in [keep -> 1 .. N]
    BY <1>2
  <2>2. \A i, k \in keep : rank[i] = rank[k] => i = k
    BY <1>3
  <2>3. rank \in Injection(keep, 1 .. N)
    BY <2>1, <2>2 DEF Injection, IsInjective
  <2>4. IsFiniteSet(1 .. N) /\ Cardinality(1 .. N) = N
    BY <1>1, FS_Interval
  <2> QED
    BY <2>3, <2>4, FS_Injection
<1>5. \A n \in 1 .. N : \E i \in keep : rank[i] = n
  BY <1>4 DEF Surjection
<1> QED
  BY <1>1, <1>2, <1>3, <1>5

\* Pick returns a sequence that lists each chosen position once.
LEMMA PickProperties ==
    ASSUME NEW S, NEW s \in Seq(S), NEW keep \in SUBSET (DOMAIN s)
    PROVE  /\ Pick(s, keep) \in Seq(S)
           /\ DOMAIN Pick(s, keep) = 1 .. Cardinality(keep)
           /\ \A n \in DOMAIN Pick(s, keep) :
                Nth(keep, n) \in keep /\ Pick(s, keep)[n] = s[Nth(keep, n)]
           /\ \A m, n \in DOMAIN Pick(s, keep) : Nth(keep, m) = Nth(keep, n) => m = n
<1> DEFINE N == Cardinality(keep)
           count(i) == Cardinality({j \in keep : j <= i})
<1>1. Len(s) \in Nat /\ keep \in SUBSET (1 .. Len(s)) /\ \A i \in keep : s[i] \in S
  BY LenProperties, ElementOfSeq
<1>2. /\ N \in Nat
      /\ \A n \in 1 .. N : \E i \in keep : count(i) = n
      /\ \A i \in keep : count(i) \in 1 .. N
      /\ \A i, k \in keep : count(i) = count(k) => i = k
  BY <1>1, Ranking
<1>3. \A n : Nth(keep, n) = CHOOSE i \in keep : count(i) = n
  BY DEF Nth
<1> HIDE DEF count
<1>4. \A n \in 1 .. N : Nth(keep, n) \in keep /\ count(Nth(keep, n)) = n
  BY <1>2, <1>3
<1>6. Pick(s, keep) = [n \in 1 .. N |-> s[Nth(keep, n)]]
  BY DEF Pick
<1>7. Pick(s, keep) \in [1 .. N -> S]
  BY <1>1, <1>4, <1>6
<1>8. Pick(s, keep) \in Seq(S)
  BY <1>2, <1>7, SeqDef
<1>9. DOMAIN Pick(s, keep) = 1 .. N
  BY <1>6
<1>10. \A m, n \in 1 .. N : Nth(keep, m) = Nth(keep, n) => m = n
  BY <1>4
<1> QED
  BY <1>4, <1>6, <1>8, <1>9, <1>10

\* Any part of a list without repeated ids has none, and its elements are
\* elements of the list at chosen positions.
LEMMA PickOfUnique ==
    ASSUME NEW s, UniqueList(s), NEW keep \in SUBSET (DOMAIN s)
    PROVE  /\ UniqueList(Pick(s, keep))
           /\ \A n \in DOMAIN Pick(s, keep) : \E i \in keep : Pick(s, keep)[n] = s[i]
<1>1. s \in Seq(Preview)
  BY DEF UniqueList
<1>2. Pick(s, keep) \in Seq(Preview)
  BY <1>1, PickProperties
<1>3. /\ \A n \in DOMAIN Pick(s, keep) : Nth(keep, n) \in keep /\ Pick(s, keep)[n] = s[Nth(keep, n)]
      /\ \A m, n \in DOMAIN Pick(s, keep) : Nth(keep, m) = Nth(keep, n) => m = n
  BY <1>1, PickProperties
<1>4. ASSUME NEW m \in DOMAIN Pick(s, keep), NEW n \in DOMAIN Pick(s, keep),
             Pick(s, keep)[m].id = Pick(s, keep)[n].id
      PROVE  m = n
  <2>1. Nth(keep, m) \in DOMAIN s /\ Nth(keep, n) \in DOMAIN s
    BY <1>3
  <2>2. s[Nth(keep, m)].id = s[Nth(keep, n)].id
    BY <1>3, <1>4
  <2>3. Nth(keep, m) = Nth(keep, n)
    BY <2>1, <2>2 DEF UniqueList
  <2> QED
    BY <1>3, <2>3
<1>5. UniqueList(Pick(s, keep))
  BY <1>2, <1>4 DEF UniqueList
<1> QED
  BY <1>3, <1>5

\* combineArrays keeps a list without repeated ids so, whatever the reply
\* repeats, and adds nothing but elements of the reply.
LEMMA CombineArraysProperties ==
    ASSUME NEW left, UniqueList(left), NEW right \in Seq(Preview)
    PROVE  /\ UniqueList(CombineArrays(left, right))
           /\ \A n \in DOMAIN CombineArrays(left, right) :
                \/ \E i \in DOMAIN left : CombineArrays(left, right)[n] = left[i]
                \/ \E i \in DOMAIN right : CombineArrays(left, right)[n] = right[i]
<1> DEFINE keep == {n \in DOMAIN right :
                       /\ right[n].id \notin IdsOf(left)
                       /\ \A m \in 1 .. n - 1 : right[m].id # right[n].id}
           new == Pick(right, keep)
           all == left \o new
<1>0. left \in Seq(Preview) /\ Len(left) \in Nat /\ DOMAIN left = 1 .. Len(left)
  BY LenProperties DEF UniqueList
<1>1. CombineArrays(left, right) = all
  BY DEF CombineArrays
<1>2. keep \in SUBSET (DOMAIN right)
  OBVIOUS
<1>3. new \in Seq(Preview)
  BY <1>2, PickProperties
<1> DEFINE f(n) == Nth(keep, n)
<1>4. /\ \A n \in DOMAIN new : f(n) \in keep /\ new[n] = right[f(n)]
      /\ \A m, n \in DOMAIN new : f(m) = f(n) => m = n
  BY <1>2, PickProperties
<1> HIDE DEF f
<1>5. Len(new) \in Nat /\ DOMAIN new = 1 .. Len(new)
  BY <1>3, LenProperties
<1>6. DOMAIN right = 1 .. Len(right) /\ Len(right) \in Nat
  BY LenProperties
<1>7. \A n \in DOMAIN new :
        f(n) \in DOMAIN right /\ right[f(n)].id \notin IdsOf(left)
  BY <1>4
<1>8. ASSUME NEW m \in DOMAIN new, NEW n \in DOMAIN new, new[m].id = new[n].id
      PROVE  m = n
  <2>1. f(m) \in 1 .. Len(right) /\ f(n) \in 1 .. Len(right)
    BY <1>6, <1>7
  <2>2. right[f(m)].id = right[f(n)].id
    BY <1>4, <1>8
  <2>3. ~(f(m) < f(n)) /\ ~(f(n) < f(m))
    <3>1. \A k \in keep : \A j \in 1 .. k - 1 : right[j].id # right[k].id
      OBVIOUS
    <3>2. f(m) \in keep /\ f(n) \in keep
      BY <1>4
    <3>3. ASSUME f(m) < f(n) PROVE FALSE
      <4>1. f(m) \in 1 .. f(n) - 1
        BY <1>6, <2>1, <3>3
      <4> QED
        BY <2>2, <3>1, <3>2, <4>1
    <3>4. ASSUME f(n) < f(m) PROVE FALSE
      <4>1. f(n) \in 1 .. f(m) - 1
        BY <1>6, <2>1, <3>4
      <4> QED
        BY <2>2, <3>1, <3>2, <4>1
    <3> QED
      BY <3>3, <3>4
  <2>4. f(m) = f(n)
    BY <1>6, <2>1, <2>3
  <2> QED
    BY <1>4, <2>4
<1> HIDE DEF new, keep
<1>9. /\ all \in Seq(Preview)
      /\ DOMAIN all = 1 .. Len(left) + Len(new)
      /\ \A n \in DOMAIN all : all[n] = IF n <= Len(left) THEN left[n] ELSE new[n - Len(left)]
  <2>1. /\ all \in Seq(Preview)
        /\ Len(all) = Len(left) + Len(new)
        /\ \A n \in 1 .. Len(left) + Len(new) :
              all[n] = IF n <= Len(left) THEN left[n] ELSE new[n - Len(left)]
    BY <1>0, <1>3, ConcatProperties
  <2>2. DOMAIN all = 1 .. Len(all)
    BY <2>1, LenProperties
  <2> QED
    BY <2>1, <2>2
<1> HIDE DEF all
<1>10. ASSUME NEW n \in DOMAIN all
       PROVE  \/ n \in DOMAIN left /\ all[n] = left[n]
              \/ /\ n - Len(left) \in DOMAIN new
                 /\ all[n] = new[n - Len(left)]
                 /\ all[n].id \notin IdsOf(left)
  <2>1. CASE n <= Len(left)
    BY <1>0, <1>5, <1>9, <2>1
  <2>2. CASE ~(n <= Len(left))
    <3>1. n - Len(left) \in DOMAIN new /\ all[n] = new[n - Len(left)]
      BY <1>0, <1>5, <1>9, <2>2
    <3> QED
      BY <1>4, <1>7, <3>1
  <2> QED
    BY <2>1, <2>2
<1>11. ASSUME NEW m \in DOMAIN all, NEW n \in DOMAIN all, all[m].id = all[n].id
       PROVE  m = n
  <2>1. \A i \in DOMAIN left : left[i].id \in IdsOf(left)
    BY DEF IdsOf
  <2>2. CASE m \in DOMAIN left /\ all[m] = left[m]
    <3>1. n \in DOMAIN left /\ all[n] = left[n]
      BY <1>10, <1>11, <2>1, <2>2
    <3> QED
      BY <1>11, <2>2, <3>1 DEF UniqueList
  <2>3. CASE /\ m - Len(left) \in DOMAIN new
             /\ all[m] = new[m - Len(left)]
             /\ all[m].id \notin IdsOf(left)
    <3>1. n - Len(left) \in DOMAIN new /\ all[n] = new[n - Len(left)]
      BY <1>10, <1>11, <2>1, <2>3
    <3>2. m - Len(left) = n - Len(left)
      BY <1>8, <1>11, <2>3, <3>1
    <3> QED
      BY <1>0, <1>5, <1>9, <3>2
  <2> QED
    BY <1>10, <2>2, <2>3
<1>12. UniqueList(all)
  BY <1>9, <1>11 DEF UniqueList
<1>13. \A n \in DOMAIN all : \/ \E i \in DOMAIN left : all[n] = left[i]
                             \/ \E i \in DOMAIN right : all[n] = right[i]
  BY <1>4, <1>7, <1>10
<1> QED
  BY <1>1, <1>12, <1>13

\* Picking every position returns the list.
LEMMA PickAll ==
    ASSUME NEW S, NEW s \in Seq(S)
    PROVE  Pick(s, DOMAIN s) = s
<1> DEFINE D == 1 .. Len(s)
<1>1. Len(s) \in Nat /\ DOMAIN s = D /\ s \in [D -> S]
  BY LenProperties
<1>2. Cardinality(D) = Len(s)
  BY <1>1, FS_Interval
<1>3. ASSUME NEW i \in D PROVE Cardinality({j \in D : j <= i}) = i
  <2>1. {j \in D : j <= i} = 1 .. i
    BY <1>1
  <2>2. i \in Nat /\ i >= 1
    BY <1>1
  <2>3. Cardinality(1 .. i) = i
    BY <2>2, FS_Interval
  <2> QED
    BY <2>1, <2>3
<1>4. \A n \in D : Nth(D, n) = n
  <2> SUFFICES ASSUME NEW n \in D PROVE Nth(D, n) = n
    OBVIOUS
  <2> DEFINE P(i) == Cardinality({j \in D : j <= i}) = n
  <2>1. P(n) /\ \A i \in D : P(i) => i = n
    BY <1>3
  <2>2. Nth(D, n) = CHOOSE i \in D : P(i)
    BY DEF Nth
  <2> HIDE DEF P
  <2> QED
    BY <2>1, <2>2
<1> HIDE DEF D
<1>5. Pick(s, D) = [n \in 1 .. Len(s) |-> s[Nth(D, n)]]
  BY <1>2 DEF Pick
<1>6. Pick(s, D) = [n \in D |-> s[n]]
  BY <1>4, <1>5 DEF D
<1> QED
  BY <1>1, <1>6

\* removingDuplicates changes nothing where no id is repeated.
LEMMA RemovingDuplicatesIsIdentity ==
    ASSUME NEW s, UniqueList(s)
    PROVE  RemovingDuplicates(s) = s
<1>1. s \in Seq(Preview) /\ Len(s) \in Nat /\ DOMAIN s = 1 .. Len(s)
  BY LenProperties DEF UniqueList
<1>2. ASSUME NEW n \in DOMAIN s, NEW m \in 1 .. n - 1
      PROVE  s[m] # s[n]
  <2>1. m \in DOMAIN s /\ m # n
    BY <1>1
  <2> QED
    BY <2>1 DEF UniqueList
<1>3. {n \in DOMAIN s : \A m \in 1 .. n - 1 : s[m] # s[n]} = DOMAIN s
  BY <1>2
<1>4. RemovingDuplicates(s) = Pick(s, DOMAIN s)
  BY <1>3 DEF RemovingDuplicates
<1> QED
  BY <1>1, <1>4, PickAll

\* filter() returns a part of original that obeys the selected buttons.
LEMMA FilterProperties ==
    ASSUME NEW s, UniqueList(s), NEW tag, NEW state
    PROVE  /\ UniqueList(Filter(tag, state, s))
           /\ \A n \in DOMAIN Filter(tag, state, s) :
                /\ Passes(tag, state, Filter(tag, state, s)[n])
                /\ \E i \in DOMAIN s : Filter(tag, state, s)[n] = s[i]
<1> DEFINE t == FilterTag(tag, s)
           u == FilterState(state, t)
           keep1 == {n \in DOMAIN s : tag \in {NoTag, TagOf[s[n].id]}}
           keep2 == {n \in DOMAIN t : state = "all" \/ t[n].isOpened = (state = "opened")}
<1>1. keep1 \in SUBSET (DOMAIN s) /\ t = Pick(s, keep1)
  BY DEF FilterTag
<1> HIDE DEF t
<1>2. /\ UniqueList(t)
      /\ \A n \in DOMAIN t : \E i \in keep1 : t[n] = s[i]
  <2> HIDE DEF keep1
  <2> QED
    BY <1>1, PickOfUnique
<1>3. \A n \in DOMAIN t : /\ tag \in {NoTag, TagOf[t[n].id]}
                          /\ \E i \in DOMAIN s : t[n] = s[i]
  BY <1>2
<1>4. keep2 \in SUBSET (DOMAIN t) /\ u = Pick(t, keep2)
  BY DEF FilterState
<1> HIDE DEF u
<1>5. /\ UniqueList(u)
      /\ \A n \in DOMAIN u : \E i \in keep2 : u[n] = t[i]
  <2> HIDE DEF keep2
  <2> QED
    BY <1>2, <1>4, PickOfUnique
<1>6. \A n \in DOMAIN u : \E i \in DOMAIN t :
         /\ u[n] = t[i]
         /\ state = "all" \/ t[i].isOpened = (state = "opened")
  BY <1>5
<1>7. \A n \in DOMAIN u : /\ Passes(tag, state, u[n])
                          /\ \E i \in DOMAIN s : u[n] = s[i]
  BY <1>3, <1>6 DEF Passes
<1>8. Filter(tag, state, s) = u
  BY DEF Filter, t, u
<1> QED
  BY <1>5, <1>7, <1>8

\* A sort returns the elements of the list, each once.
LEMMA SortsOfProperties ==
    ASSUME NEW s, UniqueList(s), NEW key, NEW asc, NEW t \in SortsOf(s, key, asc)
    PROVE  /\ UniqueList(t)
           /\ \A n \in DOMAIN t : \E i \in DOMAIN s : t[n] = s[i]
<1>1. PICK p \in [DOMAIN s -> DOMAIN s] :
         /\ \A m, n \in DOMAIN s : p[m] = p[n] => m = n
         /\ t = [n \in DOMAIN s |-> s[p[n]]]
  BY DEF SortsOf
<1>2. s \in Seq(Preview) /\ Len(s) \in Nat /\ DOMAIN s = 1 .. Len(s)
  BY LenProperties DEF UniqueList
<1>3. \A n \in DOMAIN s : s[p[n]] \in Preview
  BY <1>1, <1>2, ElementOfSeq
<1>4. DOMAIN t = DOMAIN s /\ \A n \in DOMAIN t : p[n] \in DOMAIN s /\ t[n] = s[p[n]]
  BY <1>1
<1>5. t \in [1 .. Len(s) -> Preview]
  BY <1>1, <1>2, <1>3
<1>6. t \in Seq(Preview)
  BY <1>2, <1>5, SeqDef
<1>7. ASSUME NEW m \in DOMAIN t, NEW n \in DOMAIN t, t[m].id = t[n].id
      PROVE  m = n
  <2>1. p[m] = p[n]
    BY <1>4, <1>7 DEF UniqueList
  <2> QED
    BY <1>1, <1>4, <2>1
<1> QED
  BY <1>4, <1>6, <1>7 DEF UniqueList

\* Nth and the rank of a position are inverse to each other.
LEMMA NthCounts ==
    ASSUME NEW m \in Nat, NEW keep \in SUBSET (1 .. m)
    PROVE  /\ \A n \in 1 .. Cardinality(keep) :
                 /\ Nth(keep, n) \in keep
                 /\ Cardinality({j \in keep : j <= Nth(keep, n)}) = n
           /\ \A i \in keep : Nth(keep, Cardinality({j \in keep : j <= i})) = i
<1> DEFINE count(i) == Cardinality({j \in keep : j <= i})
<1>1. /\ \A n \in 1 .. Cardinality(keep) : \E i \in keep : count(i) = n
      /\ \A i, k \in keep : count(i) = count(k) => i = k
  BY Ranking
<1>2. \A n : Nth(keep, n) = CHOOSE i \in keep : count(i) = n
  BY DEF Nth
<1> HIDE DEF count
<1>3. \A n \in 1 .. Cardinality(keep) : Nth(keep, n) \in keep /\ count(Nth(keep, n)) = n
  BY <1>1, <1>2
<1>4. \A i \in keep : Nth(keep, count(i)) = i
  BY <1>1, <1>2
<1> QED
  BY <1>3, <1>4 DEF count

\* Pick, when the sequence gets one more element that is not chosen.
LEMMA PickSame ==
    ASSUME NEW S, NEW s \in Seq(S), NEW x \in S, NEW keep \in SUBSET (DOMAIN s)
    PROVE  Pick(Append(s, x), keep) = Pick(s, keep)
<1> DEFINE N == Len(s)
           K == Cardinality(keep)
           t == Append(s, x)
<1>1. N \in Nat /\ DOMAIN s = 1 .. N /\ keep \in SUBSET (1 .. N)
  BY LenProperties
<1>2. \A i \in 1 .. N : t[i] = s[i]
  BY AppendProperties
<1> HIDE DEF t
<1>3. \A n \in 1 .. K : Nth(keep, n) \in keep
  BY <1>1, NthCounts
<1>4. \A n \in 1 .. K : t[Nth(keep, n)] = s[Nth(keep, n)]
  BY <1>1, <1>2, <1>3
<1> QED
  BY <1>4 DEF Pick, t

\* Pick, when the sequence gets one more element that is chosen.
LEMMA PickAppend ==
    ASSUME NEW S, NEW s \in Seq(S), NEW x \in S, NEW keep \in SUBSET (DOMAIN s)
    PROVE  Pick(Append(s, x), keep \cup {Len(s) + 1}) = Append(Pick(s, keep), x)
<1> DEFINE N == Len(s)
           K == Cardinality(keep)
           t == Append(s, x)
           more == keep \cup {N + 1}
           p == Pick(s, keep)
<1>1. N \in Nat /\ DOMAIN s = 1 .. N /\ keep \in SUBSET (1 .. N)
  BY LenProperties
<1>2. /\ t \in Seq(S) /\ DOMAIN t = 1 .. N + 1
      /\ \A i \in 1 .. N : t[i] = s[i]
      /\ t[N + 1] = x
  <2>1. /\ t \in Seq(S) /\ Len(t) = N + 1
        /\ \A i \in 1 .. N : t[i] = s[i]
        /\ t[N + 1] = x
    BY AppendProperties
  <2> QED
    BY <2>1, LenProperties
<1> HIDE DEF t
<1>3. /\ p \in Seq(S) /\ DOMAIN p = 1 .. K
      /\ \A n \in 1 .. K : Nth(keep, n) \in keep /\ p[n] = s[Nth(keep, n)]
  <2>1. p \in Seq(S)
    BY PickProperties
  <2>2. /\ DOMAIN p = 1 .. K
        /\ \A n \in DOMAIN p : Nth(keep, n) \in keep /\ p[n] = s[Nth(keep, n)]
    BY PickProperties
  <2> HIDE DEF p, K
  <2> QED
    BY <2>1, <2>2
<1>4. IsFiniteSet(keep) /\ K \in Nat /\ Cardinality(more) = K + 1
  <2>1. IsFiniteSet(keep) /\ K \in Nat
    BY <1>1, Ranking
  <2>2. N + 1 \notin keep
    BY <1>1
  <2> QED
    BY <2>1, <2>2, FS_AddElement
<1>5. N + 1 \in Nat /\ more \in SUBSET (1 .. N + 1)
  BY <1>1
<1>6. ASSUME NEW n \in 1 .. K PROVE Nth(more, n) = Nth(keep, n)
  <2> DEFINE i == Nth(keep, n)
  <2>1. i \in keep /\ Cardinality({j \in keep : j <= i}) = n
    BY <1>1, NthCounts
  <2>2. {j \in more : j <= i} = {j \in keep : j <= i}
    BY <1>1, <2>1
  <2>3. i \in more /\ Cardinality({j \in more : j <= i}) = n
    BY <2>1, <2>2
  <2> HIDE DEF i, more
  <2> QED
    BY <1>5, <2>3, NthCounts DEF i
<1>7. Nth(more, K + 1) = N + 1
  <2>1. {j \in more : j <= N + 1} = more
    BY <1>1
  <2>2. N + 1 \in more /\ Cardinality({j \in more : j <= N + 1}) = K + 1
    BY <1>4, <2>1
  <2> HIDE DEF more
  <2>3. \A i \in more : Nth(more, Cardinality({j \in more : j <= i})) = i
    BY <1>5, NthCounts
  <2> HIDE DEF N, K
  <2> QED
    BY <2>2, <2>3
<1> DEFINE q == Pick(t, more)
<1>8. /\ q \in Seq(S) /\ DOMAIN q = 1 .. K + 1
      /\ \A n \in 1 .. K + 1 : q[n] = t[Nth(more, n)]
  <2>1. more \in SUBSET (DOMAIN t)
    BY <1>2, <1>5
  <2> HIDE DEF more
  <2> QED
    BY <1>2, <1>4, <2>1, PickProperties
<1>9. Len(p) = K
  BY <1>3, <1>4, LenProperties
<1>10. /\ Append(p, x) \in Seq(S) /\ Len(Append(p, x)) = K + 1
       /\ \A n \in 1 .. K : Append(p, x)[n] = p[n]
       /\ Append(p, x)[K + 1] = x
  <2> HIDE DEF p
  <2> QED
    BY <1>3, <1>9, AppendProperties
<1>11. \A n \in 1 .. K + 1 : q[n] = Append(p, x)[n]
  <2>1. \A n \in 1 .. K : q[n] = Append(p, x)[n]
    <3>1. ASSUME NEW n \in 1 .. K PROVE q[n] = Append(p, x)[n]
      <4>1. n \in 1 .. K + 1
        BY <1>4
      <4>2. q[n] = t[Nth(keep, n)]
        BY <1>6, <1>8, <4>1
      <4>3. t[Nth(keep, n)] = s[Nth(keep, n)]
        BY <1>1, <1>2, <1>3
      <4> QED
        BY <1>3, <1>10, <4>2, <4>3
    <3> QED
      BY <3>1
  <2>2. q[K + 1] = Append(p, x)[K + 1]
    <3>1. K + 1 \in 1 .. K + 1
      BY <1>4
    <3> QED
      BY <1>2, <1>7, <1>8, <1>10, <3>1
  <2> HIDE DEF q, p, K
  <2>3. \A n \in 1 .. K + 1 : n \in 1 .. K \/ n = K + 1
    BY <1>4
  <2> QED
    BY <2>1, <2>2, <2>3
<1>12. q = Append(p, x)
  <2> HIDE DEF q, p, K
  <2>1. Len(q) = K + 1
    BY <1>4, <1>8, LenProperties
  <2> QED
    BY <1>8, <1>10, <1>11, <2>1, SeqEqual
<1> QED
  BY <1>12 DEF t

\* Append, by position.
LEMMA AppendFacts ==
    ASSUME NEW S, NEW s \in Seq(S), NEW x \in S
    PROVE  /\ Len(s) \in Nat /\ DOMAIN s = 1 .. Len(s)
           /\ Append(s, x) \in Seq(S) /\ DOMAIN Append(s, x) = 1 .. Len(s) + 1
           /\ \A n \in 1 .. Len(s) : Append(s, x)[n] = s[n]
           /\ Append(s, x)[Len(s) + 1] = x
<1>1. Append(s, x) \in Seq(S) /\ Len(Append(s, x)) = Len(s) + 1
  BY AppendProperties
<1>2. Len(s) \in Nat /\ DOMAIN s = 1 .. Len(s) /\ DOMAIN Append(s, x) = 1 .. Len(s) + 1
  BY <1>1, LenProperties
<1> QED
  BY <1>1, <1>2, AppendProperties

\* Picking by a condition that only looks back, when the list gets one more element.
LEMMA PickOneMore ==
    ASSUME NEW S, NEW s \in Seq(S), NEW x \in S, NEW keep \in SUBSET (DOMAIN s),
           NEW more \in SUBSET (DOMAIN Append(s, x)),
           \A n \in DOMAIN s : n \in more <=> n \in keep
    PROVE  Pick(Append(s, x), more) =
             IF Len(s) + 1 \in more THEN Append(Pick(s, keep), x) ELSE Pick(s, keep)
<1>1. /\ Len(s) \in Nat /\ DOMAIN s = 1 .. Len(s)
      /\ DOMAIN Append(s, x) = 1 .. Len(s) + 1
  BY AppendFacts
<1>2. \A n \in more : n \in DOMAIN s \/ n = Len(s) + 1
  BY <1>1
<1>3. CASE Len(s) + 1 \in more
  <2>1. more = keep \cup {Len(s) + 1}
    BY <1>2, <1>3
  <2> QED
    BY <1>3, <2>1, PickAppend
<1>4. CASE Len(s) + 1 \notin more
  <2>1. more = keep
    BY <1>2, <1>4
  <2>2. Pick(Append(s, x), keep) = Pick(s, keep)
    BY PickSame
  <2> QED
    BY <1>4, <2>1, <2>2
<1> QED
  BY <1>3, <1>4

\* Picking no position leaves the empty list.
LEMMA PickNone ==
    ASSUME NEW s
    PROVE  Pick(s, {}) = <<>>
<1>1. Cardinality({}) = 0
  BY FS_EmptySet
<1>2. Pick(s, {}) = [n \in 1 .. 0 |-> s[Nth({}, n)]]
  BY <1>1 DEF Pick
<1> QED
  BY <1>2

\* Append moves into the second part of a concatenation.
LEMMA ConcatAppend ==
    ASSUME NEW S, NEW s \in Seq(S), NEW t \in Seq(S), NEW x \in S
    PROVE  s \o Append(t, x) = Append(s \o t, x)
<1>1. s \o t \in Seq(S) /\ <<x>> \in Seq(S)
  BY ConcatProperties
<1>2. Append(t, x) = t \o <<x>> /\ Append(s \o t, x) = (s \o t) \o <<x>>
  BY <1>1, AppendIsConcat
<1> QED
  BY <1>1, <1>2, ConcatAssociative

\* A non-empty set of positions has a first one: the one with rank 1.
LEMMA FirstPosition ==
    ASSUME NEW m \in Nat, NEW T \in SUBSET (1 .. m), T # {}
    PROVE  \E i \in T : \A j \in T : i <= j
<1> DEFINE upTo(i) == {j \in T : j <= i}
           count(i) == Cardinality(upTo(i))
<1>1. /\ IsFiniteSet(T) /\ Cardinality(T) \in Nat
      /\ \A n \in 1 .. Cardinality(T) : \E i \in T : count(i) = n
      /\ \A i \in T : count(i) \in 1 .. Cardinality(T)
      /\ \A i, k \in T : count(i) = count(k) => i = k
  BY Ranking
<1>2. 1 \in 1 .. Cardinality(T)
  <2>1. PICK i : i \in T
    OBVIOUS
  <2>2. count(i) \in 1 .. Cardinality(T)
    BY <1>1, <2>1
  <2> QED
    BY <1>1, <2>2
<1>3. PICK i \in T : count(i) = 1
  BY <1>1, <1>2
<1>4. ASSUME NEW j \in T, j < i PROVE FALSE
  <2>0. T \subseteq Int /\ i \in Int /\ j \in Int
    OBVIOUS
  <2>1. upTo(j) \subseteq upTo(i) /\ upTo(i) \subseteq T
    <3>1. \A k \in T : k <= j => k <= i
      BY <1>4, <2>0
    <3> QED
      BY <3>1
  <2>2. IsFiniteSet(upTo(i))
    BY <1>1, <2>1, FS_Subset
  <2>3. count(j) <= count(i)
    BY <2>1, <2>2, FS_Subset
  <2>4. count(j) \in 1 .. Cardinality(T)
    BY <1>1
  <2> HIDE DEF count
  <2>5. count(j) = 1
    BY <1>1, <1>3, <2>3, <2>4
  <2>6. i = j
    BY <1>1, <1>3, <2>5
  <2> QED
    BY <1>4, <2>6
<1>5. \A j \in T : i <= j
  BY <1>4
<1> QED
  BY <1>5

\* Pick leaves out no chosen position.
LEMMA PickComplete ==
    ASSUME NEW S, NEW s \in Seq(S), NEW keep \in SUBSET (DOMAIN s), NEW i \in keep
    PROVE  \E n \in DOMAIN Pick(s, keep) : Pick(s, keep)[n] = s[i]
<1> DEFINE r == Cardinality({j \in keep : j <= i})
<1>1. Len(s) \in Nat /\ keep \in SUBSET (1 .. Len(s))
  BY LenProperties
<1>2. r \in 1 .. Cardinality(keep) /\ Nth(keep, r) = i
  BY <1>1, Ranking, NthCounts
<1> QED
  BY <1>2 DEF Pick

\* combineArrays loses nothing and invents nothing: the capsules of the result
\* are those of the two lists.
LEMMA CombineArraysComplete ==
    ASSUME NEW left \in Seq(Preview), NEW right \in Seq(Preview)
    PROVE  /\ CombineArrays(left, right) \in Seq(Preview)
           /\ IdsOf(CombineArrays(left, right)) = IdsOf(left) \cup IdsOf(right)
<1> DEFINE keep == {n \in DOMAIN right :
                       /\ right[n].id \notin IdsOf(left)
                       /\ \A m \in 1 .. n - 1 : right[m].id # right[n].id}
           new == Pick(right, keep)
           all == left \o new
<1>1. CombineArrays(left, right) = all
  BY DEF CombineArrays
<1>2. keep \in SUBSET (DOMAIN right)
  OBVIOUS
<1>3. new \in Seq(Preview)
  BY <1>2, PickProperties
<1>4. /\ DOMAIN right = 1 .. Len(right) /\ Len(right) \in Nat
      /\ DOMAIN left = 1 .. Len(left) /\ Len(left) \in Nat
      /\ DOMAIN new = 1 .. Len(new) /\ Len(new) \in Nat
  BY <1>3, LenProperties
<1>5. /\ all \in Seq(Preview)
      /\ Len(all) = Len(left) + Len(new)
      /\ \A n \in 1 .. Len(left) + Len(new) :
            all[n] = IF n <= Len(left) THEN left[n] ELSE new[n - Len(left)]
  BY <1>3, ConcatProperties
<1>6. DOMAIN all = 1 .. Len(left) + Len(new)
  BY <1>5, LenProperties
<1>7. ASSUME NEW n \in DOMAIN left PROVE left[n].id \in IdsOf(all)
  <2>1. n \in DOMAIN all /\ all[n] = left[n]
    BY <1>4, <1>5, <1>6
  <2> QED
    BY <2>1 DEF IdsOf
<1>8. ASSUME NEW n \in DOMAIN new PROVE new[n].id \in IdsOf(all)
  <2> HIDE DEF new
  <2>1. Len(left) + n \in DOMAIN all /\ all[Len(left) + n] = new[n]
    BY <1>4, <1>5, <1>6
  <2> QED
    BY <2>1 DEF IdsOf
<1>9. ASSUME NEW n \in DOMAIN right, right[n].id \notin IdsOf(left)
      PROVE  right[n].id \in IdsOf(all)
  <2> DEFINE T == {m \in DOMAIN right : right[m].id = right[n].id}
  <2>1. T \in SUBSET (1 .. Len(right)) /\ n \in T
    BY <1>4
  <2>2. PICK i \in T : \A j \in T : i <= j
    BY <1>4, <2>1, FirstPosition
  <2>3. i \in keep
    <3>1. i \in 1 .. Len(right) /\ right[i].id = right[n].id
      BY <1>4
    <3>2. ASSUME NEW m \in 1 .. i - 1, right[m].id = right[i].id PROVE FALSE
      <4>1. m \in T
        BY <1>4, <3>1, <3>2
      <4> QED
        BY <1>4, <2>2, <3>1, <4>1
    <3> QED
      BY <1>4, <1>9, <3>1, <3>2
  <2>4. PICK k \in DOMAIN new : new[k] = right[i]
    BY <1>2, <2>3, PickComplete
  <2> QED
    BY <1>8, <2>4
<1>10. IdsOf(left) \subseteq IdsOf(all) /\ IdsOf(right) \subseteq IdsOf(all)
  <2>1. IdsOf(left) \subseteq IdsOf(all)
    BY <1>7 DEF IdsOf
  <2>2. \A n \in DOMAIN right : right[n].id \in IdsOf(all)
    BY <1>9, <2>1
  <2> HIDE DEF all
  <2> QED
    BY <2>1, <2>2 DEF IdsOf
<1>11. ASSUME NEW n \in DOMAIN all PROVE all[n].id \in IdsOf(left) \cup IdsOf(right)
  <2>1. CASE n <= Len(left)
    <3>1. n \in DOMAIN left /\ all[n] = left[n]
      BY <1>4, <1>5, <1>6, <2>1
    <3> QED
      BY <3>1 DEF IdsOf
  <2>2. CASE ~(n <= Len(left))
    <3>1. \A k \in DOMAIN new : Nth(keep, k) \in keep /\ new[k] = right[Nth(keep, k)]
      BY <1>2, PickProperties
    <3>2. \A k \in DOMAIN new : \E i \in DOMAIN right : new[k] = right[i]
      BY <1>2, <3>1
    <3> HIDE DEF new
    <3>3. n - Len(left) \in DOMAIN new /\ all[n] = new[n - Len(left)]
      BY <1>4, <1>5, <1>6, <2>2
    <3> HIDE DEF all
    <3>4. PICK i \in DOMAIN right : all[n] = right[i]
      BY <3>2, <3>3
    <3> QED
      BY <3>4 DEF IdsOf
  <2> QED
    BY <2>1, <2>2
<1>12. IdsOf(all) \subseteq IdsOf(left) \cup IdsOf(right)
  <2> HIDE DEF all
  <2> QED
    BY <1>11 DEF IdsOf
<1> HIDE DEF all
<1> QED
  BY <1>1, <1>5, <1>10, <1>12

\* A reply that holds nothing new changes nothing.
LEMMA CombineAddsNothing ==
    ASSUME NEW left \in Seq(Preview), NEW right \in Seq(Preview),
           IdsOf(right) \subseteq IdsOf(left)
    PROVE  CombineArrays(left, right) = left
<1> DEFINE keep == {n \in DOMAIN right :
                       /\ right[n].id \notin IdsOf(left)
                       /\ \A m \in 1 .. n - 1 : right[m].id # right[n].id}
<1>1. CombineArrays(left, right) = left \o Pick(right, keep)
  BY DEF CombineArrays
<1>2. keep = {}
  BY DEF IdsOf
<1>3. Pick(right, keep) = <<>>
  BY <1>2, PickNone
<1> QED
  BY <1>1, <1>3, ConcatEmptySeq

\* combineArrays, when the reply gets one more element.
LEMMA CombineOneMore ==
    ASSUME NEW left \in Seq(Preview), NEW right \in Seq(Preview), NEW x \in Preview
    PROVE  CombineArrays(left, Append(right, x)) =
             IF x.id \in IdsOf(CombineArrays(left, right)) THEN CombineArrays(left, right)
             ELSE Append(CombineArrays(left, right), x)
<1> DEFINE N == Len(right)
           t == Append(right, x)
           keepOf(r) == {n \in DOMAIN r :
                           /\ r[n].id \notin IdsOf(left)
                           /\ \A m \in 1 .. n - 1 : r[m].id # r[n].id}
           p == Pick(right, keepOf(right))
<1>1. /\ N \in Nat /\ DOMAIN right = 1 .. N /\ DOMAIN t = 1 .. N + 1
      /\ \A n \in 1 .. N : t[n] = right[n]
      /\ t[N + 1] = x
  BY AppendFacts
<1>2. /\ CombineArrays(left, right) = left \o p
      /\ CombineArrays(left, t) = left \o Pick(t, keepOf(t))
  BY DEF CombineArrays
<1>3. \A n \in DOMAIN right : n \in keepOf(t) <=> n \in keepOf(right)
  <2> SUFFICES ASSUME NEW n \in DOMAIN right
               PROVE  n \in keepOf(t) <=> n \in keepOf(right)
    OBVIOUS
  <2>1. n \in DOMAIN t /\ t[n] = right[n] /\ \A m \in 1 .. n - 1 : t[m] = right[m]
    BY <1>1
  <2> QED
    BY <2>1
<1>4. Pick(t, keepOf(t)) = IF N + 1 \in keepOf(t) THEN Append(p, x) ELSE p
  <2>1. keepOf(right) \in SUBSET (DOMAIN right) /\ keepOf(t) \in SUBSET (DOMAIN t)
    OBVIOUS
  <2> HIDE DEF keepOf
  <2> QED
    BY <1>3, <2>1, PickOneMore
<1>5. N + 1 \in keepOf(t) <=> x.id \notin IdsOf(left) \cup IdsOf(right)
  <2>1. N + 1 \in keepOf(t) <=> x.id \notin IdsOf(left) /\ \A m \in 1 .. N : right[m].id # x.id
    BY <1>1
  <2>2. x.id \in IdsOf(right) <=> \E m \in 1 .. N : right[m].id = x.id
    BY <1>1 DEF IdsOf
  <2> QED
    BY <2>1, <2>2
<1>6. p \in Seq(Preview)
  BY PickProperties
<1>7. left \o Append(p, x) = Append(left \o p, x)
  <2> HIDE DEF p
  <2> QED
    BY <1>6, ConcatAppend
<1> HIDE DEF p, t, keepOf
<1>8. IdsOf(CombineArrays(left, right)) = IdsOf(left) \cup IdsOf(right)
  BY CombineArraysComplete
<1> QED
  BY <1>2, <1>4, <1>5, <1>7, <1>8 DEF t

\* removingDuplicates, when the list gets one more element.
LEMMA RemovingOneMore ==
    ASSUME NEW s \in Seq(Preview), NEW x \in Preview
    PROVE  RemovingDuplicates(Append(s, x)) =
             IF x \in {s[n] : n \in DOMAIN s} THEN RemovingDuplicates(s)
             ELSE Append(RemovingDuplicates(s), x)
<1> DEFINE N == Len(s)
           t == Append(s, x)
           keepOf(r) == {n \in DOMAIN r : \A m \in 1 .. n - 1 : r[m] # r[n]}
<1>1. /\ N \in Nat /\ DOMAIN s = 1 .. N /\ DOMAIN t = 1 .. N + 1
      /\ \A n \in 1 .. N : t[n] = s[n]
      /\ t[N + 1] = x
  BY AppendFacts
<1>2. \A n \in DOMAIN s : n \in keepOf(t) <=> n \in keepOf(s)
  <2> SUFFICES ASSUME NEW n \in DOMAIN s PROVE n \in keepOf(t) <=> n \in keepOf(s)
    OBVIOUS
  <2>1. n \in DOMAIN t /\ t[n] = s[n] /\ \A m \in 1 .. n - 1 : t[m] = s[m]
    BY <1>1
  <2> QED
    BY <2>1
<1>3. N + 1 \in keepOf(t) <=> x \notin {s[n] : n \in DOMAIN s}
  BY <1>1
<1>4. keepOf(s) \in SUBSET (DOMAIN s) /\ keepOf(t) \in SUBSET (DOMAIN t)
  OBVIOUS
<1>5. \A r : RemovingDuplicates(r) = Pick(r, keepOf(r))
  BY DEF RemovingDuplicates
<1> HIDE DEF keepOf
<1>6. Pick(t, keepOf(t)) =
        IF N + 1 \in keepOf(t) THEN Append(Pick(s, keepOf(s)), x) ELSE Pick(s, keepOf(s))
  BY <1>2, <1>4, PickOneMore
<1> QED
  BY <1>3, <1>5, <1>6

\* filterTag, when the list gets one more element.
LEMMA FilterTagOneMore ==
    ASSUME NEW s \in Seq(Preview), NEW x \in Preview, NEW tag
    PROVE  FilterTag(tag, Append(s, x)) =
             IF tag \in {NoTag, TagOf[x.id]} THEN Append(FilterTag(tag, s), x)
             ELSE FilterTag(tag, s)
<1> DEFINE N == Len(s)
           t == Append(s, x)
           byTag(r) == {n \in DOMAIN r : tag \in {NoTag, TagOf[r[n].id]}}
<1>1. /\ N \in Nat /\ DOMAIN s = 1 .. N /\ DOMAIN t = 1 .. N + 1
      /\ \A n \in 1 .. N : t[n] = s[n]
      /\ t[N + 1] = x
  BY AppendFacts
<1>2. /\ \A n \in DOMAIN s : n \in byTag(t) <=> n \in byTag(s)
      /\ N + 1 \in byTag(t) <=> tag \in {NoTag, TagOf[x.id]}
  BY <1>1
<1>3. byTag(s) \in SUBSET (DOMAIN s) /\ byTag(t) \in SUBSET (DOMAIN t)
  OBVIOUS
<1>4. \A r : FilterTag(tag, r) = Pick(r, byTag(r))
  BY DEF FilterTag
<1> HIDE DEF byTag
<1>5. Pick(t, byTag(t)) =
        IF N + 1 \in byTag(t) THEN Append(Pick(s, byTag(s)), x) ELSE Pick(s, byTag(s))
  BY <1>2, <1>3, PickOneMore
<1> QED
  BY <1>2, <1>4, <1>5

\* filterState, when the list gets one more element.
LEMMA FilterStateOneMore ==
    ASSUME NEW s \in Seq(Preview), NEW x \in Preview, NEW state
    PROVE  FilterState(state, Append(s, x)) =
             IF state = "all" \/ x.isOpened = (state = "opened") THEN Append(FilterState(state, s), x)
             ELSE FilterState(state, s)
<1> DEFINE N == Len(s)
           t == Append(s, x)
           byState(r) == {n \in DOMAIN r : state = "all" \/ r[n].isOpened = (state = "opened")}
<1>1. /\ N \in Nat /\ DOMAIN s = 1 .. N /\ DOMAIN t = 1 .. N + 1
      /\ \A n \in 1 .. N : t[n] = s[n]
      /\ t[N + 1] = x
  BY AppendFacts
<1>2. /\ \A n \in DOMAIN s : n \in byState(t) <=> n \in byState(s)
      /\ N + 1 \in byState(t) <=> (state = "all" \/ x.isOpened = (state = "opened"))
  BY <1>1
<1>3. byState(s) \in SUBSET (DOMAIN s) /\ byState(t) \in SUBSET (DOMAIN t)
  OBVIOUS
<1>4. \A r : FilterState(state, r) = Pick(r, byState(r))
  BY DEF FilterState
<1> HIDE DEF byState
<1>5. Pick(t, byState(t)) =
        IF N + 1 \in byState(t) THEN Append(Pick(s, byState(s)), x) ELSE Pick(s, byState(s))
  BY <1>2, <1>3, PickOneMore
<1> QED
  BY <1>2, <1>4, <1>5

\* What the operators make of an empty list.
LEMMA OperatorsOnEmpty ==
    ASSUME NEW left \in Seq(Preview), NEW tag, NEW state
    PROVE  /\ CombineArrays(left, <<>>) = left
           /\ RemovingDuplicates(<<>>) = <<>>
           /\ FilterTag(tag, <<>>) = <<>>
           /\ FilterState(state, <<>>) = <<>>
<1>1. \A s \in {<<>>} : s \in Seq(Preview) /\ DOMAIN s = {}
  OBVIOUS
<1>2. CombineArrays(left, <<>>) = left
  BY <1>1, CombineAddsNothing DEF IdsOf
<1>3. Pick(<<>>, {}) = <<>>
  BY PickNone
<1>4. RemovingDuplicates(<<>>) = Pick(<<>>, {})
  BY <1>1 DEF RemovingDuplicates
<1>5. FilterTag(tag, <<>>) = Pick(<<>>, {})
  BY <1>1 DEF FilterTag
<1>6. FilterState(state, <<>>) = Pick(<<>>, {})
  BY <1>1 DEF FilterState
<1> QED
  BY <1>2, <1>3, <1>4, <1>5, <1>6

\* Without a selected button the filters keep everything.
LEMMA FiltersKeepAll ==
    ASSUME NEW s \in Seq(Preview)
    PROVE  FilterTag(NoTag, s) = s /\ FilterState("all", s) = s
<1>1. FilterTag(NoTag, s) = Pick(s, DOMAIN s)
  <2>1. {n \in DOMAIN s : NoTag \in {NoTag, TagOf[s[n].id]}} = DOMAIN s
    OBVIOUS
  <2> QED
    BY <2>1 DEF FilterTag
<1>2. FilterState("all", s) = Pick(s, DOMAIN s)
  <2>1. {n \in DOMAIN s : "all" = "all" \/ s[n].isOpened = ("all" = "opened")} = DOMAIN s
    OBVIOUS
  <2> QED
    BY <2>1 DEF FilterState
<1> QED
  BY <1>1, <1>2, PickAll

\* One more element of a list is done.
LEMMA PrefixOneMore ==
    ASSUME NEW s \in Seq(Preview), NEW n \in 0 .. Len(s), n < Len(s)
    PROVE  /\ SubSeq(s, 1, n) \in Seq(Preview)
           /\ s[n + 1] \in Preview
           /\ SubSeq(s, 1, n + 1) = Append(SubSeq(s, 1, n), s[n + 1])
<1>1. Len(s) \in Nat /\ \A i \in 1 .. Len(s) : s[i] \in Preview
  BY LenProperties, ElementOfSeq
<1>2. SubSeq(s, 1, n) \in Seq(Preview)
  <2>1. \A i \in 1 .. n : s[i] \in Preview
    BY <1>1
  <2> QED
    BY <1>1, <2>1, SubSeqProperties
<1>3. n + 1 \in 1 .. Len(s) /\ 1 \in 1 .. Len(s) /\ (n + 1) - 1 = n
  BY <1>1
<1>4. SubSeq(s, 1, n + 1) = SubSeq(s, 1, n) \o <<s[n + 1]>>
  <2> DEFINE k == n + 1
  <2>1. k \in 1 .. Len(s) /\ k - 1 = n
    BY <1>3
  <2> HIDE DEF k
  <2>2. SubSeq(s, 1, k) = SubSeq(s, 1, k - 1) \o <<s[k]>>
    BY <1>3, <2>1, SubSeqRecursiveSecond
  <2> QED
    BY <2>1, <2>2 DEF k
<1> QED
  BY <1>1, <1>2, <1>3, <1>4, AppendIsConcat

\* The part of a list that is done holds no other capsules.
LEMMA PrefixIds ==
    ASSUME NEW s \in Seq(Preview), NEW n \in 0 .. Len(s)
    PROVE  SubSeq(s, 1, n) \in Seq(Preview) /\ IdsOf(SubSeq(s, 1, n)) \subseteq IdsOf(s)
<1> DEFINE p == SubSeq(s, 1, n)
<1>1. Len(s) \in Nat /\ DOMAIN s = 1 .. Len(s) /\ \A i \in 1 .. n : s[i] \in Preview
  BY LenProperties, ElementOfSeq
<1>2. p \in Seq(Preview) /\ Len(p) = n /\ \A i \in 1 .. n : p[i] = s[i]
  <2>1. /\ p \in Seq(Preview)
        /\ Len(p) = IF 1 <= n THEN n - 1 + 1 ELSE 0
        /\ \A i \in 1 .. n - 1 + 1 : p[i] = s[1 + i - 1]
    BY <1>1, SubSeqProperties
  <2> HIDE DEF p
  <2> QED
    BY <1>1, <2>1
<1> HIDE DEF p
<1>3. DOMAIN p = 1 .. n
  BY <1>2, LenProperties
<1>4. \A i \in DOMAIN p : i \in DOMAIN s /\ p[i] = s[i]
  BY <1>1, <1>2, <1>3
<1>5. IdsOf(p) \subseteq IdsOf(s)
  BY <1>4 DEF IdsOf
<1> QED
  BY <1>2, <1>5 DEF p

---------------------------------------------------------------------------
(* The loops.  The state keeps how far a loop has come, so an invariant    *)
(* says what it has built of the elements it is done with.                 *)

LoopDone == SubSeq(rightArray, 1, pos)

LoopTypeOK ==
    /\ call \in {Combine, Unique} \cup TagCalls \cup StateCalls
    /\ leftArray \in Seq(Preview) /\ rightArray \in Seq(Preview) /\ result \in Seq(Preview)
    /\ pos \in 0 .. Len(rightArray) /\ inner \in 0 .. Len(result)
    /\ has \in BOOLEAN /\ round \in {1, 2}

\* What each call has built of LoopDone.
LoopResult ==
    /\ call = Combine => result = CombineArrays(leftArray, LoopDone)
    /\ call = Unique => result = RemovingDuplicates(LoopDone)
    /\ call \in TagCalls => result = FilterTag(call.by, LoopDone)
    /\ call \in StateCalls => result = FilterState(call.by, LoopDone)

\* has tells whether the inner loop has met the id of Element in result.
LoopHas ==
    IF call = Combine /\ pos < Len(rightArray)
    THEN has <=> \E k \in 1 .. inner : result[k].id = Element.id
    ELSE inner = 0 /\ ~has

\* seen is what removingDuplicates has gone through.
LoopSeen == call = Unique => seen = {LoopDone[n] : n \in DOMAIN LoopDone}

\* The second call starts with a list that has every id of the reply.
LoopRound == round = 2 => call = Combine /\ IdsOf(rightArray) \subseteq IdsOf(leftArray)

LoopInv == LoopTypeOK /\ LoopResult /\ LoopHas /\ LoopSeen /\ LoopRound

\* The calls are told apart.
LEMMA CallsDiffer ==
    /\ Combine # Unique
    /\ Combine \notin TagCalls \cup StateCalls /\ Unique \notin TagCalls \cup StateCalls
    /\ \A c \in TagCalls : c \notin StateCalls
<1>1. \A c \in TagCalls : c.name = "filterTag"
  BY DEF TagCalls
<1>2. \A c \in StateCalls : c.name = "filterState"
  BY DEF StateCalls
<1>3. Combine.name = "combineArrays" /\ Unique.name = "removingDuplicates"
  BY DEF Combine, Unique
<1> QED
  BY <1>1, <1>2, <1>3

\* Every call starts with nothing done.
LEMMA LoopInitInv == LoopInit => LoopInv
<1> SUFFICES ASSUME LoopInit PROVE LoopInv
  OBVIOUS
<1>1. /\ leftArray \in Seq(Preview) /\ rightArray \in Seq(Preview)
      /\ call # Combine => leftArray = <<>>
  <2>1. rightArray \in Seq(Preview)
    BY InputAssumption DEF LoopInit
  <2>2. CASE call = Combine
    <3>1. leftArray \in LeftInputs
      BY <2>2 DEF LoopInit
    <3> QED
      BY <2>1, <2>2, <3>1, InputAssumption
  <2>3. CASE call # Combine
    <3>1. leftArray = <<>>
      BY <2>3 DEF LoopInit
    <3> QED
      BY <2>1, <3>1, EmptySeq
  <2> QED
    BY <2>2, <2>3
<1>2. LoopDone = <<>>
  BY SubSeqEmpty DEF LoopDone, LoopInit
<1>3. Len(rightArray) \in Nat /\ Len(leftArray) \in Nat
  BY <1>1, LenProperties
<1>4. LoopTypeOK
  <2>1. has \in BOOLEAN /\ call \in {Combine, Unique} \cup TagCalls \cup StateCalls
    BY DEF LoopInit
  <2>2. result = leftArray /\ pos = 0 /\ inner = 0 /\ round = 1
    BY DEF LoopInit
  <2> QED
    BY <1>1, <1>3, <2>1, <2>2 DEF LoopTypeOK
<1>5. LoopResult
  <2>1. result = leftArray
    BY DEF LoopInit
  <2>2. call \in TagCalls \cup StateCalls \cup {Unique} => call # Combine
    BY CallsDiffer
  <2> QED
    BY <1>1, <1>2, <2>1, <2>2, OperatorsOnEmpty DEF LoopResult
<1>6. LoopHas
  <2>1. inner = 0 /\ ~has
    BY DEF LoopInit
  <2>2. \A k : k \notin 1 .. inner
    BY <2>1
  <2> QED
    BY <2>1, <2>2 DEF LoopHas
<1>7. LoopSeen
  <2>1. DOMAIN LoopDone = {}
    BY <1>2
  <2> QED
    BY <2>1 DEF LoopSeen, LoopInit
<1>8. LoopRound
  BY DEF LoopRound, LoopInit
<1> QED
  BY <1>4, <1>5, <1>6, <1>7, <1>8 DEF LoopInv

\* One comparison of the inner loop.
LEMMA CompareIdsInv == LoopInv /\ CompareIds => LoopInv'
<1> SUFFICES ASSUME LoopInv, CompareIds PROVE LoopInv'
  OBVIOUS
<1> USE DEF LoopInv
<1>1. /\ Len(result) \in Nat /\ inner \in Nat /\ inner < Len(result)
      /\ inner' = inner + 1
      /\ UNCHANGED <<call, leftArray, rightArray, result, pos, seen, round>>
  BY LenProperties DEF CompareIds, LoopTypeOK
<1>2. LoopTypeOK'
  <2>1. has' \in BOOLEAN
    BY DEF CompareIds
  <2> QED
    BY <1>1, <2>1 DEF LoopTypeOK
<1>3. LoopHas'
  <2>1. has <=> \E k \in 1 .. inner : result[k].id = Element.id
    BY DEF LoopHas, CompareIds
  <2>2. \A k : k \in 1 .. inner + 1 <=> (k \in 1 .. inner \/ k = inner + 1)
    BY <1>1
  <2>3. has' <=> \E k \in 1 .. inner + 1 : result[k].id = Element.id
    <3>1. has' <=> has \/ result[inner + 1].id = Element.id
      BY DEF CompareIds
    <3> QED
      BY <2>1, <2>2, <3>1
  <2>4. call = Combine /\ pos < Len(rightArray)
    BY DEF CompareIds
  <2> QED
    BY <1>1, <2>3, <2>4 DEF LoopHas, Element
<1>4. LoopResult' /\ LoopSeen' /\ LoopRound'
  BY <1>1 DEF LoopResult, LoopSeen, LoopRound, LoopDone
<1> QED
  BY <1>2, <1>3, <1>4

\* The list that is done, after a step of an outer loop.
LEMMA LoopAdvance ==
    ASSUME LoopTypeOK, pos < Len(rightArray), pos' = pos + 1, rightArray' = rightArray
    PROVE  /\ LoopDone \in Seq(Preview) /\ Element \in Preview
           /\ LoopDone' = Append(LoopDone, Element)
           /\ pos' \in 0 .. Len(rightArray)
<1>1. LoopDone' = SubSeq(rightArray, 1, pos + 1)
  BY DEF LoopDone
<1>2. Len(rightArray) \in Nat
  BY LenProperties DEF LoopTypeOK
<1> QED
  BY <1>1, <1>2, PrefixOneMore DEF LoopTypeOK, LoopDone, Element

\* A step that adds at most one element, outside the inner loop.
LEMMA ResultGrows ==
    ASSUME LoopTypeOK, Element \in Preview, inner' = 0,
           result' = result \/ result' = Append(result, Element)
    PROVE  result' \in Seq(Preview) /\ inner' \in 0 .. Len(result')
<1>1. result' \in Seq(Preview)
  <2>1. result \in Seq(Preview)
    BY DEF LoopTypeOK
  <2>2. Append(result, Element) \in Seq(Preview)
    BY <2>1, AppendProperties
  <2> QED
    BY <2>1, <2>2
<1>2. Len(result') \in Nat
  BY <1>1, LenProperties
<1> QED
  BY <1>1, <1>2

\* The end of the inner loop: has tells whether the id is in result.
LEMMA AppendUnlessHasInv == LoopInv /\ AppendUnlessHas => LoopInv'
<1> SUFFICES ASSUME LoopInv, AppendUnlessHas PROVE LoopInv'
  OBVIOUS
<1> USE DEF LoopInv
<1>1. /\ call = Combine /\ pos < Len(rightArray) /\ inner = Len(result)
      /\ pos' = pos + 1 /\ inner' = 0 /\ has' = FALSE
      /\ UNCHANGED <<call, leftArray, rightArray, seen, round>>
      /\ result' = IF has THEN result ELSE Append(result, Element)
  BY DEF AppendUnlessHas
<1>2. /\ LoopDone \in Seq(Preview) /\ Element \in Preview
      /\ LoopDone' = Append(LoopDone, Element)
      /\ pos' \in 0 .. Len(rightArray)
  BY <1>1, LoopAdvance
<1>3. result' \in Seq(Preview) /\ inner' \in 0 .. Len(result')
  BY <1>1, <1>2, ResultGrows
<1>4. LoopTypeOK'
  <2>1. has' \in BOOLEAN
    BY <1>1
  <2> QED
    BY <1>1, <1>2, <1>3, <2>1 DEF LoopTypeOK
<1>5. has <=> Element.id \in IdsOf(result)
  <2>1. DOMAIN result = 1 .. inner
    BY <1>1, LenProperties DEF LoopTypeOK
  <2> QED
    BY <1>1, <2>1 DEF LoopHas, IdsOf
<1>6. result' = CombineArrays(leftArray, Append(LoopDone, Element))
  <2>1. result = CombineArrays(leftArray, LoopDone)
    BY <1>1 DEF LoopResult
  <2> QED
    BY <1>1, <1>2, <1>5, <2>1, CombineOneMore DEF LoopTypeOK
<1>7. LoopResult'
  BY <1>1, <1>2, <1>6, CallsDiffer DEF LoopResult
<1>8. LoopHas'
  <2>1. inner' = 0 /\ ~has'
    BY <1>1
  <2>2. \A k : k \notin 1 .. inner'
    BY <2>1
  <2> QED
    BY <2>1, <2>2 DEF LoopHas
<1>9. LoopSeen' /\ LoopRound'
  BY <1>1, CallsDiffer DEF LoopSeen, LoopRound
<1> QED
  BY <1>4, <1>7, <1>8, <1>9

\* The second call with the same reply starts: the first has put every id of
\* the reply into the list.
LEMMA CombineAgainInv == LoopInv /\ CombineAgain => LoopInv'
<1> SUFFICES ASSUME LoopInv, CombineAgain PROVE LoopInv'
  OBVIOUS
<1> USE DEF LoopInv
<1>1. /\ call = Combine /\ pos = Len(rightArray)
      /\ leftArray' = result /\ pos' = 0 /\ round' = 2
      /\ UNCHANGED <<call, rightArray, result, inner, has, seen>>
  BY DEF CombineAgain
<1>2. leftArray \in Seq(Preview) /\ rightArray \in Seq(Preview) /\ Len(rightArray) \in Nat
  BY LenProperties DEF LoopTypeOK
<1>3. result = CombineArrays(leftArray, rightArray)
  <2>1. LoopDone = rightArray
    BY <1>1, <1>2, SubSeqFull DEF LoopDone
  <2> QED
    BY <1>1, <2>1 DEF LoopResult
<1>4. LoopTypeOK'
  BY <1>1, <1>2 DEF LoopTypeOK
<1>5. LoopDone' = <<>>
  <2>1. LoopDone' = SubSeq(rightArray, 1, 0)
    BY <1>1 DEF LoopDone
  <2> QED
    BY <2>1, SubSeqEmpty
<1>6. LoopResult'
  <2>1. result' = CombineArrays(leftArray', <<>>)
    BY <1>1, OperatorsOnEmpty DEF LoopTypeOK
  <2> QED
    BY <1>1, <1>5, <2>1, CallsDiffer DEF LoopResult
<1>7. LoopHas'
  <2>1. inner = 0 /\ ~has
    BY <1>1, <1>2 DEF LoopHas
  <2>2. inner' = 0 /\ ~has'
    BY <1>1, <2>1
  <2>3. \A k : k \notin 1 .. inner'
    BY <2>2
  <2> QED
    BY <2>2, <2>3 DEF LoopHas
<1>8. LoopSeen'
  BY <1>1, CallsDiffer DEF LoopSeen
<1>9. LoopRound'
  <2>1. IdsOf(rightArray) \subseteq IdsOf(result)
    BY <1>2, <1>3, CombineArraysComplete
  <2> QED
    BY <1>1, <2>1 DEF LoopRound
<1> QED
  BY <1>4, <1>6, <1>7, <1>8, <1>9

\* One element of removingDuplicates.
LEMMA InsertSeenInv == LoopInv /\ InsertSeen => LoopInv'
<1> SUFFICES ASSUME LoopInv, InsertSeen PROVE LoopInv'
  OBVIOUS
<1> USE DEF LoopInv
<1>1. /\ call = Unique /\ pos < Len(rightArray)
      /\ result' = IF Element \in seen THEN result ELSE Append(result, Element)
      /\ seen' = seen \cup {Element}
      /\ pos' = pos + 1
      /\ UNCHANGED <<call, leftArray, rightArray, inner, has, round>>
  BY DEF InsertSeen
<1>2. /\ LoopDone \in Seq(Preview) /\ Element \in Preview
      /\ LoopDone' = Append(LoopDone, Element)
      /\ pos' \in 0 .. Len(rightArray)
  BY <1>1, LoopAdvance
<1>3. seen = {LoopDone[n] : n \in DOMAIN LoopDone}
  BY <1>1 DEF LoopSeen
<1>4. inner = 0 /\ ~has
  BY <1>1, CallsDiffer DEF LoopHas
<1>5. LoopTypeOK'
  <2>1. result' \in Seq(Preview) /\ inner' \in 0 .. Len(result')
    BY <1>1, <1>2, <1>4, ResultGrows
  <2> QED
    BY <1>1, <1>2, <2>1 DEF LoopTypeOK
<1>6. LoopResult'
  <2>1. result' = RemovingDuplicates(Append(LoopDone, Element))
    BY <1>1, <1>2, <1>3, RemovingOneMore DEF LoopResult
  <2> QED
    BY <1>1, <1>2, <2>1, CallsDiffer DEF LoopResult
<1>7. LoopSeen'
  <2> DEFINE t == Append(LoopDone, Element)
             N == Len(LoopDone)
  <2>1. /\ N \in Nat /\ DOMAIN LoopDone = 1 .. N /\ DOMAIN t = 1 .. N + 1
        /\ \A n \in 1 .. N : t[n] = LoopDone[n]
        /\ t[N + 1] = Element
    BY <1>2, AppendFacts
  <2> HIDE DEF t, N
  <2>2. {t[n] : n \in DOMAIN t} = {LoopDone[n] : n \in DOMAIN LoopDone} \cup {Element}
    <3>1. \A n : n \in 1 .. N + 1 <=> (n \in 1 .. N \/ n = N + 1)
      BY <2>1
    <3> QED
      BY <2>1, <3>1
  <2>3. seen' = {t[n] : n \in DOMAIN t}
    BY <1>1, <1>3, <2>2
  <2> QED
    BY <1>2, <2>3 DEF LoopSeen, t
<1>8. LoopHas' /\ LoopRound'
  BY <1>1, <1>4, CallsDiffer DEF LoopHas, LoopRound
<1> QED
  BY <1>5, <1>6, <1>7, <1>8

\* One element of removeAll: it keeps what the operators keep.
LEMMA RemoveAllInv == LoopInv /\ RemoveAll => LoopInv'
<1> SUFFICES ASSUME LoopInv, RemoveAll PROVE LoopInv'
  OBVIOUS
<1> USE DEF LoopInv
<1>1. /\ call \in (TagCalls \cup StateCalls) \ Unconditional /\ pos < Len(rightArray)
      /\ result' = IF Removed(Element) THEN result ELSE Append(result, Element)
      /\ pos' = pos + 1
      /\ UNCHANGED <<call, leftArray, rightArray, inner, has, seen, round>>
  BY DEF RemoveAll
<1>2. /\ LoopDone \in Seq(Preview) /\ Element \in Preview
      /\ LoopDone' = Append(LoopDone, Element)
      /\ pos' \in 0 .. Len(rightArray)
  BY <1>1, LoopAdvance
<1>3. call # Combine /\ call # Unique
  BY <1>1, CallsDiffer
<1>4. inner = 0 /\ ~has
  BY <1>3 DEF LoopHas
<1>5. LoopTypeOK'
  <2>1. result' \in Seq(Preview) /\ inner' \in 0 .. Len(result')
    BY <1>1, <1>2, <1>4, ResultGrows
  <2> QED
    BY <1>1, <1>2, <2>1 DEF LoopTypeOK
<1>6. LoopHas' /\ LoopSeen' /\ LoopRound'
  BY <1>1, <1>3, <1>4 DEF LoopHas, LoopSeen, LoopRound
<1>7. CASE call \in TagCalls
  <2>1. call.by # NoTag /\ call \notin StateCalls
    BY <1>1, <1>7, CallsDiffer DEF TagCalls, Unconditional
  <2>2. call # [name |-> "filterState", by |-> "closed"]
        /\ call # [name |-> "filterState", by |-> "opened"]
    BY <2>1 DEF StateCalls, States
  <2>3. Removed(Element) <=> ~(call.by \in {NoTag, TagOf[Element.id]})
    BY <1>7, <2>1, <2>2 DEF Removed
  <2>4. result = FilterTag(call.by, LoopDone)
    BY <1>7 DEF LoopResult
  <2>5. FilterTag(call.by, Append(LoopDone, Element)) =
          IF call.by \in {NoTag, TagOf[Element.id]}
          THEN Append(FilterTag(call.by, LoopDone), Element)
          ELSE FilterTag(call.by, LoopDone)
    BY <1>2, FilterTagOneMore
  <2>6. result' = FilterTag(call.by, LoopDone')
    BY <1>1, <1>2, <2>3, <2>4, <2>5
  <2>7. LoopResult'
    BY <1>1, <1>3, <2>1, <2>6 DEF LoopResult
  <2> QED
    BY <1>5, <1>6, <2>7
<1>8. CASE call \in StateCalls
  <2>1. call \notin TagCalls
    BY <1>8, CallsDiffer
  <2>2. PICK s \in States : call = [name |-> "filterState", by |-> s]
    BY <1>8 DEF StateCalls
  <2>3. s = call.by /\ s \in {"closed", "opened"}
    BY <1>1, <2>2 DEF States, Unconditional
  <2>4. Element.isOpened \in BOOLEAN
    BY <1>2 DEF Preview
  <2>5. Removed(Element) <=> ~(call.by = "all" \/ Element.isOpened = (call.by = "opened"))
    <3>1. CASE s = "closed"
      <4>1. Removed(Element) <=> Element.isOpened
        BY <2>1, <2>2, <3>1 DEF Removed
      <4> QED
        BY <2>3, <2>4, <3>1, <4>1
    <3>2. CASE s = "opened"
      <4>1. Removed(Element) <=> ~Element.isOpened
        BY <2>1, <2>2, <3>2 DEF Removed
      <4> QED
        BY <2>3, <2>4, <3>2, <4>1
    <3> QED
      BY <2>3, <3>1, <3>2
  <2>6. result = FilterState(call.by, LoopDone)
    BY <1>8 DEF LoopResult
  <2>7. FilterState(call.by, Append(LoopDone, Element)) =
          IF call.by = "all" \/ Element.isOpened = (call.by = "opened")
          THEN Append(FilterState(call.by, LoopDone), Element)
          ELSE FilterState(call.by, LoopDone)
    BY <1>2, FilterStateOneMore
  <2>8. result' = FilterState(call.by, LoopDone')
    BY <1>1, <1>2, <2>5, <2>6, <2>7
  <2>9. LoopResult'
    BY <1>1, <1>3, <2>1, <2>8 DEF LoopResult
  <2> QED
    BY <1>5, <1>6, <2>9
<1> QED
  BY <1>1, <1>7, <1>8

\* Without a selected button the whole list is taken over.
LEMMA KeepAllInv == LoopInv /\ KeepAll => LoopInv'
<1> SUFFICES ASSUME LoopInv, KeepAll PROVE LoopInv'
  OBVIOUS
<1> USE DEF LoopInv
<1>1. /\ call \in Unconditional /\ result' = rightArray /\ pos' = Len(rightArray)
      /\ UNCHANGED <<call, leftArray, rightArray, inner, has, seen, round>>
  BY DEF KeepAll
<1>2. rightArray \in Seq(Preview) /\ Len(rightArray) \in Nat
  BY LenProperties DEF LoopTypeOK
<1>3. LoopDone' = rightArray
  <2>1. LoopDone' = SubSeq(rightArray, 1, Len(rightArray))
    BY <1>1 DEF LoopDone
  <2> QED
    BY <1>2, <2>1, SubSeqFull
<1>4. call \in TagCalls \cup StateCalls /\ call # Combine /\ call # Unique
  BY <1>1, CallsDiffer DEF Unconditional, TagCalls, StateCalls, States
<1>5. inner = 0 /\ ~has
  BY <1>4 DEF LoopHas
<1>6. LoopTypeOK'
  BY <1>1, <1>2, <1>5 DEF LoopTypeOK
<1>7. LoopResult'
  <2>1. call \in TagCalls => call.by = NoTag
    BY <1>1, CallsDiffer DEF Unconditional, StateCalls, States
  <2>2. call \in StateCalls => call.by = "all"
    BY <1>1, CallsDiffer DEF Unconditional, TagCalls
  <2>3. FilterTag(NoTag, rightArray) = rightArray /\ FilterState("all", rightArray) = rightArray
    BY <1>2, FiltersKeepAll
  <2> QED
    BY <1>1, <1>3, <1>4, <2>1, <2>2, <2>3 DEF LoopResult
<1>8. LoopHas' /\ LoopSeen' /\ LoopRound'
  BY <1>1, <1>4, <1>5 DEF LoopHas, LoopSeen, LoopRound
<1> QED
  BY <1>6, <1>7, <1>8

\* LoopInv is inductive.
LEMMA LoopInvariant == LoopSpec => []LoopInv
<1>1. LoopInv /\ [LoopNext]_loopVars => LoopInv'
  <2> SUFFICES ASSUME LoopInv, [LoopNext]_loopVars PROVE LoopInv'
    OBVIOUS
  <2>1. CASE UNCHANGED loopVars
    BY <2>1 DEF loopVars, LoopInv, LoopTypeOK, LoopResult, LoopHas, LoopSeen, LoopRound,
                LoopDone, Element
  <2> QED
    BY <2>1, CompareIdsInv, AppendUnlessHasInv, CombineAgainInv, InsertSeenInv,
       RemoveAllInv, KeepAllInv DEF LoopNext
<1> QED
  BY <1>1, LoopInitInv, PTL DEF LoopSpec

\* The operators of PreviewList, on which every other proof about the lists
\* rests, are what the loops of combineArrays, removingDuplicates, filterTag
\* and filterState compute, for lists of any length and any repeated ids.
THEOREM LoopsComputeOperators == LoopSpec => []OperatorsAreTheLoops
<1>1. LoopInv => OperatorsAreTheLoops
  <2> SUFFICES ASSUME LoopInv, pos = Len(rightArray) PROVE OperatorsAreTheLoops
    BY DEF OperatorsAreTheLoops
  <2>1. LoopDone = rightArray
    BY SubSeqFull DEF LoopInv, LoopTypeOK, LoopDone
  <2> QED
    BY <2>1 DEF LoopInv, LoopResult, OperatorsAreTheLoops
<1> QED
  BY <1>1, LoopInvariant, PTL

\* A page that several scroll events have asked for is handled once per
\* reply: after the first, combineArrays never adds anything, and at no turn
\* does it repeat an id in a list that repeated none.
THEOREM TwiceIsHarmless == LoopSpec => []DuplicateReplyIsHarmless
<1>1. LoopInv => DuplicateReplyIsHarmless
  <2> SUFFICES ASSUME LoopInv PROVE DuplicateReplyIsHarmless
    OBVIOUS
  <2> USE DEF LoopInv
  <2>1. /\ leftArray \in Seq(Preview) /\ rightArray \in Seq(Preview)
        /\ pos \in 0 .. Len(rightArray)
    BY DEF LoopTypeOK
  <2>2. LoopDone \in Seq(Preview) /\ IdsOf(LoopDone) \subseteq IdsOf(rightArray)
    BY <2>1, PrefixIds DEF LoopDone
  <2>3. ASSUME round = 2 PROVE result = leftArray
    <3>1. result = CombineArrays(leftArray, LoopDone)
      BY <2>3 DEF LoopRound, LoopResult
    <3>2. IdsOf(LoopDone) \subseteq IdsOf(leftArray)
      BY <2>2, <2>3 DEF LoopRound
    <3> QED
      BY <2>1, <2>2, <3>1, <3>2, CombineAddsNothing
  <2>4. ASSUME call = Combine, UniqueList(leftArray) PROVE UniqueList(result)
    BY <2>2, <2>4, CombineArraysProperties DEF LoopResult
  <2> QED
    BY <2>3, <2>4 DEF DuplicateReplyIsHarmless
<1> QED
  BY <1>1, LoopInvariant, PTL
=============================================================================
