---------------------------- MODULE PreviewLoops ----------------------------
(***************************************************************************)
(* The loops of TimeCapsulePreviewModel, step by step: one call of         *)
(* combineArrays, removingDuplicates, filterTag or filterState on any      *)
(* lists, repeated ids included.  It shows that the operators of           *)
(* PreviewList, which the other modules use, compute what the loops do.    *)
(* combineArrays is called a second time with the same reply, as after the *)
(* duplicate page requests of a scroll.                                    *)
(***************************************************************************)
EXTENDS PreviewList

CONSTANTS
    LeftInputs,    \* the lists that a call of combineArrays starts from
    RightInputs    \* the replies, and the lists that the other calls work on

ASSUME InputAssumption == LeftInputs \subseteq Seq(Preview) /\ RightInputs \subseteq Seq(Preview)

VARIABLES
    call,                   \* the function and what it selects by
    leftArray, rightArray,  \* its arguments
    result,                 \* what it has built so far
    pos,                    \* elements of rightArray it is done with
    inner, has,             \* combineArrays: elements of result compared, and has
    seen,                   \* removingDuplicates: the set seen
    round                   \* combineArrays: first or second call

loopVars == <<call, leftArray, rightArray, result, pos, inner, has, seen, round>>

Combine == [name |-> "combineArrays", by |-> NoTag]
Unique == [name |-> "removingDuplicates", by |-> NoTag]
TagCalls == {[name |-> "filterTag", by |-> t] : t \in Tags \cup {NoTag}}
StateCalls == {[name |-> "filterState", by |-> s] : s \in States}

\* filterTag and filterState without a selected button remove nothing.
Unconditional == {[name |-> "filterTag", by |-> NoTag], [name |-> "filterState", by |-> "all"]}

LoopInit ==
    /\ call \in {Combine, Unique} \cup TagCalls \cup StateCalls
    /\ leftArray \in IF call = Combine THEN LeftInputs ELSE {<<>>}
    /\ rightArray \in RightInputs
    /\ result = leftArray
    /\ pos = 0 /\ inner = 0 /\ has = FALSE /\ seen = {} /\ round = 1

Element == rightArray[pos + 1]      \* the element that the loop is at

\* One turn of the inner loop of combineArrays; it goes on after a match.
CompareIds ==
    /\ call = Combine /\ pos < Len(rightArray) /\ inner < Len(result)
    /\ has' = (has \/ result[inner + 1].id = Element.id)
    /\ inner' = inner + 1
    /\ UNCHANGED <<call, leftArray, rightArray, result, pos, seen, round>>

\* Mutant: has is not looked at.
AppendAlways ==
    /\ call = Combine /\ pos < Len(rightArray) /\ inner = Len(result)
    /\ result' = Append(result, Element)
    /\ pos' = pos + 1 /\ inner' = 0 /\ has' = FALSE
    /\ UNCHANGED <<call, leftArray, rightArray, seen, round>>

\* The end of a turn of the outer loop.
AppendUnlessHas ==
    /\ call = Combine /\ pos < Len(rightArray) /\ inner = Len(result)
    /\ result' = IF has THEN result ELSE Append(result, Element)
    /\ pos' = pos + 1 /\ inner' = 0 /\ has' = FALSE
    /\ UNCHANGED <<call, leftArray, rightArray, seen, round>>

\* The same reply is handled again.
CombineAgain ==
    /\ call = Combine /\ pos = Len(rightArray) /\ round = 1
    /\ leftArray' = result /\ pos' = 0 /\ round' = 2
    /\ UNCHANGED <<call, rightArray, result, inner, has, seen>>

\* filter { seen.insert($0).inserted }, at one element.
InsertSeen ==
    /\ call = Unique /\ pos < Len(rightArray)
    /\ result' = IF Element \in seen THEN result ELSE Append(result, Element)
    /\ seen' = seen \cup {Element}
    /\ pos' = pos + 1
    /\ UNCHANGED <<call, leftArray, rightArray, inner, has, round>>

\* What the closures of removeAll remove: another tag, opened capsules (Only
\* Closed) or the others.
Removed(p) ==
    \/ call \in TagCalls /\ TagOf[p.id] # call.by
    \/ call = [name |-> "filterState", by |-> "closed"] /\ p.isOpened
    \/ call = [name |-> "filterState", by |-> "opened"] /\ ~p.isOpened

\* removeAll, at one element.
RemoveAll ==
    /\ call \in (TagCalls \cup StateCalls) \ Unconditional /\ pos < Len(rightArray)
    /\ result' = IF Removed(Element) THEN result ELSE Append(result, Element)
    /\ pos' = pos + 1
    /\ UNCHANGED <<call, leftArray, rightArray, inner, has, seen, round>>

\* Without a selected button filtered is original.
KeepAll ==
    /\ call \in Unconditional /\ pos < Len(rightArray)
    /\ result' = rightArray
    /\ pos' = Len(rightArray)
    /\ UNCHANGED <<call, leftArray, rightArray, inner, has, seen, round>>

LoopNext == \/ CompareIds \/ AppendUnlessHas \/ CombineAgain
            \/ InsertSeen \/ RemoveAll \/ KeepAll

LoopSpec == LoopInit /\ [][LoopNext]_loopVars

---------------------------------------------------------------------------
(* Properties. *)

\* A call that has gone through its list has computed what the operator of
\* PreviewList says, also when a list repeats an id.
OperatorsAreTheLoops ==
    pos = Len(rightArray) =>
        /\ call = Combine => result = CombineArrays(leftArray, rightArray)
        /\ call = Unique => result = RemovingDuplicates(rightArray)
        /\ call \in TagCalls => result = FilterTag(call.by, rightArray)
        /\ call \in StateCalls => result = FilterState(call.by, rightArray)

\* The same reply handled a second time (the duplicate page requests of a
\* scroll) adds nothing at any moment, and a list without repeated ids keeps
\* that at every turn of the loop, whatever the reply repeats.
DuplicateReplyIsHarmless ==
    /\ round = 2 => result = leftArray
    /\ call = Combine /\ UniqueList(leftArray) => UniqueList(result)
=============================================================================
