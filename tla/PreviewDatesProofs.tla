------------------------- MODULE PreviewDatesProofs -------------------------
(***************************************************************************)
(* The invariants and the action property of PreviewDates, for any length  *)
(* of the day, any zone of the device and any deadline.  A cell shows the  *)
(* values of the moment it was configured: what remains is the arithmetic  *)
(* of days.                                                                *)
(***************************************************************************)
EXTENDS PreviewDates, TLAPS

---------------------------------------------------------------------------
(* Whole days. *)

\* Division drops the incomplete day.
LEMMA DivBounds ==
    ASSUME NEW a \in Nat
    PROVE  /\ a \div HoursPerDay \in Nat
           /\ (a \div HoursPerDay) * HoursPerDay <= a
           /\ a < (a \div HoursPerDay) * HoursPerDay + HoursPerDay
BY DatesAssumption

\* A later moment is at least as many days away.
LEMMA DivMonotone ==
    ASSUME NEW a \in Nat, NEW b \in Nat, a <= b
    PROVE  a \div HoursPerDay <= b \div HoursPerDay
<1> DEFINE m == a \div HoursPerDay
           n == b \div HoursPerDay
           h == HoursPerDay
<1>1. m \in Nat /\ n \in Nat /\ h \in Nat \ {0} /\ m * h <= a /\ b < n * h + h
  BY DivBounds, DatesAssumption
<1> HIDE DEF m, n, h
<1>2. m * h < (n + 1) * h
  BY <1>1
<1>3. m < n + 1
  BY <1>1, <1>2
<1>4. QED  BY <1>1, <1>3 DEF m, n

\* Calendar.dateComponents on both sides of the present.
LEMMA DaysFacts ==
    ASSUME NEW from \in Int, NEW to \in Int
    PROVE  LET d == Days(from, to)
           IN  /\ d \in Int
               /\ to >= from => /\ d \in Nat /\ d * HoursPerDay <= to - from
                                /\ to - from < (d + 1) * HoursPerDay
               /\ to < from => /\ -d \in Nat /\ (-d) * HoursPerDay <= from - to
                               /\ from - to < (-d + 1) * HoursPerDay
<1> DEFINE h == HoursPerDay
<1>0. h \in Nat \ {0}
  BY DatesAssumption
<1>1. CASE to >= from
  <2> DEFINE d == (to - from) \div h
  <2>1. d \in Nat /\ d * h <= to - from /\ to - from < d * h + h
    BY <1>1, DivBounds
  <2> HIDE DEF d, h
  <2>2. (d + 1) * h = d * h + h
    BY <1>0, <2>1
  <2>3. Days(from, to) = d
    BY <1>1 DEF Days, d, h
  <2>4. QED  BY <1>1, <2>1, <2>2, <2>3 DEF h
<1>2. CASE to < from
  <2> DEFINE q == (from - to) \div h
  <2>1. q \in Nat /\ q * h <= from - to /\ from - to < q * h + h
    BY <1>2, DivBounds
  <2> HIDE DEF q, h
  <2>2. (q + 1) * h = q * h + h
    BY <1>0, <2>1
  <2>3. Days(from, to) = -q /\ -(-q) = q /\ -q \in Int
    BY <1>2, <2>1 DEF Days, q, h
  <2>4. QED  BY <1>2, <2>1, <2>2, <2>3 DEF h
<1>3. QED  BY <1>1, <1>2

\* The days to a fixed date do not grow as time passes.
LEMMA DaysToShrink ==
    ASSUME NEW t \in Int, NEW u \in Int, t <= u, NEW to \in Int
    PROVE  Days(u, to) <= Days(t, to)
<1>1. CASE to >= u
  <2>1. (to - u) \div HoursPerDay <= (to - t) \div HoursPerDay
    BY <1>1, DivMonotone
  <2>2. to >= t
    BY <1>1
  <2>3. QED  BY <1>1, <2>1, <2>2 DEF Days
<1>2. CASE to < u /\ to >= t
  <2>1. -Days(u, to) \in Nat /\ Days(u, to) \in Int /\ Days(t, to) \in Nat
    BY <1>2, DaysFacts
  <2>2. QED  BY <2>1
<1>3. CASE to < t
  <2>1. /\ (t - to) \div HoursPerDay <= (u - to) \div HoursPerDay
        /\ (t - to) \div HoursPerDay \in Nat /\ (u - to) \div HoursPerDay \in Nat
    BY <1>3, DivMonotone, DivBounds
  <2>2. ~(to >= t) /\ ~(to >= u)
    BY <1>3
  <2>3. QED  BY <2>1, <2>2 DEF Days
<1>4. QED  BY <1>1, <1>2, <1>3

\* The days since a fixed date do not shrink.
LEMMA DaysSinceGrow ==
    ASSUME NEW from \in Int, NEW t \in Int, NEW u \in Int, from <= t, t <= u
    PROVE  Days(from, t) <= Days(from, u)
<1>1. (t - from) \div HoursPerDay <= (u - from) \div HoursPerDay
  BY DivMonotone
<1>2. t >= from /\ u >= from
  OBVIOUS
<1>3. QED  BY <1>1, <1>2 DEF Days

---------------------------------------------------------------------------
(* The inductive invariant. *)

\* What configuration shows at time t of a capsule not known to be open.
Total == Days(createdAt, deadline)
StatusAt(t) == IF Days(t, deadline) + 1 > 0 THEN Days(t, deadline) + 1 ELSE 0
NumAt(t) == IF Total = 0 THEN 1 ELSE Days(createdAt, t) + 1
Den == IF Total = 0 THEN 1 ELSE Total + 1

\* Neither the phone nor an answer runs ahead of the server, nor the server of the
\* deadline.
OpenOK == /\ isOpened => opened
          /\ TRUE \in replies => opened
          /\ opened => clock >= deadline
          /\ createdAt <= clock

CellOK ==
    cell.shown =>
        /\ createdAt <= cell.at /\ cell.at <= clock
        /\ \/ /\ cell.light /\ deadline <= cell.at
              /\ cell.status = 0 /\ cell.num = 1 /\ cell.den = 1
           \/ /\ ~cell.light /\ cell.status = StatusAt(cell.at)
              /\ cell.num = NumAt(cell.at) /\ cell.den = Den

IndInv == TypeOK /\ OpenOK /\ CellOK

\* The moments of a cell are integers, and so is what it is to show.
LEMMA Numbers ==
    ASSUME TypeOK
    PROVE  /\ clock \in Int /\ createdAt \in Int /\ deadline \in Int /\ Total \in Int
           /\ Den \in Int
           /\ \A t \in Int : StatusAt(t) \in Nat /\ NumAt(t) \in Int
<1>1. clock \in Int /\ createdAt \in Int /\ deadline \in Int
  BY DatesAssumption DEF TypeOK
<1>2. Total \in Int
  BY <1>1, DaysFacts DEF Total
<1>3. \A t \in Int : Days(t, deadline) \in Int /\ Days(createdAt, t) \in Int
  BY <1>1, DaysFacts
<1>4. QED  BY <1>1, <1>2, <1>3 DEF StatusAt, NumAt, Den

\* configuration computes the progress first, and so parses the deadline in Seoul
\* time when the status is computed.
LEMMA ConfigurationShows ==
    ASSUME TypeOK, Configuration
    PROVE  /\ cell' = [shown |-> TRUE, at |-> clock, light |-> isOpened,
                       status |-> IF isOpened THEN 0 ELSE StatusAt(clock),
                       num |-> IF isOpened THEN 1 ELSE NumAt(clock),
                       den |-> IF isOpened THEN 1 ELSE Den]
           /\ zone' = "Seoul"
           /\ UNCHANGED <<clock, createdAt, deadline, opened, isOpened, replies>>
<1>1. DeadlineDate("Seoul") = deadline
  BY Numbers DEF DeadlineDate
<1>2. zone' = "Seoul" /\ UNCHANGED <<clock, createdAt, deadline, opened, isOpened, replies>>
  BY DEF Configuration, dates
<1>3. D_Day(zone') = StatusAt(clock)
  BY <1>1, <1>2 DEF D_Day, StatusAt
<1>4. Progress[1] = NumAt(clock) /\ Progress[2] = Den
  BY <1>1 DEF Progress, NumAt, Den, Total
<1>5. QED  BY <1>2, <1>3, <1>4 DEF Configuration

\* At the start there is no cell.
LEMMA InitEstablishes == Init => IndInv
<1> SUFFICES ASSUME Init PROVE IndInv
  OBVIOUS
<1>1. /\ clock \in 0 .. MaxTime /\ createdAt = clock /\ deadline \in Int
      /\ createdAt \in 0 .. MaxTime
  BY DatesAssumption DEF Init
<1>2. cell \in Cells /\ ~cell.shown
  BY DatesAssumption DEF Init, NoCell, Cells
<1>3. opened \in BOOLEAN /\ isOpened \in BOOLEAN /\ ~opened /\ ~isOpened /\ replies = {}
  BY DEF Init
<1>4. zone \in {"device", "Seoul"}
  BY DEF Init
<1>5. TypeOK
  BY <1>1, <1>2, <1>3, <1>4 DEF TypeOK
<1>6. OpenOK
  BY <1>1, <1>3 DEF OpenOK
<1>7. QED  BY <1>2, <1>5, <1>6 DEF IndInv, CellOK

\* A cell configured now shows the values of now.
LEMMA ConfigurationKeeps ==
    ASSUME IndInv, Configuration
    PROVE  IndInv'
<1> DEFINE status == IF isOpened THEN 0 ELSE StatusAt(clock)
           num == IF isOpened THEN 1 ELSE NumAt(clock)
           den == IF isOpened THEN 1 ELSE Den
<1>1. /\ cell' = [shown |-> TRUE, at |-> clock, light |-> isOpened, status |-> status, num |-> num, den |-> den]
      /\ zone' = "Seoul"
      /\ UNCHANGED <<clock, createdAt, deadline, opened, isOpened, replies>>
  BY ConfigurationShows DEF IndInv
<1>2. status \in Nat /\ num \in Int /\ den \in Int /\ clock \in 0 .. MaxTime
  BY Numbers DEF IndInv, TypeOK
<1>3. /\ ~isOpened => status = StatusAt(clock) /\ num = NumAt(clock) /\ den = Den
      /\ isOpened => status = 0 /\ num = 1 /\ den = 1
      /\ isOpened \in BOOLEAN
  BY DEF IndInv, TypeOK
<1> HIDE DEF status, num, den
<1>4. /\ cell' \in Cells
      /\ cell'.at = clock /\ cell'.light = isOpened
      /\ cell'.status = status /\ cell'.num = num /\ cell'.den = den
  BY <1>1, <1>2, <1>3 DEF Cells
<1>5. TypeOK'
  BY <1>1, <1>4 DEF IndInv, TypeOK
<1>6. OpenOK'
  BY <1>1 DEF IndInv, OpenOK
<1>7. StatusAt(clock)' = StatusAt(clock) /\ NumAt(clock)' = NumAt(clock) /\ Den' = Den
  BY <1>1 DEF StatusAt, NumAt, Den, Total, Days
<1>8. createdAt <= clock /\ clock <= clock /\ (isOpened => deadline <= clock)
  BY DatesAssumption DEF IndInv, TypeOK, OpenOK
<1>9. CellOK'
  <2>1. CASE isOpened
    BY <1>1, <1>3, <1>4, <1>8, <2>1 DEF CellOK
  <2>2. CASE ~isOpened
    <3>1. /\ cell'.status = StatusAt(cell.at)' /\ cell'.num = NumAt(cell.at)' /\ cell'.den = Den'
      BY <1>1, <1>3, <1>4, <1>7, <2>2 DEF StatusAt, NumAt, Den, Total, Days
    <3>2. QED  BY <1>1, <1>4, <1>8, <2>2, <3>1 DEF CellOK
  <2>3. QED  BY <2>1, <2>2
<1>10. QED  BY <1>5, <1>6, <1>9 DEF IndInv

\* The copy and the answers under way follow the server, however late.
LEMMA FlagsKeep ==
    ASSUME TypeOK, OpenOK,
           \/ SortByCreatedDate \/ Tick \/ ServerOpens \/ ServerAnswers \/ CopyArrives \/ Relaunch
           \/ UNCHANGED vars
    PROVE  /\ opened' \in BOOLEAN /\ isOpened' \in BOOLEAN /\ replies' \subseteq BOOLEAN
           /\ isOpened' => opened'
           /\ TRUE \in replies' => opened'
<1>1. CASE SortByCreatedDate \/ Tick \/ UNCHANGED vars
  <2>1. UNCHANGED <<opened, isOpened, replies>>
    BY <1>1 DEF SortByCreatedDate, Tick, vars
  <2>2. opened' = opened /\ isOpened' = isOpened /\ replies' = replies
    BY <2>1
  <2>3. QED  BY Zenon, <2>2 DEF TypeOK, OpenOK
<1>2. CASE ServerOpens
  BY Zenon, <1>2 DEF ServerOpens, TypeOK, OpenOK
<1>3. CASE ServerAnswers
  BY <1>3 DEF ServerAnswers, TypeOK, OpenOK
<1>4. CASE CopyArrives
  <2>1. PICK flag \in replies : isOpened' = flag /\ replies' \in {replies, replies \ {flag}}
    BY <1>4 DEF CopyArrives
  <2>2. opened' = opened /\ replies' \subseteq replies /\ flag \in BOOLEAN
    BY <1>4, <2>1 DEF CopyArrives, TypeOK
  <2>3. isOpened' => opened'
    BY <2>1, <2>2 DEF OpenOK
  <2>4. QED  BY <2>1, <2>2, <2>3 DEF TypeOK, OpenOK
<1>5. CASE Relaunch
  BY Zenon, <1>5 DEF Relaunch, TypeOK, OpenOK
<1>6. QED  BY <1>1, <1>2, <1>3, <1>4, <1>5

\* Sorting, the clock, the server and new copies leave the cell alone.
LEMMA OthersKeep ==
    ASSUME IndInv,
           \/ SortByCreatedDate \/ Tick \/ ServerOpens \/ ServerAnswers \/ CopyArrives \/ Relaunch
           \/ UNCHANGED vars
    PROVE  IndInv'
<1> USE DEF SortByCreatedDate, Tick, ServerOpens, ServerAnswers, CopyArrives, Relaunch, vars, dates
<1>0. /\ TypeOK /\ clock \in Int /\ MaxTime \in Int /\ createdAt \in Int /\ deadline \in Int
      /\ cell.at \in Int
  BY DatesAssumption DEF IndInv, TypeOK, Cells
<1>1. /\ UNCHANGED <<createdAt, deadline>> /\ clock' \in 0 .. MaxTime /\ clock' >= clock
  BY <1>0 DEF TypeOK
<1>2. zone' \in {"device", "Seoul"}
  BY <1>0 DEF TypeOK
<1>3. opened' \in BOOLEAN /\ isOpened' \in BOOLEAN /\ replies' \subseteq BOOLEAN
  BY <1>0, FlagsKeep DEF IndInv
<1>4. NoCell \in Cells /\ ~NoCell.shown
  BY DatesAssumption DEF NoCell, Cells
<1>5. cell' = cell \/ cell' = NoCell
  OBVIOUS
<1>6. TypeOK'
  <2>1. cell' \in Cells
    BY <1>0, <1>4, <1>5 DEF TypeOK
  <2>2. createdAt' \in 0 .. MaxTime /\ deadline' \in Int
    BY <1>0, <1>1 DEF TypeOK
  <2>3. QED  BY <1>1, <1>2, <1>3, <2>1, <2>2 DEF TypeOK
<1>7. opened' => opened \/ clock' >= deadline
  BY <1>0
<1>8. (isOpened' => opened') /\ (TRUE \in replies' => opened')
  BY FlagsKeep DEF IndInv
<1> HIDE DEF SortByCreatedDate, Tick, ServerOpens, ServerAnswers, CopyArrives, Relaunch
<1>9. OpenOK'
  <2>1. clock' \in Int /\ clock <= clock'
    BY <1>0, <1>1
  <2>2. opened' => clock' >= deadline'
    BY <1>0, <1>1, <1>7, <2>1 DEF IndInv, OpenOK
  <2>3. createdAt' <= clock'
    BY <1>0, <1>1, <2>1 DEF IndInv, OpenOK
  <2>4. QED  BY Zenon, <1>8, <2>2, <2>3 DEF OpenOK
<1>10. CellOK'
  <2>1. CASE cell' = NoCell
    BY <1>4, <2>1 DEF CellOK
  <2>2. CASE cell' = cell
    <3>1. /\ StatusAt(cell.at)' = StatusAt(cell.at) /\ NumAt(cell.at)' = NumAt(cell.at)
          /\ Den' = Den
      BY <1>1, <2>2 DEF StatusAt, NumAt, Den, Total, Days
    <3>2. cell.at <= clock => cell.at <= clock'
      BY <1>0, <1>1
    <3>3. QED  BY <1>1, <2>2, <3>1, <3>2 DEF IndInv, CellOK
  <2>3. QED  BY <1>5, <2>1, <2>2
<1>11. QED  BY <1>6, <1>9, <1>10 DEF IndInv

\* The inductive invariant is one.
LEMMA Inductive == Spec => []IndInv
<1>1. Init => IndInv
  BY InitEstablishes
<1>2. IndInv /\ [Next]_vars => IndInv'
  BY ConfigurationKeeps, OthersKeep DEF Next
<1>3. QED  BY <1>1, <1>2, PTL DEF Spec

---------------------------------------------------------------------------
(* The results. *)

\* The dates, the flags and the contents of the cell keep their types.
THEOREM TypeCorrect == Spec => []TypeOK
<1>1. IndInv => TypeOK
  BY DEF IndInv
<1>2. QED  BY <1>1, Inductive, PTL

\* The text of D_Day was true when the cell was configured, in whatever zone the
\* device is and whatever was sorted before.
THEOREM StatusWasTrue == Spec => []StatusIsTrue
<1>1. IndInv => StatusIsTrue
  <2> SUFFICES ASSUME IndInv, cell.shown PROVE StatusIsTrue
    BY DEF StatusIsTrue
  <2> DEFINE left == deadline - cell.at
             d == Days(cell.at, deadline)
             h == HoursPerDay
  <2>1. /\ cell.at \in Int /\ deadline \in Int /\ left \in Int /\ h \in Nat \ {0}
    BY DatesAssumption DEF IndInv, TypeOK, Cells
  <2>2. CASE deadline <= cell.at /\ cell.status = 0
    BY <2>1, <2>2 DEF StatusIsTrue
  <2>3. CASE cell.status = StatusAt(cell.at)
    <3>1. /\ d \in Int
          /\ deadline >= cell.at => d \in Nat /\ d * h <= left /\ left < (d + 1) * h
          /\ deadline < cell.at => /\ -d \in Nat /\ (-d) * h <= cell.at - deadline
                                   /\ cell.at - deadline < (-d + 1) * h
      BY <2>1, DaysFacts
    <3>2. cell.status = IF d + 1 > 0 THEN d + 1 ELSE 0
      BY <2>3 DEF StatusAt
    <3> HIDE DEF d, h
    <3>3. CASE deadline >= cell.at
      <4>1. cell.status = d + 1 /\ d \in Nat /\ cell.status - 1 = d /\ cell.status - 2 = d - 1
        BY <3>1, <3>2, <3>3
      <4>2. (d - 1) * h = d * h - h
        BY <2>1, <3>1
      <4>3. left > (d - 1) * h
        <5> HIDE DEF left
        <5>1. d * h \in Int
          BY <2>1, <3>1
        <5>2. QED  BY <2>1, <3>1, <3>3, <4>2, <5>1
      <4>4. QED  BY <3>1, <3>3, <4>1, <4>3 DEF StatusIsTrue, h
    <3>4. CASE deadline < cell.at /\ d = 0
      <4>1. cell.status = 1
        BY <3>2, <3>4
      <4>2. cell.at - deadline < h
        BY <2>1, <3>1, <3>4
      <4>3. /\ left < h /\ left > -h /\ 1 * h = h /\ (1 - 2) * h = -h
        BY <2>1, <3>4, <4>2
      <4>4. QED  BY <4>1, <4>3 DEF StatusIsTrue, h
    <3>5. CASE deadline < cell.at /\ d # 0
      <4>1. cell.status = 0 /\ left <= 0
        BY <2>1, <3>1, <3>2, <3>5
      <4>2. QED  BY <4>1 DEF StatusIsTrue
    <3>6. QED  BY <2>1, <3>3, <3>4, <3>5
  <2>4. QED  BY <2>2, <2>3 DEF IndInv, CellOK
<1>2. QED  BY <1>1, Inductive, PTL

\* progress fills the bar only in the last day, also where it divides by zero, and
\* never leaves it empty before the deadline.
THEOREM BarWasTrue == Spec => []BarIsTrue
<1>1. IndInv => BarIsTrue
  <2> SUFFICES ASSUME IndInv, cell.shown
               PROVE  /\ BarIsFull => deadline - cell.at < HoursPerDay
                      /\ cell.at < deadline => cell.den > 0 /\ cell.num > 0
    BY DEF BarIsTrue
  <2> DEFINE h == HoursPerDay
             total == Days(createdAt, deadline)
             elapsed == Days(createdAt, cell.at)
  <2>1. /\ cell.at \in Int /\ deadline \in Int /\ createdAt \in Int /\ h \in Nat \ {0}
        /\ createdAt <= cell.at
    BY DatesAssumption DEF IndInv, TypeOK, Cells, CellOK
  <2>2. CASE deadline <= cell.at
    BY <2>1, <2>2
  <2>3. CASE cell.num = NumAt(cell.at) /\ cell.den = Den
    <3>1. /\ total \in Int
          /\ deadline >= createdAt => total \in Nat /\ deadline - createdAt < (total + 1) * h
          /\ deadline < createdAt => -total \in Nat
      BY <2>1, DaysFacts
    <3>2. elapsed \in Nat /\ elapsed * h <= cell.at - createdAt
      BY <2>1, DaysFacts
    <3>3. /\ cell.num = IF total = 0 THEN 1 ELSE elapsed + 1
          /\ cell.den = IF total = 0 THEN 1 ELSE total + 1
      BY <2>3 DEF NumAt, Den, Total
    <3> HIDE DEF total, elapsed, h
    <3>4. ASSUME cell.at < deadline PROVE cell.den > 0 /\ cell.num > 0
      <4>1. total \in Nat
        BY <2>1, <3>1, <3>4
      <4>2. QED  BY <3>2, <3>3, <4>1
    <3>5. ASSUME BarIsFull PROVE deadline - cell.at < h
      <4>1. CASE deadline < createdAt
        BY <2>1, <4>1
      <4>2. CASE deadline >= createdAt
        <5>1. total \in Nat /\ deadline - createdAt < (total + 1) * h
          BY <3>1, <4>2
        <5>2. total <= elapsed
          BY <3>2, <3>3, <3>5, <5>1 DEF BarIsFull
        <5>3. total * h <= elapsed * h /\ (total + 1) * h = total * h + h
          BY <2>1, <3>2, <5>1, <5>2
        <5>4. total * h \in Int /\ elapsed * h \in Int
          BY <2>1, <3>2, <5>1
        <5>5. QED  BY <2>1, <3>2, <5>1, <5>3, <5>4
      <4>3. QED  BY <2>1, <4>1, <4>2
    <3>6. QED  BY <3>4, <3>5 DEF h
  <2>4. QED  BY <2>2, <2>3 DEF IndInv, CellOK
<1>2. QED  BY <1>1, Inductive, PTL

\* A cell configured again neither counts up nor, before the deadline, empties its
\* bar: not after the formatter's zone has changed, and not after an older copy of
\* the capsule has replaced a newer one, except that a lamp that goes out may take
\* "can be opened" back to "D-1".
THEOREM NeverCountsUp == Spec => NeverBackwards
<1> DEFINE P == cell.shown /\ cell'.shown =>
                    /\ cell'.status <= cell.status \/ (LampGoesOut /\ cell'.status = 1)
                    /\ cell'.at < deadline => cell'.num * cell.den >= cell.num * cell'.den
<1>1. ASSUME IndInv, Next PROVE P
  <2> SUFFICES ASSUME cell.shown, cell'.shown
               PROVE  /\ cell'.status <= cell.status \/ (LampGoesOut /\ cell'.status = 1)
                      /\ cell'.at < deadline => cell'.num * cell.den >= cell.num * cell'.den
    OBVIOUS
  <2>0. /\ TypeOK /\ cell.status \in Nat /\ cell.num \in Int /\ cell.den \in Int
        /\ cell.at \in Int
    BY <1>1, DatesAssumption DEF IndInv, TypeOK, Cells
  <2>1. CASE cell' = cell
    BY <2>0, <2>1
  <2>2. CASE Configuration
    <3>1. /\ cell'.at = clock /\ cell'.light = isOpened
          /\ isOpened => cell'.status = 0
          /\ ~isOpened => /\ cell'.status = StatusAt(clock) /\ cell'.num = NumAt(clock)
                          /\ cell'.den = Den
      BY <2>0, <2>2, ConfigurationShows
    <3>2. CASE isOpened
      <4>1. deadline <= clock /\ clock \in Int /\ deadline \in Int
        BY <1>1, <2>0, <3>2, Numbers DEF IndInv, OpenOK
      <4>2. QED  BY <2>0, <3>1, <3>2, <4>1
    <3>3. CASE ~isOpened /\ ~cell.light
      <4>1. /\ cell.status = StatusAt(cell.at) /\ cell.num = NumAt(cell.at) /\ cell.den = Den
            /\ createdAt <= cell.at /\ cell.at <= clock
        BY <1>1, <3>3 DEF IndInv, CellOK
      <4>2. /\ clock \in Int /\ createdAt \in Int /\ deadline \in Int /\ Total \in Int
        BY <2>0, Numbers
      <4>3. StatusAt(clock) <= StatusAt(cell.at)
        <5>1. Days(clock, deadline) <= Days(cell.at, deadline)
          BY <2>0, <4>1, <4>2, DaysToShrink
        <5>2. Days(clock, deadline) \in Int /\ Days(cell.at, deadline) \in Int
          BY <2>0, <4>2, DaysFacts
        <5>3. QED  BY <5>1, <5>2 DEF StatusAt
      <4>4. ASSUME clock < deadline
            PROVE  NumAt(clock) * Den >= NumAt(cell.at) * Den
        <5>1. Days(createdAt, cell.at) <= Days(createdAt, clock)
          BY <2>0, <4>1, <4>2, DaysSinceGrow
        <5>2. Days(createdAt, cell.at) \in Int /\ Days(createdAt, clock) \in Int
          BY <2>0, <4>2, DaysFacts
        <5>3. deadline >= createdAt
          BY <2>0, <4>1, <4>2, <4>4
        <5>4. Total \in Nat
          BY <4>2, <5>3, DaysFacts DEF Total
        <5>5. Den \in Nat /\ NumAt(clock) \in Int /\ NumAt(cell.at) \in Int
              /\ NumAt(cell.at) <= NumAt(clock)
          BY <5>1, <5>2, <5>4 DEF Den, NumAt
        <5>6. \A a, b \in Int : \A c \in Nat : a <= b => b * c >= a * c
          OBVIOUS
        <5>7. QED  BY <5>5, <5>6
      <4>5. QED  BY <3>1, <3>3, <4>1, <4>3, <4>4
    <3>4. CASE ~isOpened /\ cell.light
      <4>1. deadline <= cell.at /\ cell.at <= clock /\ LampGoesOut
        BY <1>1, <3>1, <3>4 DEF IndInv, CellOK, LampGoesOut
      <4>2. clock \in Int /\ deadline \in Int /\ deadline <= clock
        BY <2>0, <4>1, Numbers
      <4>3. Days(clock, deadline) \in Int /\ Days(clock, deadline) <= 0
        <5>1. Days(clock, deadline) <= Days(deadline, deadline)
          BY <4>2, DaysToShrink
        <5>2. Days(deadline, deadline) = 0
          <6>1. deadline - deadline = 0 /\ deadline >= deadline /\ 0 \div HoursPerDay = 0
            BY <4>2, DatesAssumption
          <6>2. QED  BY <6>1 DEF Days
        <5>3. QED  BY <4>2, <5>1, <5>2, DaysFacts
      <4>4. cell'.status \in {0, 1}
        BY <3>1, <3>4, <4>3 DEF StatusAt
      <4>5. QED  BY <2>0, <3>1, <4>1, <4>2, <4>4
    <3>5. QED  BY <3>2, <3>3, <3>4
  <2>3. CASE SortByCreatedDate \/ Tick \/ ServerOpens \/ ServerAnswers \/ CopyArrives \/ Relaunch
    <3>1. cell' = cell \/ cell' = NoCell
      BY <2>3 DEF SortByCreatedDate, Tick, ServerOpens, ServerAnswers, CopyArrives, Relaunch
    <3>2. ~NoCell.shown
      BY DEF NoCell
    <3>3. QED  BY <2>1, <3>1, <3>2
  <2>4. QED  BY <1>1, <2>2, <2>3 DEF Next
<1>2. IndInv /\ [Next]_vars => [P]_vars
  BY <1>1
<1>3. QED  BY <1>2, Inductive, PTL DEF Spec, NeverBackwards
=============================================================================
