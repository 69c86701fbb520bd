---------------------------- MODULE PreviewDates ----------------------------
(***************************************************************************)
(* The countdown and the progress bar of a cell of the home screen: the    *)
(* date arithmetic of TimeCapsulePreview and the part of the cell's        *)
(* configuration that shows it, for one capsule.                           *)
(*                                                                         *)
(* Time is counted in hours.  The server writes dates in Seoul time; they  *)
(* are parsed by one global DateFormatter whose time zone is that of the   *)
(* device until stringToDate, and only stringToDate, sets it to Seoul.  A  *)
(* deadline parsed in the device's zone is off by DeviceOffset.            *)
(***************************************************************************)
EXTENDS Integers

CONSTANTS
    HoursPerDay,
    DeviceOffset,  \* hours between the device's zone and Seoul
    MaxTime        \* bound: the clock stops here

ASSUME DatesAssumption ==
    /\ HoursPerDay \in Nat \ {0}
    /\ MaxTime \in Nat /\ HoursPerDay <= MaxTime
    /\ DeviceOffset \in Int

VARIABLES
    clock,         \* Date(), taken to be right
    createdAt, deadline,   \* of the capsule, fixed
    opened,        \* the server has opened the capsule
    isOpened,      \* the copy of the flag on the phone
    replies,       \* the flags in the answers under way
    zone,          \* time zone of the global dateFormatter
    cell           \* what the cell shows, and since when

dates == <<createdAt, deadline>>
vars == <<clock, dates, opened, isOpened, replies, zone, cell>>

NoCell == [shown |-> FALSE, at |-> 0, light |-> FALSE, status |-> 0, num |-> 0, den |-> 0]

\* status 0 is the text "can be opened", n > 0 is "D-n"; num / den is the bar, and
\* light the lamp of a capsule whose copy is opened.
Cells == [shown: BOOLEAN, at: 0 .. MaxTime, light: BOOLEAN, status: Nat, num: Int, den: Int]

TypeOK ==
    /\ clock \in 0 .. MaxTime
    /\ createdAt \in 0 .. MaxTime /\ deadline \in Int
    /\ opened \in BOOLEAN /\ isOpened \in BOOLEAN
    /\ zone \in {"device", "Seoul"}
    /\ replies \subseteq BOOLEAN
    /\ cell \in Cells

\* The date picker has no minimum: a deadline may lie before the creation.
Init ==
    /\ clock \in 0 .. HoursPerDay /\ createdAt = clock
    /\ deadline \in (createdAt - 2 * HoursPerDay) .. MaxTime
    /\ opened = FALSE /\ isOpened = FALSE /\ replies = {}
    /\ zone = "device" /\ cell = NoCell

---------------------------------------------------------------------------
(* TimeCapsulePreview. *)

\* Mutant: the number of days without its sign.
DaysAbs(from, to) ==
    IF to >= from THEN (to - from) \div HoursPerDay ELSE (from - to) \div HoursPerDay

\* Calendar.dateComponents([.day], from:to:) drops the incomplete day, so it
\* rounds towards zero on both sides.
Days(from, to) ==
    IF to >= from THEN (to - from) \div HoursPerDay ELSE -((from - to) \div HoursPerDay)

\* deadlineDate, parsed in the zone that the formatter has now.
DeadlineDate(z) == deadline + (IF z = "Seoul" THEN 0 ELSE DeviceOffset)

D_Day(z) ==
    LET dDay == Days(clock, DeadlineDate(z))
    IN  IF dDay + 1 > 0 THEN dDay + 1 ELSE 0

\* Mutant: the day that has begun is counted twice.
ProgressAhead ==
    LET total   == Days(createdAt, DeadlineDate("Seoul"))
        elapsed == Days(createdAt, clock)
    IN  IF total = 0 THEN <<1, 1>> ELSE <<elapsed + 2, total + 1>>

\* progress reads createdDate first, so that the formatter is set to Seoul when
\* deadlineDate is read.  Float division: the denominator may be 0.
Progress ==
    LET total   == Days(createdAt, DeadlineDate("Seoul"))
        elapsed == Days(createdAt, clock)
    IN  IF total = 0 THEN <<1, 1>> ELSE <<elapsed + 1, total + 1>>

---------------------------------------------------------------------------
(* The cell. *)

\* Mutant: the status is computed before the progress.
ConfigurationStatusFirst ==
    /\ zone' = "Seoul"
    /\ cell' = [shown |-> TRUE, at |-> clock, light |-> isOpened,
                status |-> IF isOpened THEN 0 ELSE D_Day(zone),
                num |-> IF isOpened THEN 1 ELSE Progress[1],
                den |-> IF isOpened THEN 1 ELSE Progress[2]]
    /\ UNCHANGED <<clock, dates, opened, isOpened, replies>>

\* configuration: the progress is computed in any case and before the status.
Configuration ==
    /\ zone' = "Seoul"
    /\ cell' = [shown |-> TRUE, at |-> clock, light |-> isOpened,
                status |-> IF isOpened THEN 0 ELSE D_Day(zone'),
                num |-> IF isOpened THEN 1 ELSE Progress[1],
                den |-> IF isOpened THEN 1 ELSE Progress[2]]
    /\ UNCHANGED <<clock, dates, opened, isOpened, replies>>

\* sortByCreatedDateAsc and -Desc read createdDate of the capsules; the sorts
\* by deadline leave the formatter's zone as it is.
SortByCreatedDate ==
    /\ zone' = "Seoul"
    /\ UNCHANGED <<clock, dates, opened, isOpened, replies, cell>>

---------------------------------------------------------------------------
(* The surroundings. *)

Tick ==
    /\ clock < MaxTime
    /\ clock' = clock + 1
    /\ UNCHANGED <<dates, opened, isOpened, replies, zone, cell>>

\* The server opens a capsule some time after its deadline.
ServerOpens ==
    /\ ~opened /\ clock >= deadline
    /\ opened' = TRUE
    /\ UNCHANGED <<clock, dates, isOpened, replies, zone, cell>>

\* The server answers one of the fetches of the home screen.
ServerAnswers ==
    /\ replies' = replies \cup {opened}
    /\ UNCHANGED <<clock, dates, opened, isOpened, zone, cell>>

\* An answer replaces the copy on the phone, whichever was given first.  Others
\* with the same flag may still be under way.
CopyArrives ==
    /\ \E flag \in replies :
         /\ isOpened' = flag
         /\ replies' \in {replies, replies \ {flag}}
    /\ UNCHANGED <<clock, dates, opened, zone, cell>>

\* The process starts again, with a new formatter and, before any cell is
\* configured, new copies of the capsules.
Relaunch ==
    /\ zone' = "device" /\ cell' = NoCell /\ isOpened' = opened /\ replies' = {}
    /\ UNCHANGED <<clock, dates, opened>>

Next ==
    \/ Configuration \/ SortByCreatedDate
    \/ Tick \/ ServerOpens \/ ServerAnswers \/ CopyArrives \/ Relaunch

Spec == Init /\ [][Next]_vars

---------------------------------------------------------------------------
(* Properties. *)

\* When the cell was configured, "can be opened" was true, and "D-n" meant
\* fewer than n days and, but for the last one, at least n - 1: in any zone, and
\* whether or not something was sorted before.  "D-1" may also be overdue by
\* less than a day.
StatusIsTrue ==
    LET left == deadline - cell.at
    IN  cell.shown => \/ cell.status = 0 /\ left <= 0
                      \/ /\ cell.status > 0
                         /\ left < cell.status * HoursPerDay
                         /\ left > (cell.status - 2) * HoursPerDay
                         /\ cell.status > 1 => left >= (cell.status - 1) * HoursPerDay

\* The bar, which the progress view cuts off at 1.
BarIsFull == (cell.den > 0 /\ cell.num >= cell.den) \/ (cell.den = 0 /\ cell.num > 0)

\* The bar is full only when less than a day is left, also for a deadline on
\* the day of creation or before it, where the division is by zero; and it is
\* never empty while the deadline of a capsule is ahead.
BarIsTrue ==
    cell.shown => /\ BarIsFull => deadline - cell.at < HoursPerDay
                  /\ cell.at < deadline => cell.den > 0 /\ cell.num > 0

\* The cell has lost its lamp: an answer given before the capsule was opened has
\* come after a newer one.
LampGoesOut == cell.light /\ ~cell'.light

\* A cell that is configured again does not count up, but for an answer given
\* before the capsule was opened and applied after a newer one: then "can be
\* opened" may become "D-1" again, and never more than that, because what has
\* been open is past its deadline.  While the deadline is ahead the bar does not
\* shrink.
NeverBackwards ==
    [][cell.shown /\ cell'.shown =>
          /\ cell'.status <= cell.status \/ (LampGoesOut /\ cell'.status = 1)
          /\ cell'.at < deadline => cell'.num * cell.den >= cell.num * cell'.den]_vars
=============================================================================
