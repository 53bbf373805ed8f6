----------------------------- MODULE CronNext -----------------------------
(***************************************************************************)
(* ParseCronSpec and calculateNextCronRun of queue/cron.go.                *)
(*                                                                         *)
(* A time is a function from the units 0 (year), 1 (month), 2 (day),       *)
(* 3 (hour), 4 (minute) and, in a specification of six fields, 5 (second). *)
(* The five nested loops of the search have one shape, so one pair of      *)
(* actions stands for all of them: Enter(l) finds the first value of unit  *)
(* l under the values chosen for the units above it, Advance(l) the next   *)
(* one, and either goes back to unit l - 1 when there is none.             *)
(***************************************************************************)
EXTENDS CronParse

CONSTANTS
  Inputs,     \* the pairs of a specification and a time to search from
  UnitField,  \* UnitField[u]: low, high and syntax of unit u; its field
  DowField,   \* the same for the field of the days of the week
  MonthDays, LeapMonth, IsLeap(_),  \* the calendar: days by month, leap years
  Weekday(_, _, _),  \* day of the week of a date
  Limit,      \* years searched beyond the first, 4 in the program
  Times       \* the times the properties are about

Units == 0 .. 5

ASSUME CronAssumption ==
  /\ MonthDays \in Seq(Nat) /\ MonthDays # <<>>
  /\ Limit \in Nat /\ Times \subseteq [Units -> Int]
  /\ \A f \in {UnitField[u] : u \in 1 .. 5} \cup {DowField} : f.high \in 0 .. IntMax /\ f.low \in 0 .. f.high
  /\ \A p \in Inputs : /\ p.unit \in 4 .. 5 /\ p.from \in [Units -> Int]
                       /\ \A u \in (1 .. p.unit) \cup {6} : IsText(p.text[u])

(* The number of days in a month.  time.Date carries a month outside the   *)
(* year, which only an overflowing field names, into another year.         *)
DaysIn(y, m) ==
  LET n == Len(MonthDays)
      year == y + ((m - 1) \div n)
      month == 1 + ((m - 1) % n)
  IN  IF month = LeapMonth /\ IsLeap(year) THEN MonthDays[month] + 1 ELSE MonthDays[month]

VARIABLES
  input,   \* the specification and the time t
  fields,  \* the values of the units 1 to 5, sets of numbers
  dow,     \* the values of the days of the week
  cur,     \* year, month, day, hour, minute, second of the search
  at, unit \* where it is: "parse", "enter" unit, "advance" unit, "found",
           \* "none", "rejected"

cronVars == <<input, fields, dow, cur, at, unit>>

t == input.from
last == input.unit

(* The texts of a specification by unit; the days of the week are text 6,  *)
(* and text 5 is not there in a specification of five fields.              *)
CronInit ==
  /\ input \in Inputs
  /\ fields = [u \in 1 .. 5 |-> {}] /\ dow = {}
  /\ cur = input.from
  /\ at = "parse" /\ unit = 1

ParseCronSpec ==
  /\ at = "parse"
  /\ fields' = [u \in 1 .. 5 |-> IF u <= last THEN parseCronField(UnitField[u], input.text[u]) ELSE {}]
  /\ dow' = parseCronField(DowField, input.text[6])
  /\ at' = IF dow' = {} \/ \E u \in 1 .. last : fields'[u] = {} THEN "rejected" ELSE "enter"
  /\ UNCHANGED <<input, cur, unit>>

-----------------------------------------------------------------------------
(* The first value of a field that is at least v: findNextValidValue *)
IsNext(u, v, w) == w \in fields[u] /\ w >= v /\ \A x \in fields[u] : x >= v => w <= x

NoNext(u, v) == \A w \in fields[u] : w < v

IsFirst(u, w) == w \in fields[u] /\ \A x \in fields[u] : w <= x

SameSoFar(u) == \A k \in 0 .. u - 1 : cur[k] = t[k]

(* Mutant of StartsAt: the search starts at the value of t in every period. *)
StartsAtAlways(u, v) == v = t[u]

(* Where the search starts in a unit: at the value of t in the period of   *)
(* t, and at the first value of the field in a later one.                  *)
StartsAt(u, v) == IF SameSoFar(u) THEN v = t[u] ELSE IsFirst(u, v)

DayExists(u, w) == u = 2 => w <= DaysIn(cur[0], cur[1])

Goes(place, u) == at' = place /\ unit' = u

(* Unit u gets value w; what is below comes next, or the time is found. *)
Take(u, w) ==
  /\ cur' = [cur EXCEPT ![u] = w]
  /\ IF u = last THEN Goes("found", u) ELSE Goes("enter", u + 1)
  /\ UNCHANGED <<input, fields, dow>>

WrongWeekday(u, w) == u = 2 /\ Weekday(cur[0], cur[1], w) \notin dow

(* Mutant of Choose: the day of the week is not looked at. *)
ChooseAnyWeekday(u, w) == DayExists(u, w) /\ Take(u, w)

(* Unit u gets value w if the day exists; on the wrong day of the week the *)
(* search goes to the next day.                                            *)
Choose(u, w) ==
  /\ DayExists(u, w)
  /\ IF WrongWeekday(u, w)
       THEN /\ cur' = [cur EXCEPT ![u] = w]
            /\ Goes("advance", u)
            /\ UNCHANGED <<input, fields, dow>>
       ELSE Take(u, w)

(* No value from v on, or one past the end of the month. *)
NoneLeft(u, v) == NoNext(u, v) \/ \E w \in fields[u] : IsNext(u, v, w) /\ ~DayExists(u, w)

BackTo(u) == Goes("advance", u) /\ UNCHANGED <<input, fields, dow, cur>>

Enter ==
  /\ at = "enter"
  /\ \E v \in fields[unit] \cup {t[unit]} :
       /\ StartsAt(unit, v)
       /\ \/ \E w \in fields[unit] : IsNext(unit, v, w) /\ Choose(unit, w)
          \/ NoneLeft(unit, v) /\ BackTo(unit - 1)

(* Mutant of After: the search stays where it is. *)
AfterOrAt(u) == cur[u]

After(u) == cur[u] + 1

Advance ==
  /\ at = "advance" /\ unit # 0
  /\ \/ \E w \in fields[unit] : IsNext(unit, After(unit), w) /\ Choose(unit, w)
     \/ NoneLeft(unit, After(unit)) /\ BackTo(unit - 1)

NextYear ==
  /\ at = "advance" /\ unit = 0
  /\ IF cur[0] < t[0] + Limit
       THEN cur' = [cur EXCEPT ![0] = @ + 1] /\ Goes("enter", 1)
       ELSE Goes("none", 0) /\ UNCHANGED cur
  /\ UNCHANGED <<input, fields, dow>>

CronStep == ParseCronSpec \/ Enter \/ Advance \/ NextYear

CronSpec == CronInit /\ [][CronStep]_cronVars

CronFairSpec == CronSpec /\ WF_cronVars(CronStep)

-----------------------------------------------------------------------------
(* The reference *)

(* a is later than b, or the same, as far as unit u. *)
Ahead(a, b, u) == \E k \in 0 .. u : a[k] > b[k] /\ \A i \in 0 .. k - 1 : a[i] = b[i]
Same(a, b, u) == \A i \in 0 .. u : a[i] = b[i]
AtOrAhead(a, b, u) == Ahead(a, b, u) \/ Same(a, b, u)

(* m is a time the specification names, t or later. *)
Matches(m) ==
  /\ \A u \in 1 .. last : m[u] \in fields[u]
  /\ m[2] <= DaysIn(m[0], m[1])
  /\ Weekday(m[0], m[1], m[2]) \in dow
  /\ AtOrAhead(m, t, last)

(* What the search has left behind holds no match: every match agrees with *)
(* the chosen values above the unit being entered or is later, and is      *)
(* later than the value an advance leaves.                                 *)
Reaches(m) ==
  CASE at = "enter" -> AtOrAhead(m, cur, unit - 1)
    [] at = "advance" -> Ahead(m, cur, unit)
    [] at = "found" -> AtOrAhead(m, cur, last)
    [] at = "none" -> m[0] > t[0] + Limit
    [] OTHER -> TRUE

(* For every specification and time: no step of the search passes a time   *)
(* that the specification names (cron.go:337-521 skips whole years,        *)
(* months, days, hours and minutes).  So a time that is found is the first *)
(* one, and failure (cron.go:524) means that there is none in this and the *)
(* next four years.                                                        *)
NothingSkipped == \A m \in Times : Matches(m) => Reaches(m)

(* The time that is returned (cron.go:487, 492) is named by the            *)
(* specification: it is a date of the calendar, on a right day of the      *)
(* week, and not before the time it was asked from.                        *)
FoundMatches == at = "found" => Matches(cur)

(* The search ends (cron.go:334-337, "Limit search to prevent infinite     *)
(* loops").                                                                *)
Terminates == <>(at \in {"found", "none", "rejected"})

TextOf(u) == input.text[u]
FieldOf(u) == IF u = 6 THEN DowField ELSE UnitField[u]
Parsed(u) == IF u = 6 THEN dow ELSE fields[u]
GivenTexts == (1 .. last) \cup {6}

(* A specification is rejected only for a malformed field, and the fields  *)
(* of an accepted one have the values their texts stand for, all within    *)
(* the field's bounds (cron.go:144, 225, 243, 254, 279), provided that no  *)
(* step is so large that the loop counter overflows.                       *)
FieldsMeanTexts ==
  /\ at = "rejected" => \E u \in GivenTexts : ~WellFormed(FieldOf(u), TextOf(u))
  /\ at \notin {"parse", "rejected"} =>
       \A u \in GivenTexts :
         /\ WellFormed(FieldOf(u), TextOf(u))
         /\ StepOf(TextOf(u)) <= IntMax - FieldOf(u).high =>
              Parsed(u) = Meaning(FieldOf(u), TextOf(u))
=============================================================================
