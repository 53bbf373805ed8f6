----------------------------- MODULE CronParse -----------------------------
(***************************************************************************)
(* The fields of a cron specification and what queue/cron.go makes of      *)
(* them.  The text of a field is given as its splits: a sequence of the    *)
(* parts between "/", each a sequence of the parts between "-", each a     *)
(* sequence of the atoms between ",".  Every text has exactly one such     *)
(* form.  The set of values of a field is {} when the text is rejected: no *)
(* accepted text has an empty one.                                         *)
(***************************************************************************)
EXTENDS Integers, Sequences

CONSTANT IntMax  \* the largest int, 2^63 - 1 in the program

ASSUME IntMaxAssumption == IntMax \in Nat \ {0}

Wrap(x) == ((x + IntMax + 1) % (2 * IntMax + 2)) - IntMax - 1

(* Atoms: a number, the name of a month or a day, "*", "?", or anything    *)
(* else, the empty string among them.                                      *)
Num(n)   == [is |-> "number", n |-> n]
Named(n) == [is |-> "name", n |-> n]
Star     == [is |-> "*", n |-> 0]
Question == [is |-> "?", n |-> 0]
Junk     == [is |-> "junk", n |-> 0]

(* Splitting a string gives one part at least. *)
IsText(text) ==
  /\ text \in Seq(Seq(Seq([is : {"number", "name", "*", "?", "junk"}, n : Int]))) \ {<<>>}
  /\ \A i \in DOMAIN text : text[i] # <<>> /\ \A j \in DOMAIN text[i] : text[i][j] # <<>>

(* The text of one atom, of a range, and of a step over a range or an atom *)
Single(a)     == << << <<a>> >> >>
List(s)       == << << s >> >>
FromTo(a, b)  == << << <<a>>, <<b>> >> >>
Step(text, n) == << text[1], << <<n>> >> >>

(* The fields of ParseCronSpec: seconds and minutes, hours, days, months,  *)
(* days of the week.                                                       *)
Field(low, high, question, names) ==
  [low |-> low, high |-> high, question |-> question, names |-> names]

(* Does Atoi accept a part, after normalizeFieldNames? *)
IsInt(f, part) ==
  /\ Len(part) = 1 /\ part[1].n \in 0 .. IntMax
  /\ part[1].is = "number" \/ (part[1].is = "name" /\ f.names)

InField(f, part) == IsInt(f, part) /\ part[1].n \in f.low .. f.high

IsStar(part) == part = <<Star>>

(* Mutant of Values: the loop stops before its end. *)
ValuesBefore(start, end, step) ==
  LET i(k) == Wrap(start + k * step) IN
  {i(k) : k \in {n \in 0 .. 2 * IntMax + 1 : \A m \in 0 .. n : i(m) < end}}

(* for i := start; i <= end; i += step.  An int has 2 * IntMax + 2 values, *)
(* so later rounds bring nothing new.                                      *)
Values(start, end, step) ==
  LET i(k) == Wrap(start + k * step) IN
  {i(k) : k \in {n \in 0 .. 2 * IntMax + 1 : \A m \in 0 .. n : i(m) <= end}}

parseRangeField(f, parts, step) ==
  IF Len(parts) = 2 /\ InField(f, parts[1]) /\ InField(f, parts[2]) /\ parts[1][1].n <= parts[2][1].n
    THEN Values(parts[1][1].n, parts[2][1].n, step)
    ELSE {}

parseListField(f, part) ==
  IF \A i \in DOMAIN part : InField(f, <<part[i]>>) THEN {part[i].n : i \in DOMAIN part} ELSE {}

parseStepField(f, text) ==
  IF Len(text) # 2 \/ Len(text[2]) # 1 \/ ~IsInt(f, text[2][1]) \/ text[2][1][1].n = 0 THEN {}
  ELSE LET step == text[2][1][1].n
           parts == text[1] IN
       IF Len(parts) > 1 THEN parseRangeField(f, parts, step)
       ELSE IF IsStar(parts[1]) THEN Values(f.low, f.high, step)
       ELSE IF InField(f, parts[1]) THEN Values(parts[1][1].n, f.high, step) ELSE {}

parseCronField(f, text) ==
  IF text = Single(Star) \/ (f.question /\ text = Single(Question)) THEN Values(f.low, f.high, 1)
  ELSE IF Len(text) > 1 THEN parseStepField(f, text)
  ELSE IF Len(text[1]) > 1 THEN parseRangeField(f, text[1], 1)
  ELSE parseListField(f, text[1][1])

-----------------------------------------------------------------------------
(* The reference: the values of a field that a text stands for, or {}. *)

WellFormed(f, text) ==
  \/ text = Single(Star)
  \/ f.question /\ text = Single(Question)
  \/ Len(text) = 1 /\ Len(text[1]) = 1 /\ \A i \in DOMAIN text[1][1] : InField(f, <<text[1][1][i]>>)
  \/ /\ Len(text) \in {1, 2}
     /\ Len(text) = 2 => Len(text[2]) = 1 /\ IsInt(f, text[2][1]) /\ text[2][1][1].n > 0
     /\ \/ Len(text[1]) = 2 /\ (\A i \in {1, 2} : InField(f, text[1][i])) /\ text[1][1][1].n <= text[1][2][1].n
        \/ Len(text) = 2 /\ Len(text[1]) = 1 /\ (IsStar(text[1][1]) \/ InField(f, text[1][1]))

StepOf(text) == IF Len(text) = 2 THEN text[2][1][1].n ELSE 1

Meaning(f, text) ==
  LET first == text[1][1] IN
  {v \in f.low .. f.high :
     IF Len(text) = 1 /\ Len(text[1]) = 1
       THEN \E i \in DOMAIN first : first[i].is \in {"*", "?"} \/ first[i].n = v
       ELSE LET from == IF IsStar(first) THEN f.low ELSE first[1].n
                to == IF Len(text[1]) = 2 THEN text[1][2][1].n ELSE f.high IN
            v \in from .. to /\ (v - from) % StepOf(text) = 0}
=============================================================================
