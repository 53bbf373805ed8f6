---------------------------- MODULE MCCronNext ----------------------------
(* A small calendar with what makes the real one hard: months of different *)
(* lengths, a leap day every fourth year, and dates whose day of the week  *)
(* moves from year to year.                                                *)
EXTENDS CronNext, TLC

MCUnitField == << Field(1, 2, TRUE, TRUE), Field(1, 3, TRUE, FALSE), Field(0, 1, FALSE, FALSE),
                  Field(0, 2, FALSE, FALSE), Field(0, 1, FALSE, FALSE) >>
MCDowField == Field(0, 2, TRUE, TRUE)
MCMonthDays == <<3, 2>>
MCIsLeap(y) == y % 4 = 0
MCWeekday(y, m, d) == (y + (y \div 4) + 3 * m + d) % 3

Time(y, m, d, h, mi, s) == (0 :> y @@ 1 :> m @@ 2 :> d @@ 3 :> h @@ 4 :> mi @@ 5 :> s)
MCTimes == {Time(y, m, d, h, mi, s) : y \in 1 .. 5, m \in 1 .. 2, d \in 1 .. 3, h \in 0 .. 1, mi \in 0 .. 2, s \in 0 .. 1}

All == Single(Star)
Only(n) == Single(Num(n))

(* Specifications for the search, with and without seconds. *)
SearchTexts ==
  {<<mo, d, h, mi, s, dw>> :
     mo \in {All, Only(1), Only(2)}, d \in {All, Only(1), Only(3), FromTo(Num(2), Num(3))},
     h \in {All, Only(1)}, mi \in {All, Only(1), List(<<Num(2), Num(0)>>)}, s \in {All, Only(0)},
     dw \in {All, Only(1)}}

From == {Time(1, 1, 1, 0, 0, 0), Time(1, 2, 2, 1, 2, 1), Time(1, 1, 3, 1, 1, 1), Time(1, 2, 1, 0, 2, 0)}

(* Texts of a field, well-formed and not. *)
Texts ==
  {Single(a) : a \in {Star, Question, Junk, Named(1), Num(1), Num(3)}}
  \cup {List(<<Num(2), Num(1)>>), List(<<Num(1), Junk>>), List(<<Num(0), Num(3)>>), List(<<Num(1), Star>>)}
  \cup {FromTo(Num(1), Num(2)), FromTo(Num(2), Num(1)), FromTo(Num(0), Num(1)), FromTo(Junk, Num(2)),
        << << <<Num(1)>>, <<Num(1)>>, <<Num(2)>> >> >>, << << <<Num(1)>>, <<Num(1), Num(2)>> >> >>}
  \cup {Step(t1, Num(n)) : t1 \in {All, Only(1), FromTo(Num(1), Num(2)), FromTo(Num(2), Num(1)), Single(Junk)}, n \in 0 .. 2}
  \cup {Step(All, Junk), Step(All, Named(2)), Step(All, Num(1)) \o All}

MCInputs ==
  [text : SearchTexts, unit : {4, 5}, from : From]
  \cup {[text |-> [u \in 1 .. 6 |-> IF u = odd THEN text ELSE All], unit |-> 5, from |-> Time(1, 2, 2, 1, 2, 1)] :
          odd \in {1, 2, 4, 6}, text \in Texts}
=============================================================================
