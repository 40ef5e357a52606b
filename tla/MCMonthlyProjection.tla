------------------------ MODULE MCMonthlyProjection -------------------------
(* Small instances of MonthlyProjection for TLC: dates of two years around a  *)
(* leap day, month ends included.                                             *)
EXTENDS MonthlyProjection

Month(year, month) == year * 12 + (month - 1)

DatesOf(first, last, days) ==
  {date \in [index : first..last, day : days] : date.day <= DaysIn(date.index)}

AroundALeapDay == DatesOf(Month(2023, 11), Month(2025, 3), {1, 15, 28, 29, 30, 31})
WithinAYear == DatesOf(Month(2025, 1), Month(2025, 6), {1, 28, 30, 31})

Monthly == {1}
AllRules == {1, 2, 3, 6, 12}
=============================================================================
