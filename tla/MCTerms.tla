------------------------------- MODULE MCTerms -------------------------------
(***************************************************************************)
(* An instance of Terms for TLC: the days on which months of different     *)
(* lengths meet.                                                           *)
(***************************************************************************)
EXTENDS Terms, TLC

On(m, d) == [month |-> m, day |-> d]

\* The 31st of December, from which two months lead into February, the last
\* days of January, and a day that every month has.
MonthEnds == {On(11, 31), On(12, 30), On(12, 31), On(12, 15)}

=============================================================================
