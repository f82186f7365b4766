--------------------------------- MODULE Sums ---------------------------------
(* The sum a query makes of its rows, one after the other. *)
EXTENDS Integers, Sequences

SumAt(n, upTo, amounts) == IF n = 0 THEN 0 ELSE upTo[n - 1] + amounts[n]

Total(amounts) ==
    LET upTo[n \in 0..Len(amounts)] == SumAt(n, upTo, amounts) IN upTo[Len(amounts)]
===============================================================================
