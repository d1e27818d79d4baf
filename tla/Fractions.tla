------------------------------- MODULE Fractions -------------------------------
(***************************************************************************)
(* Amounts of money are fractions <<n, d>>, in lowest terms: what a mean   *)
(* divides must not be rounded (the code computes with twenty digits).  Of *)
(* several providers' values the price is the middle one                   *)
(* (api/src/domain/market.ts).                                             *)
(***************************************************************************)
EXTENDS Integers, FiniteSets, FiniteSetsExt

None == <<>> \* an amount that is null

Divisor(n, d) == Max({k \in 1 .. d : n % k = 0 /\ d % k = 0})
Reduced(n, d) == <<n \div Divisor(n, d), d \div Divisor(n, d)>>

Whole(n) == <<n, 1>>
Plus(x, y) == Reduced(x[1] * y[2] + y[1] * x[2], x[2] * y[2])
Minus(x, y) == Plus(x, <<-y[1], y[2]>>)
Times(x, y) == Reduced(x[1] * y[1], x[2] * y[2])
Over(x, y) == Reduced(x[1] * y[2], x[2] * y[1]) \* of positive fractions
Less(x, y) == x[1] * y[2] < y[1] * x[2]
Total(f, S) == FoldSet(LAMBDA i, sum : Plus(sum, f[i]), Whole(0), S)

-----------------------------------------------------------------------------
(* Several providers' values of one moment. *)

\* The k-th value of observations from below.
Nth(S, k) ==
  CHOOSE v \in {o.value : o \in S} :
    /\ Cardinality({o \in S : Less(o.value, v)}) < k
    /\ Cardinality({o \in S : ~ Less(v, o.value)}) >= k

Median(S) ==
  LET middle == Cardinality(S) \div 2
  IN IF Cardinality(S) % 2 = 1 THEN Nth(S, middle + 1)
     ELSE Over(Plus(Nth(S, middle), Nth(S, middle + 1)), Whole(2))

\* What a provider reports itself goes before what was derived from another quote.
Preferred(observations) ==
  LET native == {o \in observations : o.kind = "native"}
  IN IF native # {} THEN native ELSE observations

Combined(observations) ==
  IF observations = {} THEN None ELSE Median(Preferred(observations))

=============================================================================
