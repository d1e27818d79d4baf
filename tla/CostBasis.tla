------------------------------- MODULE CostBasis -------------------------------
(***************************************************************************)
(* The cost basis of a history (api/src/domain/cost-basis.ts).             *)
(*                                                                         *)
(* An event brings a quantity in or takes it out.  A calculation goes      *)
(* through the events in the order of time, and what it says is            *)
(*   lots, by what they go by: [asset, remaining, known, basis], and       *)
(*   out, by the event that took it out: what was told of it.              *)
(***************************************************************************)
EXTENDS Fractions, Folds, Functions

-----------------------------------------------------------------------------
(* Events: [id, asset, at, type, quantity, value, fee], of which value may be None. *)

ComesIn(e) == e.type \in {"acquisition", "reward", "internal_in"}
Cost(e) == IF e.value = None THEN None ELSE Plus(e.value, e.fee)
Proceeds(e) == IF e.value = None THEN None ELSE Minus(e.value, e.fee)

Later(e, f) == e.at > f.at \/ (e.at = f.at /\ e.id > f.id)
Last(S) == CHOOSE e \in S : \A f \in S \ {e} : Later(e, f)

\* The events in their order: what the last one makes of what the others left.
Through(Step(_, _), start, events) ==
  MapThenFoldSet(Step, start, LAMBDA e : e, Last, events)

NoneOut == [e \in {} |-> None]

Put(f, x, y) == [k \in DOMAIN f \cup {x} |-> IF k = x THEN y ELSE f[k]]

\* A gain is told only of a quantity whose whole basis is known.
Disposition(e, basis, unknown, taken) ==
  [quantity |-> e.quantity, basis |-> basis, unknown |-> unknown, taken |-> taken,
   gain |-> IF Proceeds(e) # None /\ unknown = Whole(0)
            THEN Minus(Proceeds(e), basis) ELSE None]

-----------------------------------------------------------------------------
(* The average cost. *)

NoHolding == [quantity |-> Whole(0), known |-> Whole(0), basis |-> Whole(0)]

AverageIn(h, e) ==
  IF Cost(e) = None
  THEN [h EXCEPT !.quantity = Plus(@, Whole(e.quantity))]
  ELSE [quantity |-> Plus(h.quantity, Whole(e.quantity)),
        known |-> Plus(h.known, Whole(e.quantity)),
        basis |-> Plus(h.basis, Cost(e))]

\* What goes out takes its share of the part whose cost is known.
AverageTaken(h, e) ==
  LET share == IF h.quantity = Whole(0) THEN Whole(0)
               ELSE Over(Times(Whole(e.quantity), h.known), h.quantity)
  IN IF Less(share, h.known) THEN share ELSE h.known

AverageBasis(h, taken) ==
  IF h.known = Whole(0) THEN Whole(0) ELSE Over(Times(taken, h.basis), h.known)

\* Mutant: the cost stays when the quantity goes.
AverageOutCostly(h, e) ==
  LET taken == AverageTaken(h, e)
  IN [quantity |-> IF Less(h.quantity, Whole(e.quantity)) THEN Whole(0)
                   ELSE Minus(h.quantity, Whole(e.quantity)),
      known |-> Minus(h.known, taken),
      basis |-> h.basis]

AverageOut(h, e) ==
  LET taken == AverageTaken(h, e)
  IN [quantity |-> IF Less(h.quantity, Whole(e.quantity)) THEN Whole(0)
                   ELSE Minus(h.quantity, Whole(e.quantity)),
      known |-> Minus(h.known, taken),
      basis |-> Minus(h.basis, AverageBasis(h, taken))]

AverageStep(e, state) ==
  LET h == state.held[e.asset]
      taken == AverageTaken(h, e)
  IN IF ComesIn(e) THEN [state EXCEPT !.held[e.asset] = AverageIn(h, e)]
     ELSE [held |-> [state.held EXCEPT ![e.asset] = AverageOut(h, e)],
           out |-> Put(state.out, e, Disposition(e, AverageBasis(h, taken),
                                                 Minus(Whole(e.quantity), taken), taken))]

\* A lot of each asset.
Average(events, assets) ==
  LET end == Through(AverageStep, [held |-> [a \in assets |-> NoHolding], out |-> NoneOut], events)
  IN [out |-> end.out,
      lots |-> [a \in {e.asset : e \in events} |->
                  [asset |-> a, remaining |-> end.held[a].quantity,
                   known |-> end.held[a].known, basis |-> end.held[a].basis]]]

-----------------------------------------------------------------------------
(* First in first out, last in first out: what is left of each event that   *)
(* brought something in.                                                    *)

\* Does what e brought go out before what f did?  Of one time the earlier goes first.
Before(method, e, f) ==
  e.asset = f.asset /\ IF method = "lifo" /\ e.at # f.at THEN e.at > f.at ELSE Later(f, e)

\* How much of each lot the event takes.
LotsTaken(method, left, e) ==
  [l \in DOMAIN left |->
    LET before == {m \in DOMAIN left : Before(method, m, l)}
        wanted == e.quantity - SumFunctionOnSet(left, before)
    IN IF l.asset # e.asset \/ wanted <= 0 THEN 0
       ELSE IF wanted < left[l] THEN wanted ELSE left[l]]

PartOf(l, quantity) ==
  IF Cost(l) = None THEN Whole(0) ELSE Times(Cost(l), <<quantity, l.quantity>>)

LotStep(method, e, state) ==
  LET taken == LotsTaken(method, state.left, e)
      known == {l \in DOMAIN taken : ComesIn(l) /\ Cost(l) # None}
      sold == SumFunctionOnSet(taken, known)
      basis == Total([l \in known |-> PartOf(l, taken[l])], known)
  IN IF ComesIn(e) THEN [state EXCEPT !.left[e] = e.quantity]
     ELSE [left |-> [l \in DOMAIN taken |-> state.left[l] - taken[l]],
           out |-> Put(state.out, e,
                       Disposition(e, basis, Whole(e.quantity - sold), Whole(sold)))]

Lots(method, events) ==
  LET end == Through(LAMBDA e, state : LotStep(method, e, state),
                     [left |-> [e \in events |-> 0], out |-> NoneOut], events)
  IN [out |-> end.out,
      lots |-> [l \in {e \in events : end.left[e] > 0} |->
                  [asset |-> l.asset, remaining |-> Whole(end.left[l]),
                   known |-> Whole(IF Cost(l) = None THEN 0 ELSE end.left[l]),
                   basis |-> PartOf(l, end.left[l])]]]

Method == {"acb", "fifo", "lifo"}

CalculateCostBasis(method, events, assets) ==
  IF method = "acb" THEN Average(events, assets) ELSE Lots(method, events)

-----------------------------------------------------------------------------
(* What every calculation keeps, whatever the method: nothing of what came  *)
(* in is lost or counted twice, neither the quantity nor what it cost.      *)

LotsOf(result, a) == {l \in DOMAIN result.lots : result.lots[l].asset = a}
OutOf(result, a) == {e \in DOMAIN result.out : e.asset = a}
KnownOf(events, a) == {e \in events : e.asset = a /\ ComesIn(e) /\ Cost(e) # None}

KeepsBasis(result, events, a) ==
  LET lots == LotsOf(result, a)
      out == OutOf(result, a)
      known == KnownOf(events, a)
  IN /\ Plus(Total([l \in lots |-> result.lots[l].basis], lots),
             Total([e \in out |-> result.out[e].basis], out))
          = Total([e \in known |-> Cost(e)], known)
     /\ Plus(Total([l \in lots |-> result.lots[l].known], lots),
             Total([e \in out |-> result.out[e].taken], out))
          = Total([e \in known |-> Whole(e.quantity)], known)

\* What is there of an asset after `from`, had there been nothing before.
Net(events, a, from) ==
  LET after == {e \in events : e.asset = a /\ ~ Later(from, e)}
  IN SumFunctionOnSet([e \in after |-> IF ComesIn(e) THEN e.quantity ELSE -e.quantity], after)

\* What came in and did not go out again.
Left(events, a) == Max({0} \cup {Net(events, a, e) : e \in {f \in events : f.asset = a}})

LeavesWhatIsLeft(result, events, a) ==
  LET lots == LotsOf(result, a)
  IN Total([l \in lots |-> result.lots[l].remaining], lots) = Whole(Left(events, a))

=============================================================================
