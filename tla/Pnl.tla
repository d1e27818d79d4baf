---------------------------------- MODULE Pnl ----------------------------------
(***************************************************************************)
(* The profit and loss of the account at Kraken (KrakenService.pnl and     *)
(* historicalPrice, api/src/services/kraken.ts), by CostBasis.             *)
(*                                                                         *)
(* A calculation reads the trades, then the other entries with the         *)
(* deposits that Transfers found to be the owner's own, then a price at a  *)
(* time, while imports and the price history go on.  What it was made of   *)
(* and what is left is kept as a run, which the same question finds again. *)
(*                                                                         *)
(* Five minutes are Share units of time; prices are stored for whole such  *)
(* periods.                                                                *)
(***************************************************************************)
EXTENDS CostBasis

CONSTANTS
  Asset,     \* canonical assets
  Trade,     \* kraken_trades: [id, at, asset, side, quantity, cost, fee, quote]
  Entry,     \* kraken_ledgers: [id, at, asset, type, quantity]
  Point,     \* market_points: [at, provider, asset, quote, kind, value]
  Currency,  \* what may be the primary currency
  Default,   \* what it is at first
  Share,     \* the period that shares a price
  Week,      \* how old a price may be
  MaxCalls   \* bound: calculations and changes of the currency

\* What is imported moves something, and has a Kraken identifier of its own.
ASSUME PnlAssumptions ==
  /\ Share \in Nat \ {0} /\ Week \in Nat /\ MaxCalls \in Nat /\ Default \in Currency
  /\ \A p \in Point : p.at % Share = 0 /\ p.value \in Nat
  /\ \A x \in Trade \cup Entry :
       x.id \in Int /\ x.at \in Int /\ x.asset \in Asset /\ x.quantity \in Nat \ {0}
  /\ Trade \cap Entry = {} /\ \A x, y \in Trade \cup Entry : x.id = y.id => x = y
  /\ \A t \in Trade : t.side \in {"buy", "sell"} /\ t.cost \in Nat /\ t.fee \in Nat

VARIABLES
  trades, entries, \* what has been imported from Kraken
  marketPoints, \* the prices stored
  currency,  \* the primary currency
  pnl,       \* a calculation under way, and what it has read
  answer,    \* the newest answer, if any
  runs,      \* calculation_runs with their cost_basis_lots
  calls      \* count for the bound

stored == <<trades, entries, marketPoints, currency>>
pnlVars == <<stored, pnl, answer, runs, calls>>

NoPnl == [at |-> "idle", method |-> "", currency |-> "", trades |-> {},
          entries |-> {}, exact |-> {}, prices |-> [p \in {} |-> None]]

PnlInit ==
  /\ trades = {} /\ entries = {} /\ marketPoints = {} /\ currency = Default
  /\ pnl = NoPnl /\ answer = {} /\ runs = {} /\ calls = 0

-----------------------------------------------------------------------------
(* What is stored. *)

ImportTrade ==
  /\ \E t \in Trade \ trades : trades' = trades \cup {t}
  /\ UNCHANGED <<entries, marketPoints, currency, pnl, answer, runs, calls>>

ImportEntry ==
  /\ \E l \in Entry \ entries : entries' = entries \cup {l}
  /\ UNCHANGED <<trades, marketPoints, currency, pnl, answer, runs, calls>>

StorePrice ==
  /\ \E p \in Point \ marketPoints : marketPoints' = marketPoints \cup {p}
  /\ UNCHANGED <<trades, entries, currency, pnl, answer, runs, calls>>

ChooseCurrency ==
  /\ calls < MaxCalls /\ calls' = calls + 1
  /\ \E c \in Currency \ {currency} : currency' = c
  /\ UNCHANGED <<trades, entries, marketPoints, pnl, answer, runs>>

-----------------------------------------------------------------------------
(* A calculation. *)

StartPnl ==
  /\ pnl.at = "idle" /\ calls < MaxCalls /\ calls' = calls + 1
  /\ \E m \in Method :
       pnl' = [NoPnl EXCEPT !.at = "trades", !.method = m, !.currency = currency,
                            !.trades = trades]
  /\ UNCHANGED <<stored, answer, runs>>

\* The other entries that count, some of the deposits with an exact match.
ReadEntries ==
  /\ pnl.at = "trades"
  /\ \E exact \in SUBSET {l \in entries : l.type = "deposit"} :
       pnl' = [pnl EXCEPT !.at = "prices", !.entries = entries, !.exact = exact]
  /\ UNCHANGED <<stored, answer, runs, calls>>

Reward(l) == l.type \in {"staking", "earn", "reward"}

\* What needs a price: trades against another currency, and rewards.
Estimated ==
  {t \in pnl.trades : t.quote # pnl.currency} \cup {l \in pnl.entries : Reward(l)}
Period(x) == <<x.asset, x.at \div Share>>

\* The newest period of the week before; of a provider, native goes before derived.
NewestPrices(asset, at) ==
  LET old == {p \in marketPoints : /\ p.asset = asset /\ p.quote = pnl.currency
                             /\ p.at <= at /\ p.at >= at - Week}
      newest == {p \in old : \A q \in old : q.at <= p.at}
  IN {p \in newest : \A q \in newest : q.provider = p.provider /\ q.kind = "native"
                                         => p.kind = "native"}

\* Of two rows of one provider the database may give either first.
OneOfProvider(rows) ==
  {S \in SUBSET rows : \A p \in rows : Cardinality({q \in S : q.provider = p.provider}) = 1}

\* Trades go before the other entries, in the order of time.
First(S) ==
  CHOOSE x \in S : \A y \in S \ {x} :
    IF (x \in Trade) = (y \in Trade) THEN x.at < y.at \/ (x.at = y.at /\ x.id < y.id)
    ELSE x \in Trade

\* A period's price is asked for once.
PriceNext ==
  LET open == {x \in Estimated : Period(x) \notin DOMAIN pnl.prices}
      x == First(open)
  IN /\ pnl.at = "prices" /\ open # {}
     /\ \E S \in OneOfProvider(NewestPrices(x.asset, x.at)) :
          LET price == IF x.asset = pnl.currency THEN Whole(1)
                       ELSE Combined({[p EXCEPT !.value = Whole(@)] : p \in S})
          IN pnl' = [pnl EXCEPT !.prices = Put(@, Period(x), price)]
     /\ UNCHANGED <<stored, answer, runs, calls>>

Worth(x) == LET price == pnl.prices[Period(x)]
            IN IF price = None THEN None ELSE Times(Whole(x.quantity), price)

\* The fee of a trade against another currency is converted like its cost.
FeeWorth(t) ==
  IF t.quote = pnl.currency THEN Whole(t.fee)
  ELSE IF Worth(t) # None /\ t.cost # 0 THEN Over(Times(Whole(t.fee), Worth(t)), Whole(t.cost))
  ELSE Whole(0)

TradeEvent(t) ==
  [id |-> t.id, asset |-> t.asset, at |-> t.at, quantity |-> t.quantity,
   type |-> IF t.side = "buy" THEN "acquisition" ELSE "disposition",
   value |-> IF t.quote = pnl.currency THEN Whole(t.cost) ELSE Worth(t),
   fee |-> FeeWorth(t)]

LedgerEvent(l) ==
  [id |-> l.id, asset |-> l.asset, at |-> l.at, quantity |-> l.quantity,
   type |-> IF l.type = "withdrawal" THEN "internal_out"
            ELSE IF l \in pnl.exact THEN "internal_in"
            ELSE IF Reward(l) THEN "reward" ELSE "acquisition",
   value |-> IF Reward(l) THEN Worth(l) ELSE None,
   fee |-> Whole(0)]

BasisEvents == {TradeEvent(t) : t \in pnl.trades} \cup {LedgerEvent(l) : l \in pnl.entries}

\* Mutant: the method is no part of the question.
ReusableOfEvents(run, events) == run.events = events /\ run.currency = pnl.currency

\* A run of the same events, method and currency is used again.
Reusable(run, events) ==
  run.events = events /\ run.method = pnl.method /\ run.currency = pnl.currency

Answer ==
  /\ pnl.at = "prices" /\ \A x \in Estimated : Period(x) \in DOMAIN pnl.prices
  /\ LET result == CalculateCostBasis(pnl.method, BasisEvents, Asset)
         old == {r \in runs : Reusable(r, BasisEvents)}
         run == IF old # {} THEN CHOOSE r \in old : TRUE
                ELSE [events |-> BasisEvents, method |-> pnl.method,
                      currency |-> pnl.currency, lots |-> result.lots]
     IN /\ runs' = runs \cup {run}
        /\ answer' = {[method |-> pnl.method, currency |-> pnl.currency,
                       lots |-> result.lots, run |-> run]}
  /\ pnl' = NoPnl
  /\ UNCHANGED <<stored, calls>>

PnlNext ==
  \/ ImportTrade \/ ImportEntry \/ StorePrice \/ ChooseCurrency
  \/ StartPnl \/ ReadEntries \/ PriceNext \/ Answer

PnlSpec == PnlInit /\ [][PnlNext]_pnlVars

-----------------------------------------------------------------------------

\* What a calculation says is left agrees with the history it was made of.  The
\* three methods leave the same quantity, which is what came in and did not go
\* out again (what goes out beyond what there was is owed by nobody); and what
\* they leave and what they took out together cost what was paid for all
\* (cost-basis.ts, docs/spec.md:1651).
Balanced ==
  \A told \in answer, a \in Asset :
    LET result == CalculateCostBasis(told.method, told.run.events, Asset)
    IN KeepsBasis(result, told.run.events, a) /\ LeavesWhatIsLeft(result, told.run.events, a)

\* The stored run an answer names explains that answer.
RunExplains ==
  \A told \in answer :
    /\ told.run \in runs /\ told.run.lots = told.lots
    /\ told.run.method = told.method /\ told.run.currency = told.currency

\* What the calculation owes: Balanced and RunExplains.
Explained == Balanced /\ RunExplains

=============================================================================
