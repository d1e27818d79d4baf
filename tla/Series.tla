-------------------------------- MODULE Series --------------------------------
(***************************************************************************)
(* What is made of the prices stored: the series of the market graphs      *)
(* (market.ts getSeries, market-aggregation.ts), the prices of the tables  *)
(* (combinedPriceAt), those that value other graphs (chart-values.ts), and *)
(* the graph of the Kraken account (kraken.ts series).                     *)
(*                                                                         *)
(* Time is counted in buckets of the finest granularity, which have one    *)
(* price each: what a provider answers, and what a candle of a coarser     *)
(* granularity is made of.  There is one asset; a series per asset looks   *)
(* at the rows of that asset only.                                         *)
(***************************************************************************)
EXTENDS Fractions

CONSTANTS
  Source,    \* of "coingecko", "coinbase", "kraken"
  Quote,     \* currencies, "USD" among them
  Configured, \* the primary currency before one is chosen
  Course,    \* courses of the prices: functions of <<source, quote, time>>
  Span,      \* granularities
  Coverage,  \* coingecko is asked for both quotes, the others for one: <<source, quote>>
  Near,      \* how old a price may be in a graph
  Far,       \* how old a price may be in a table
  End,       \* bound: the last bucket
  MaxWrites  \* bound: answers stored, retention, snapshots, changes of the currency

\* What has a price: <<source, quote, time>>.
Moments == {<<c[1], c[2], t>> : c \in Coverage, t \in 0 .. End}

ASSUME SeriesAssumptions ==
  /\ Source \subseteq {"coingecko", "coinbase", "kraken"}
  /\ {"USD", Configured} \subseteq Quote /\ Coverage \subseteq Source \X Quote
  /\ Course \subseteq [Moments -> Nat]
  /\ 1 \in Span /\ Span \subseteq Nat \ {0}
  /\ Near \in Nat /\ Far \in Nat /\ Near <= Far
  /\ End \in Nat /\ MaxWrites \in Nat

VARIABLES
  course,   \* what the prices are
  present,  \* the present bucket
  rows,     \* market_points: [provider, quote, start, span, kind, first, last], made of
            \* the prices from `first` to `last`
  snapshot, \* kraken_snapshots: at most one, [at, quote, total, coverage, balances]
  primary,  \* the primary currency
  writes    \* count for the bound

seriesVars == <<course, present, rows, snapshot, primary, writes>>

Time == 0 .. End
BucketOf(t, span) == (t \div span) * span
Lowest(S) == CHOOSE x \in S : \A y \in S : ~ Less(y, x)
Highest(S) == CHOOSE x \in S : \A y \in S : ~ Less(x, y)

SeriesInit ==
  /\ course \in Course /\ present = 0 /\ rows = {} /\ snapshot = {}
  /\ primary = Configured /\ writes = 0

Write == writes < MaxWrites /\ writes' = writes + 1

-----------------------------------------------------------------------------
(* What is stored. *)

Row(source, quote, start, span, first, last) ==
  [provider |-> source, quote |-> quote, start |-> start, span |-> span,
   kind |-> IF source = "coingecko" THEN "derived" ELSE "native",
   first |-> first, last |-> last]

\* Candles are made of the prices of the range that was asked for, those of its first
\* bucket that are older left out.
CoingeckoCandles(quote, from, to, span) ==
  {Row("coingecko", quote, b, span, IF from > b THEN from ELSE b,
       IF to < b + span - 1 THEN to ELSE b + span - 1) :
     b \in {BucketOf(t, span) : t \in from .. to}}

\* Whole candles, but for the one that is not over.
NativeCandles(source, quote, buckets, span) ==
  {Row(source, quote, b, span, b,
       IF present < b + span - 1 THEN present ELSE b + span - 1) : b \in buckets}

CoinbaseCandles(quote, from, to, span) ==
  NativeCandles("coinbase", quote, {BucketOf(t, span) : t \in from .. to}, span)

KrakenCandles(quote, from, span) ==
  NativeCandles("kraken", quote, {b \in from .. present : b = BucketOf(b, span)}, span)

Candles(source, quote, from, to, span) ==
  CASE source = "coingecko" -> CoingeckoCandles(quote, from, to, span)
    [] source = "coinbase"  -> CoinbaseCandles(quote, from, to, span)
    [] source = "kraken"    -> KrakenCandles(quote, from, span)

Key(r) == <<r.provider, r.quote, r.start, r.span>>

\* An answer takes the place of the rows that it has anew.  Ranges end with the present: a
\* window that ends before it stores what an earlier answer would have.
Synchronize ==
  /\ Write
  /\ \E c \in Coverage, span \in Span, from \in 0 .. present :
       LET new == Candles(c[1], c[2], from, present, span)
       IN /\ new # {}
          /\ rows' = {r \in rows : \A n \in new : Key(n) # Key(r)} \cup new
  /\ UNCHANGED <<course, present, snapshot, primary>>

Forget ==
  /\ Write
  /\ \E before \in 1 .. present :
       rows' = {r \in rows : r.start >= before} /\ rows' # rows
  /\ UNCHANGED <<course, present, snapshot, primary>>

Clock ==
  /\ present < End /\ present' = present + 1
  /\ UNCHANGED <<course, rows, snapshot, primary, writes>>

-----------------------------------------------------------------------------
(* The series of a graph, asked for as [source, quote, from, to, requested, *)
(* overview]: the granularity asked for, and that of the answer.            *)

Price(r, t) == Whole(course[<<r.provider, r.quote, t>>])
Prices(r) == {Price(r, t) : t \in r.first .. r.last}

RangeStart(q) == BucketOf(q.from, q.overview)
RangeEnd(q) == BucketOf(q.to, q.overview)

\* Rows that begin in the range, whatever they reach over.
Candidates(q) ==
  {r \in rows : /\ r.start >= RangeStart(q) /\ r.start <= RangeEnd(q)
                /\ q.source = "combined" \/ r.provider \in {q.source, "coingecko"}}

\* Of a provider's rows of one bucket those of one granularity: the coarsest that fits
\* into the bucket, or else the finest that does not.
OverviewRows(q) ==
  LET all == Candidates(q)
      Beside(r) == {x \in all : /\ x.provider = r.provider /\ x.quote = r.quote
                                /\ BucketOf(x.start, q.overview) = BucketOf(r.start, q.overview)}
      Best(spans) == LET fine == {n \in spans : n <= q.overview}
                     IN IF fine # {} THEN Max(fine) ELSE Min(spans)
  IN {r \in all : r.span = Best({x.span : x \in Beside(r)})}

\* One candle of the rows of a provider in a bucket.
Aggregated(q, S) ==
  LET first == CHOOSE r \in S : \A s \in S : r.start <= s.start
      last  == CHOOSE r \in S : \A s \in S : s.start <= r.start
      all   == UNION {Prices(r) : r \in S}
  IN [provider |-> first.provider, quote |-> first.quote,
      bucket |-> BucketOf(first.start, q.overview),
      kind |-> IF S = {first} /\ first.span = q.overview THEN first.kind ELSE "derived",
      open |-> Price(first, first.first), close |-> Price(last, last.last),
      high |-> Highest(all), low |-> Lowest(all), of |-> S]

Aggregates(q) ==
  LET usable == {r \in OverviewRows(q) : r.quote \in {q.quote, "USD"}}
      Alike(r) == {s \in usable : /\ s.provider = r.provider /\ s.quote = r.quote
                                  /\ BucketOf(s.start, q.overview) = BucketOf(r.start, q.overview)}
  IN {Aggregated(q, S) : S \in {Alike(r) : r \in usable}}

\* Mutant: the highest price by the highest rate.
ConvertedByHighs(source, target, bridge) ==
  [source EXCEPT !.quote = target.quote, !.kind = "derived",
                 !.open  = Over(Times(@, target.open), bridge.open),
                 !.high  = Over(Times(@, target.high), bridge.high),
                 !.low   = Over(Times(@, target.low), bridge.low),
                 !.close = Over(Times(@, target.close), bridge.close),
                 !.of = @ \cup target.of \cup bridge.of]

\* A candle in USD in another currency, by what coingecko says of both.
Converted(source, target, bridge) ==
  [source EXCEPT !.quote = target.quote, !.kind = "derived",
                 !.open  = Over(Times(@, target.open), bridge.open),
                 !.high  = Over(Times(@, target.high), bridge.low),
                 !.low   = Over(Times(@, target.low), bridge.high),
                 !.close = Over(Times(@, target.close), bridge.close),
                 !.of = @ \cup target.of \cup bridge.of]

\* What a provider does not have in the currency asked for is converted.
WithFallbacks(q, candles) ==
  LET direct == {c \in candles : c.quote = q.quote}
      Rates(c, quote) == {x \in candles : /\ x.provider = "coingecko" /\ x.quote = quote
                                          /\ x.bucket = c.bucket}
      missing == {c \in candles : /\ c.provider # "coingecko" /\ c.quote = "USD"
                                  /\ \A d \in direct : <<d.provider, d.bucket>>
                                                         # <<c.provider, c.bucket>>}
  IN IF q.quote = "USD" THEN direct
     ELSE direct \cup UNION {{Converted(c, target, bridge) :
                                target \in Rates(c, q.quote),
                                bridge \in {x \in Rates(c, "USD") : x.low # Whole(0)}} :
                               c \in missing}

Shown(q) ==
  {c \in WithFallbacks(q, Aggregates(q)) : q.source \in {"combined", c.provider}}

BucketsOf(shown) == {c.bucket : c \in shown}

\* The line of several providers.
LineAt(shown, b) ==
  Combined({[provider |-> c.provider, value |-> c.close, kind |-> c.kind] :
              c \in {x \in shown : x.bucket = b}})

\* The middle of the highest prices need not be above the middle of the last ones.
Corrected(open, high, low, close) ==
  [open |-> open, high |-> Highest({high, open, close}), low |-> Lowest({low, open, close}),
   close |-> close]

\* The candle of several providers.
CandleAt(shown, b) ==
  LET usable == Preferred({c \in shown : c.bucket = b})
      Middle(Part(_)) == Combined({[provider |-> c.provider, value |-> Part(c),
                                    kind |-> c.kind] : c \in usable})
  IN Corrected(Middle(LAMBDA c : c.open), Middle(LAMBDA c : c.high),
               Middle(LAMBDA c : c.low), Middle(LAMBDA c : c.close))

\* Mutant: what is missing ends with the bucket that is there again.
GapThrough(expected, b, q) == [from |-> expected, to |-> b]

Gap(expected, b, q) == [from |-> expected, to |-> b - q.overview]

\* The bucket that is expected next when those of S are there.
Expected(q, begin, S) == Max({begin} \cup {b + q.overview : b \in S})

\* A range from the beginning of time begins with the first point.
Missing(q, buckets) ==
  LET begin == IF q.from = 0 /\ buckets # {} THEN Min(buckets) ELSE RangeStart(q)
      After(b) == Expected(q, begin, {x \in buckets : x < b})
      end == Expected(q, begin, buckets)
  IN {Gap(After(b), b, q) : b \in {x \in buckets : x > After(x)}}
     \cup IF end <= RangeEnd(q) THEN {[from |-> end, to |-> RangeEnd(q)]} ELSE {}

-----------------------------------------------------------------------------
(* The price of a moment. *)

Close(r) == Price(r, r.last)
Observed(S) == {[provider |-> r.provider, value |-> Close(r), kind |-> r.kind] : r \in S}

\* Of a provider's rows that begin together one, of whichever granularity.
OnePerProvider(S) ==
  {T \in SUBSET S : \A r \in S : Cardinality({x \in T : x.provider = r.provider}) = 1}

Newest(S) == {r \in S : \A x \in S : x.start <= r.start}

\* The table of the markets: what it may show.
TablePrices(quote, t) ==
  LET old == {r \in rows : r.quote = quote /\ r.start <= t /\ r.start >= t - Far}
  IN IF old = {} THEN {} ELSE {Combined(Observed(T)) : T \in OnePerProvider(Newest(old))}

\* Mutant: of a bucket the first row is kept.
KeptFirst(quote, from, to, span) ==
  {r \in rows : /\ r.quote = quote /\ r.start >= from - Near /\ r.start <= to
                /\ \A x \in rows :
                     /\ x.provider = r.provider /\ x.quote = quote
                     /\ x.start >= from - Near /\ x.start <= to
                     /\ BucketOf(x.start, span) = BucketOf(r.start, span)
                     => r.start < x.start \/ (r.start = x.start /\ r.span <= x.span)}

\* What a graph looks its prices up in: of each bucket of `span` and provider the last
\* row, of the finest granularity.
Kept(quote, from, to, span) ==
  {r \in rows : /\ r.quote = quote /\ r.start >= from - Near /\ r.start <= to
                /\ \A x \in rows :
                     /\ x.provider = r.provider /\ x.quote = quote
                     /\ x.start >= from - Near /\ x.start <= to
                     /\ BucketOf(x.start, span) = BucketOf(r.start, span)
                     => x.start < r.start \/ (r.start = x.start /\ r.span <= x.span)}

\* Mutant: however old.
AnyAge(S, t) == S

Recent(S, t) == {r \in S : r.start >= t - Near}

Upto(kept, t) == Newest({r \in kept : r.start <= t})

\* Charts of addresses and portfolio: the finest granularity of all.
ChartPrice(quote, t, from, to, span) ==
  LET found == Recent(Upto(Kept(quote, from, to, span), t), t)
  IN Combined(Observed({r \in found : \A x \in found : r.span <= x.span}))

\* The chart of the Kraken account: one row of each provider.
KrakenPrice(quote, t, from, to, span) ==
  Combined(Observed(Recent(Upto(Kept(quote, from, to, span), t), t)))

-----------------------------------------------------------------------------
(* The graph of the Kraken account: some of the asset, under one or two of *)
(* Kraken's names, and some of another that has no price.                  *)

\* latestPrice(): the newest there is, however old.
LatestPrice(quote) ==
  Combined(Observed(Newest({r \in rows : r.quote = quote})))

ValueOf(asset, quantity, price) ==
  IF asset = "other" \/ price = None THEN None ELSE Times(Whole(quantity), price)

\* What is priced, of the balances that are not zero.
WriteSnapshot ==
  /\ Write /\ snapshot = {}
  /\ \E held \in {<<1, 0, 0>>, <<1, 2, 0>>, <<1, 0, 1>>} :
       LET price == LatestPrice(primary)
           names == [i \in 1 .. 3 |-> IF i = 3 THEN "other" ELSE "btc"]
           balances == {[raw |-> i, asset |-> names[i], quantity |-> held[i],
                         value |-> ValueOf(names[i], held[i], price)] : i \in 1 .. 3}
           counted == {b \in balances : b.quantity # 0}
           priced == {b \in counted : b.value # None}
       IN snapshot' = {[at |-> present, quote |-> primary,
                        total |-> Total([b \in balances |-> b.value], priced),
                        whole |-> priced = counted, balances |-> balances]}
  /\ UNCHANGED <<course, present, rows, primary>>

ChooseQuote ==
  /\ Write /\ \E quote \in Quote \ {primary} : primary' = quote
  /\ UNCHANGED <<course, present, rows, snapshot>>

\* Mutant: without a price of that time there is none.
QuotedNow(s, asset, quote, span) ==
  LET mine == {b \in s.balances : b.asset = asset}
      price == IF asset = "other" THEN None ELSE KrakenPrice(quote, s.at, s.at, present, span)
  IN IF price = None THEN None
     ELSE Times(Whole(MapThenSumSet(LAMBDA b : b.quantity, mine)), price)

\* assetQuotes(): by the price of that time, or what it was worth in the primary
\* currency when the snapshot was written, in whichever currency that was.
Quoted(s, asset, quote, span) ==
  LET mine == {b \in s.balances : b.asset = asset}
      priced == {b \in mine : b.value # None}
      price == IF asset = "other" THEN None ELSE KrakenPrice(quote, s.at, s.at, present, span)
  IN IF price # None THEN Times(Whole(MapThenSumSet(LAMBDA b : b.quantity, mine)), price)
     ELSE IF quote = primary /\ priced # {}
          THEN Total([b \in mine |-> b.value], priced) ELSE None

\* The total of those that have a value, or else the one stored.
TotalShown(s, quote, span) ==
  LET quotes == [asset \in {"btc", "other"} |-> Quoted(s, asset, quote, span)]
      known == {asset \in DOMAIN quotes : quotes[asset] # None}
  IN IF known # {} THEN Total(quotes, known)
     ELSE IF quote = primary THEN s.total ELSE None

-----------------------------------------------------------------------------

SeriesNext == Synchronize \/ Forget \/ Clock \/ WriteSnapshot \/ ChooseQuote

SeriesSpec == SeriesInit /\ [][SeriesNext]_seriesVars

-----------------------------------------------------------------------------
(* Properties. *)

Queries ==
  {q \in [source : Source \cup {"combined"}, quote : Quote, from : {0, 1}, to : {present},
          requested : {1}, overview : Span] : q.from <= q.to}

\* The candle was made of rows that have all the prices of its bucket: none was stored
\* before it was over or asked for from its middle on, and none is left out of the range.
WholeCandle(c, q) ==
  \A p \in Source, quote \in Quote :
    LET mine == {r \in c.of : r.provider = p /\ r.quote = quote}
    IN mine # {} => \A t \in c.bucket .. c.bucket + q.overview - 1 :
                      \E r \in mine : t \in r.first .. r.last

\* What the provider says of a time, in the currency of the candle.
TruePrice(c, t) ==
  LET At(p, quote) == Whole(course[<<p, quote, t>>])
  IN IF \E r \in c.of : r.quote # c.quote
     THEN Over(Times(At(c.provider, "USD"), At("coingecko", c.quote)), At("coingecko", "USD"))
     ELSE At(c.provider, c.quote)

\* For every graph that may be asked for, whatever has been stored of which granularity:
\* each bucket is shown or is part of one interval that is missing, a candle of whole rows
\* encloses each price of its bucket, a converted one included ("Coarser OHLC is produced
\* only from cached finer data. Missing exchange quote pairs may be converted with a
\* same-bucket CoinGecko ratio", docs/architecture.md:54), and a candle of several
\* providers encloses its own beginning and end and ends where the line is.
SeriesTrue == rows # {} =>
  \A q \in Queries :
    LET shown == Shown(q)
        buckets == BucketsOf(shown)
        gaps == Missing(q, buckets)
    IN /\ \A b \in {BucketOf(t, q.overview) : t \in RangeStart(q) .. RangeEnd(q)} :
            LET of == {g \in gaps : b >= g.from /\ b <= g.to}
            IN IF b \in buckets THEN of = {}
               ELSE \/ Cardinality(of) = 1
                    \/ of = {} /\ q.from = 0 /\ buckets # {} /\ b < Min(buckets)
       /\ \A c \in shown : WholeCandle(c, q) =>
            \A t \in c.bucket .. c.bucket + q.overview - 1 :
              ~ Less(TruePrice(c, t), c.low) /\ ~ Less(c.high, TruePrice(c, t))
       /\ \A b \in buckets :
            LET candle == CandleAt(shown, b)
            IN /\ candle.close = LineAt(shown, b)
               /\ \A part \in {candle.open, candle.close} :
                    ~ Less(part, candle.low) /\ ~ Less(candle.high, part)

\* A graph has a price of a moment just if one was stored in the days before it; only
\* what the bucket of that very moment has may hide one.  It is between the prices of the
\* newest rows that it could know, and where it has one the table has one as well.
PricesTrue == rows # {} =>
  \A quote \in Quote, span \in Span, from \in Time :
    \A t \in from .. present :
      LET near == {r \in rows : r.quote = quote /\ r.start <= t /\ r.start >= t - Near}
          sure == {r \in near : r.start < BucketOf(t, span) \/ span = 1}
          newest == {r \in near : \A x \in sure : x.start <= r.start}
      IN \A price \in {ChartPrice(quote, t, from, present, span),
                       KrakenPrice(quote, t, from, present, span)} :
           IF price = None THEN sure = {}
           ELSE /\ \E r, x \in newest :
                     /\ r.start = x.start
                     /\ ~ Less(price, Close(r)) /\ ~ Less(Close(x), price)
                /\ TablePrices(quote, t) \notin {{}, {None}}

\* A total of the Kraken account that is not marked as partial counts all that the
\* account held, prices forgotten since included, in the currency it is shown in; but for
\* a snapshot written in another primary currency, whose values pass for the present one.
KrakenShown ==
  \A s \in snapshot, span \in Span :
    s.whole /\ s.quote = primary =>
      LET held == {b.asset : b \in {x \in s.balances : x.quantity # 0}}
          values == [asset \in held |-> Quoted(s, asset, primary, span)]
      IN /\ \A asset \in held : values[asset] # None
         /\ TotalShown(s, primary, span) = Total(values, held)

\* Both: what a moment is valued at, and what the account is shown to be worth.
ValuesTrue == PricesTrue /\ KrakenShown
=============================================================================
