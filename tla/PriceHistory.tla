----------------------------- MODULE PriceHistory -----------------------------
(***************************************************************************)
(* The daily bars of one instrument, stored raw, the log of its splits and  *)
(* dividends, and a chart that replays the log over the bars it reads. A    *)
(* read that finds the stored series cold or stale fetches the gap from the *)
(* vendor; two commands backfill the bars and the log.                      *)
(*                                                                         *)
(* The vendor is external. What it serves follows from what the instrument  *)
(* is worth: the raw close of a session is the worth of an original share   *)
(* over the shares it has become. Prices and ratios are fractions <<n, d>>. *)
(***************************************************************************)
EXTENDS Integers, Sequences, FiniteSets, SequencesExt, FiniteSetsExt

CONSTANTS
  Charts,      \* reads of the chart, each one at a time
  PriceCases   \* [worth, actions, limit, mode, listed, faults, runs]: the worth of a share in
               \* each session; the splits and dividends the vendor knows; how many bars a
               \* chart wants, and how the charts that are looked at are adjusted; whether the
               \* instrument is known; bounds on failures and on runs of the two commands

ASSUME PriceAssumption ==
  \A c \in PriceCases :
    /\ c.worth \in Seq(Nat \ {0}) /\ c.limit \in Nat \ {0} /\ c.listed \in BOOLEAN /\ {c.faults, c.runs} \subseteq Nat
    /\ DOMAIN c.mode \subseteq Charts /\ Range(c.mode) \subseteq {"none", "splits", "total"}

VARIABLES
  market,    \* what is traded, the session and whether it is open, and the bounds left
  stored,    \* the bars: of each session none, one taken while it traded, or the final one
  actionLog, \* the rows of corporate_actions
  fetchedAt, \* the vendor was asked less than barsMinFetchInterval ago, and how often
  chart,     \* the reads under way
  command,   \* the backfill commands under way
  drawn      \* the last answer of each chart

priceState == <<stored, actionLog, fetchedAt, chart, command, drawn>>
priceVars == <<market, priceState>>

Sessions == 1 .. Len(market.worth)
Idle == [at |-> "idle", bars |-> <<>>, batch |-> {}]
Nothing == [mode |-> "none", log |-> {}, bars |-> <<>>]

\* The type invariant: the vendor is asked once in an interval.
PriceTypeOK ==
  /\ stored \in [Sessions -> {"none", "partial", "final"}] /\ actionLog \subseteq market.actions
  /\ fetchedAt.recent \in BOOLEAN /\ fetchedAt.asked <= 1
  /\ \A g \in Charts : chart[g].at \in {"idle", "listed", "asking", "fetched", "filled", "settled"}
  /\ \A k \in {"bars", "actions"} : command[k].at \in {"idle", "fetched"}

PriceInit ==
  /\ \E c \in PriceCases : market = [worth |-> c.worth, actions |-> c.actions, limit |-> c.limit, mode |-> c.mode,
                                     listed |-> c.listed, faults |-> c.faults, runs |-> c.runs,
                                     today |-> 1, open |-> TRUE]
  /\ stored = [d \in Sessions |-> "none"] /\ actionLog = {} /\ fetchedAt = [recent |-> FALSE, asked |-> 0]
  /\ chart = [g \in Charts |-> Idle] /\ command = [k \in {"bars", "actions"} |-> Idle]
  /\ drawn = [g \in Charts |-> Nothing]

Faulty(fails) == IF fails THEN market.faults > 0 /\ market' = [market EXCEPT !.faults = @ - 1] ELSE UNCHANGED market

-----------------------------------------------------------------------------
(* Fractions, and what an instrument trades at. *)

Times(x, y) == <<x[1] * y[1], x[2] * y[2]>>
Over(x) == <<x[2], x[1]>>
Same(x, y) == x[1] * y[2] = y[1] * x[2]
ProductOf(S, F(_)) == MapThenFoldSet(Times, <<1, 1>>, F, LAMBDA T : CHOOSE t \in T : TRUE, S)
RatioOf(a) == a.amount

\* One original share has become this many by a session.
SharesAt(d) == ProductOf({a \in market.actions : a.type = "split" /\ a.ex <= d /\ a.amount[1] > 0}, RatioOf)
RawClose(d) == Times(<<market.worth[d], 1>>, Over(SharesAt(d)))

-----------------------------------------------------------------------------
(* The replay of the log over bars, in the order of time. A bar is its session. *)

\* Splits always, dividends only for a total return.
Replayed(log, mode) ==
  {a \in log : IF a.type = "split" THEN ~Same(a.amount, <<1, 1>>) ELSE mode = "total"}

BugPreExClose(bars, ex) ==
  LET before == {i \in DOMAIN bars : bars[i] <= ex} IN
  IF before = {} THEN <<0, 1>> ELSE RawClose(bars[Max(before)])

\* The close of the last bar before the ex-date, zero when there is none.
PreExClose(bars, ex) ==
  LET before == {i \in DOMAIN bars : bars[i] < ex} IN
  IF before = {} THEN <<0, 1>> ELSE RawClose(bars[Max(before)])

Usable(a, bars) ==
  a.type = "split" \/ LET c == PreExClose(bars, a.ex) IN a.amount[1] * c[2] < c[1] * a.amount[2]

\* (c - cash) / c for a dividend, the other way up for a split.
PriceFactor(a, bars) ==
  IF a.type = "split" THEN Over(a.amount)
  ELSE LET c == PreExClose(bars, a.ex) IN <<c[1] * a.amount[2] - a.amount[1] * c[2], c[1] * a.amount[2]>>
VolumeFactor(a) == IF a.type = "split" THEN a.amount ELSE <<1, 1>>

\* One pass from the newest bar to the oldest, which uses up the factors from the last.
AdjustBars(bars, log, mode) ==
  LET factors == SetToSortSeq({a \in Replayed(log, mode) : Usable(a, bars)}, LAMBDA a, b : a.ex < b.ex)
      walk[i \in 1 .. Len(bars) + 1] ==
        IF i > Len(bars) THEN [left |-> Len(factors), price |-> <<1, 1>>, volume |-> <<1, 1>>]
        ELSE LET newer == walk[i + 1]
                 used == {k \in 1 .. newer.left : factors[k].ex > bars[i]} IN
             [left |-> newer.left - Cardinality(used),
              price |-> Times(newer.price, ProductOf(used, LAMBDA k : PriceFactor(factors[k], bars))),
              volume |-> Times(newer.volume, ProductOf(used, LAMBDA k : VolumeFactor(factors[k])))] IN
  [i \in DOMAIN bars |-> [session |-> bars[i], close |-> Times(RawClose(bars[i]), walk[i].price),
                          volume |-> walk[i].volume]]

-----------------------------------------------------------------------------
(* The tables. *)

\* The newest bars of a known instrument, oldest first.
ListBars ==
  LET rows == {d \in Sessions : stored[d] # "none"}
      newest == {d \in rows : Cardinality({e \in rows : e > d}) < market.limit}
  IN [k \in 1 .. Cardinality(newest) |-> CHOOSE d \in newest : Cardinality({e \in newest : e <= d}) = k]

\* Bars of an unknown symbol are skipped. One statement fails and none is kept.
UpsertBars(batch) ==
  [d \in Sessions |-> IF market.listed /\ \E b \in batch : b[1] = d THEN (CHOOSE b \in batch : b[1] = d)[2] ELSE stored[d]]

\* What is known of the instrument, whatever its ex-date.
ListActions == actionLog

\* One row for each type and ex-date, with the latest amount.
UpsertActions(batch) ==
  IF market.listed
  THEN {a \in actionLog : ~\E b \in batch : b.type = a.type /\ b.ex = a.ex} \cup batch
  ELSE actionLog

-----------------------------------------------------------------------------
(* The vendor. *)

\* All pages of what was traded since a session; the one that trades is not over.
GetBars(from) == {<<d, IF d = market.today /\ market.open THEN "partial" ELSE "final">> : d \in from .. market.today}

\* An entry without a usable rate is skipped; what is announced is served before its ex-date.
GetCorporateActions == {a \in market.actions : a.amount[1] > 0}

\* A session ends, or the next one begins. An answer of the vendor is written before the
\* session after the next event: a request of the client has a time limit of seconds.
Tick ==
  /\ market.open \/ market.today < Len(market.worth)
  /\ ~market.open => /\ \A g \in Charts : chart[g].at # "fetched"
                     /\ \A k \in DOMAIN command : command[k].at # "fetched"
  /\ market' = IF market.open THEN [market EXCEPT !.open = FALSE]
               ELSE [market EXCEPT !.open = TRUE, !.today = @ + 1]
  /\ fetchedAt' = [recent |-> FALSE, asked |-> 0]
  /\ UNCHANGED <<stored, actionLog, chart, command, drawn>>

\* Five minutes pass.
IntervalPasses ==
  /\ fetchedAt.recent /\ fetchedAt' = [recent |-> FALSE, asked |-> 0]
  /\ UNCHANGED <<market, stored, actionLog, chart, command, drawn>>

-----------------------------------------------------------------------------
(* A read of the chart. *)

Goes(g, to) == chart' = [chart EXCEPT ![g] = to]

GetAdjusted(g) ==
  /\ g \in DOMAIN market.mode /\ chart[g].at = "idle"
  /\ Goes(g, [at |-> "listed", bars |-> ListBars, batch |-> {}])
  /\ UNCHANGED <<market, stored, actionLog, fetchedAt, command, drawn>>

\* A bar is timed at the start of its session and goes stale the night after.
Stale(bars) == bars = <<>> \/ Last(bars) < market.today \/ ~market.open

\* Under the lock: the map of the last fetches is read and written in one step.
ShouldFetch(bars) == Stale(bars) /\ ~fetchedAt.recent

DecideToFetch(g) ==
  /\ chart[g].at = "listed"
  /\ IF ShouldFetch(chart[g].bars)
     THEN Goes(g, [chart[g] EXCEPT !.at = "asking"]) /\ fetchedAt' = [recent |-> TRUE, asked |-> fetchedAt.asked + 1]
     ELSE Goes(g, [chart[g] EXCEPT !.at = "settled"]) /\ UNCHANGED fetchedAt
  /\ UNCHANGED <<market, stored, actionLog, command, drawn>>

BugGapAfter(bars) == IF bars = <<>> THEN 1 ELSE Last(bars) + 1

\* The newest bar is fetched again: it may have been taken while its session traded.
GapAfter(bars) == IF bars = <<>> THEN 1 ELSE Last(bars)

\* A vendor that fails leaves what is stored.
FillFetches(g) ==
  /\ chart[g].at = "asking"
  /\ \E fails \in BOOLEAN :
       /\ Faulty(fails)
       /\ LET batch == IF fails THEN {} ELSE GetBars(GapAfter(chart[g].bars)) IN
          Goes(g, [chart[g] EXCEPT !.at = IF batch = {} THEN "settled" ELSE "fetched", !.batch = batch])
  /\ UNCHANGED <<stored, actionLog, fetchedAt, command, drawn>>

\* Rows were written, and the series is listed again; or none was.
FillWrites(g) ==
  /\ chart[g].at = "fetched"
  /\ \E fails \in BOOLEAN :
       /\ Faulty(fails)
       /\ stored' = IF fails THEN stored ELSE UpsertBars(chart[g].batch)
       /\ Goes(g, [chart[g] EXCEPT !.at = IF fails \/ ~market.listed THEN "settled" ELSE "filled", !.batch = {}])
  /\ UNCHANGED <<actionLog, fetchedAt, command, drawn>>

ListAgain(g) ==
  /\ chart[g].at = "filled" /\ Goes(g, [at |-> "settled", bars |-> ListBars, batch |-> {}])
  /\ UNCHANGED <<market, stored, actionLog, fetchedAt, command, drawn>>

\* A log that cannot be read is not a reason to draw nothing: the bars are drawn raw.
Draw(g) ==
  /\ chart[g].at = "settled" /\ Goes(g, Idle)
  /\ \E fails \in BOOLEAN :
       /\ Faulty(fails)
       /\ LET bars == chart[g].bars
              mode == IF fails THEN "none" ELSE market.mode[g]
              log == IF mode = "none" THEN {} ELSE ListActions IN
          drawn' = [drawn EXCEPT ![g] = [mode |-> mode, log |-> log, bars |-> AdjustBars(bars, log, mode)]]
  /\ UNCHANGED <<stored, actionLog, fetchedAt, command>>

-----------------------------------------------------------------------------
(* The commands. *)

\* Both reach back further than any bar that is stored.
BackfillFetches(k) ==
  /\ command[k].at = "idle" /\ market.runs > 0 /\ market' = [market EXCEPT !.runs = @ - 1]
  /\ command' = [command EXCEPT ![k] = [at |-> "fetched", bars |-> <<>>,
                                        batch |-> IF k = "bars" THEN GetBars(1) ELSE GetCorporateActions]]
  /\ UNCHANGED <<stored, actionLog, fetchedAt, chart, drawn>>

BackfillBars ==
  /\ command["bars"].at = "fetched"
  /\ stored' = UpsertBars(command["bars"].batch) /\ command' = [command EXCEPT !["bars"] = Idle]
  /\ UNCHANGED <<market, actionLog, fetchedAt, chart, drawn>>

BackfillCorporateActions ==
  /\ command["actions"].at = "fetched"
  /\ actionLog' = UpsertActions(command["actions"].batch) /\ command' = [command EXCEPT !["actions"] = Idle]
  /\ UNCHANGED <<market, stored, fetchedAt, chart, drawn>>

\* The symbol is counted as a failure, and the command goes on with the next one.
BackfillFails(k) ==
  /\ command[k].at = "fetched" /\ Faulty(TRUE) /\ command' = [command EXCEPT ![k] = Idle]
  /\ UNCHANGED <<stored, actionLog, fetchedAt, chart, drawn>>

-----------------------------------------------------------------------------
PriceNext ==
  \/ Tick \/ IntervalPasses \/ BackfillBars \/ BackfillCorporateActions
  \/ \E g \in Charts : \/ GetAdjusted(g) \/ DecideToFetch(g) \/ FillFetches(g) \/ FillWrites(g)
                       \/ ListAgain(g) \/ Draw(g)
  \/ \E k \in {"bars", "actions"} : BackfillFetches(k) \/ BackfillFails(k)

PriceSpec == PriceInit /\ [][PriceNext]_priceVars

-----------------------------------------------------------------------------
(* Properties. *)

\* No session is missing between two that are stored, and a bar that was taken while its
\* session traded is replaced before a newer one is stored: it would not be fetched again.
SeriesIsSettled ==
  \A d, e \in Sessions : d < e /\ stored[e] # "none" => stored[d] = "final"

\* What one share of the first session paid out with an ex-date right after a session.
PaidAfter(d) ==
  LET due == {a \in market.actions : a.type = "dividend" /\ a.ex = d + 1 /\ a.amount[1] > 0} IN
  IF due = {} THEN <<0, 1>> ELSE Times((CHOOSE a \in due : TRUE).amount, SharesAt(d))

\* What a share of a session is worth without what it pays out the next day, if that is
\* taken into account and leaves anything.
Held(d, mode) ==
  LET paid == PaidAfter(d) IN
  IF mode = "total" /\ paid[1] < market.worth[d] * paid[2] THEN <<market.worth[d] * paid[2] - paid[1], paid[2]>>
  ELSE <<market.worth[d], 1>>

\* From bar to bar, a chart drawn with every action in its span shows what a holder
\* gained, whatever else is in the log: no split is a crash, and the dollar volume stays.
ReturnsAreTrue ==
  \A g \in Charts :
    LET bars == drawn[g].bars
        spanned(a) == \E i \in 2 .. Len(bars) : a.ex = bars[i].session IN
    drawn[g].mode # "none" /\ (\A a \in GetCorporateActions : spanned(a) => a \in drawn[g].log)
    => \A i \in 2 .. Len(bars) :
         /\ bars[i].session = bars[i - 1].session + 1
         /\ Same(Times(bars[i].close, Held(bars[i - 1].session, drawn[g].mode)),
                 Times(bars[i - 1].close, <<market.worth[bars[i].session], 1>>))
         /\ bars[i].close[1] > 0
         /\ drawn[g].mode = "splits" =>
              Same(Times(bars[i].volume, bars[i].close), RawClose(bars[i].session))

PricesHold == SeriesIsSettled /\ ReturnsAreTrue
=============================================================================
