--------------------------- MODULE BacktestEngine ---------------------------
(***************************************************************************)
(* A backtest's trading days: splits reach the holdings, a signal of an    *)
(* earlier day is executed or put off, sells come before buys, and the     *)
(* day's signal waits for a later day.  The market - bars, adjustment      *)
(* factors, suspensions, price limits, index membership - and the strategy *)
(* are free, and so are the costs, as in CreateBacktestRunDto.  Money and  *)
(* shares are integers; what the engine only reports is left out.          *)
(***************************************************************************)
EXTENDS Integers, FiniteSets, Functions

CONSTANTS
  Stock,
  Config,        \* the BacktestConfigs to consider
  Market,        \* bound: the bars a stock may have on a day, its adjFactor apart
  Target,        \* bound: the signals a strategy may generate
  Factor,        \* bound: adjFactor; 0 stands for null
  Universe,      \* bound: the index memberships a day may have
  Horizon,       \* bound: trading days
  Capital,       \* initialCapital
  LotSize,       \* LOT_SIZE
  Whole,         \* a weight is a number of 1/Whole
  Part,          \* a rate is a number of 1/Part
  NoBar, NoSignal

Unspecified == -1
NoPrice     == -1

ASSUME BacktestAssumption ==
  /\ IsFiniteSet(Stock)
  /\ Config \subseteq [maxPositions : Nat \ {0}, maxWeight : 0 .. Whole,
                       priceMode : {"NEXT_OPEN", "NEXT_CLOSE"},
                       enableTradeConstraints : BOOLEAN, partialFillEnabled : BOOLEAN,
                       commissionRate : Int, minCommission : Int,
                       stampDutyRate : Int, slippageBps : Int]
  /\ Market \subseteq [open : Nat \cup {NoPrice}, close : Nat \cup {NoPrice}, suspended : BOOLEAN,
                       upLimit : BOOLEAN, downLimit : BOOLEAN] \* at the limit, at its execution price
  /\ Target \subseteq UNION {[S -> {Unspecified} \cup 0 .. Whole] : S \in SUBSET Stock}
  /\ Factor \subseteq Nat /\ Universe \subseteq SUBSET Stock
  /\ Horizon \in Nat \ {0} /\ Capital \in Nat
  /\ LotSize \in Nat \ {0} /\ Whole \in Nat \ {0} /\ Part \in Nat \ {0}
  /\ NoBar \notin [market : Market, adjFactor : Factor]

VARIABLES
  config,   \* the run's BacktestConfig
  day,
  phase,    \* "open", "sell" and "buy" of a rebalance, "close"
  bars,     \* todayBars while the day lasts
  last,     \* adjFactor of each bar of the day before, 0 for none
  cash, shares,  \* portfolio
  overpaid, \* what the SELL records of allTrades cost beyond their amounts
  pending,  \* pendingSignal: targets and the day they were generated on
  weights,  \* effectiveWeights of the rebalance
  nav,      \* totalNav of the rebalance
  todo,     \* orders the rebalance has not come to
  bought    \* stocks the rebalance bought

vars == <<config, day, phase, bars, last, cash, shares, overpaid, pending, weights, nav, todo, bought>>

Weights == UNION {[S -> 0 .. Whole] : S \in SUBSET Stock}

NoBars    == [s \in Stock |-> NoBar]
NoWeights == [s \in {} |-> 0]

\* market is Market's part of a bar.
Bar == {NoBar} \cup [market : Market, adjFactor : Factor]

TypeOK ==
  /\ config \in Config
  /\ day \in 1 .. Horizon + 1
  /\ phase \in {"open", "sell", "buy", "close"}
  /\ bars \in [Stock -> Bar]
  /\ last \in [Stock -> {0} \cup Factor]
  /\ cash \in Int /\ overpaid \in Nat
  /\ shares \in [Stock -> Nat]
  /\ pending = NoSignal \/ pending.on \in 1 .. day
  /\ weights \in Weights
  /\ nav \in Int
  /\ todo \subseteq Stock /\ bought \subseteq Stock
  /\ phase \in {"open", "close"} => todo = {}

Init ==
  /\ config \in Config
  /\ day = 1 /\ phase = "open"
  /\ bars = NoBars
  /\ last = [s \in Stock |-> 0]
  /\ cash = Capital /\ overpaid = 0
  /\ shares = [s \in Stock |-> 0]
  /\ pending = NoSignal
  /\ weights = NoWeights
  /\ nav = 0
  /\ todo = {} /\ bought = {}

Held == {s \in Stock : shares[s] > 0}
-----------------------------------------------------------------------------
(* Prices and costs *)

\* getExecutionPrice and getSignalExecutionPrice; 0 stands for null.
Price(bar) ==
  LET price == IF bar = NoBar THEN NoPrice
               ELSE IF config.priceMode = "NEXT_CLOSE" THEN bar.market.close ELSE bar.market.open
  IN IF price > 0 THEN price ELSE 0

Commission(amount) ==
  LET c == (amount * config.commissionRate) \div Part
  IN IF c < config.minCommission THEN config.minCommission ELSE c

Slippage(amount)  == (amount * config.slippageBps) \div Part
StampDuty(amount) == (amount * config.stampDutyRate) \div Part

BuyCost(amount)  == amount + Commission(amount) + Slippage(amount)
Proceeds(amount) == amount - Commission(amount) - StampDuty(amount) - Slippage(amount)

\* What stops an order in executeTrades and, before it, in canExecuteSignalToday.
CanSell(bar) ==
  /\ Price(bar) > 0
  /\ config.enableTradeConstraints => ~bar.market.suspended /\ ~bar.market.downLimit

CanBuy(bar) ==
  /\ Price(bar) > 0
  /\ config.enableTradeConstraints => ~bar.market.suspended /\ ~bar.market.upLimit
-----------------------------------------------------------------------------
(* BacktestEngineService.runBacktest: the start of a day *)

\* A quotient, rounded up: a fraction of a share is still a position.
RoundedUp(n, d) == (n + d - 1) \div d

\* adjustCostPriceForSplits: between two bars in a row; a split on a day without one is missed.
Adjusted(today) ==
  [s \in Stock |->
     IF today[s] = NoBar THEN shares[s]
     ELSE IF today[s].adjFactor = 0 \/ last[s] = 0 THEN shares[s]
     ELSE RoundedUp(shares[s] * today[s].adjFactor, last[s])]

\* Mutant: positions to be sold are not looked at.
CanExecuteBuysOnly(targets, held, today) ==
  \A s \in DOMAIN targets : CanBuy(today[s])

\* canExecuteSignalToday: one stock that cannot be traded puts the whole rebalance off.
CanExecute(targets, held, today) ==
  /\ \A s \in DOMAIN targets : CanBuy(today[s])
  /\ \A s \in held \ DOMAIN targets : CanSell(today[s])

\* Weights left out share what the others leave; then maxWeightPerStock.
EqualShare(targets) ==
  LET given == {s \in DOMAIN targets : targets[s] # Unspecified}
      left  == Whole - SumFunctionOnSet(targets, given)
  IN IF left < 0 THEN 0 ELSE left \div Cardinality(DOMAIN targets \ given)

Capped(targets) ==
  [s \in DOMAIN targets |->
     LET w == IF targets[s] = Unspecified THEN EqualShare(targets) ELSE targets[s]
     IN IF w > config.maxWeight THEN config.maxWeight ELSE w]

\* maxPositions keeps the heaviest.
EffectiveWeights(targets) ==
  LET all == Capped(targets)
      n   == IF Cardinality(DOMAIN all) > config.maxPositions
             THEN config.maxPositions ELSE Cardinality(DOMAIN all)
  IN {Restrict(all, S) : S \in {S \in SUBSET DOMAIN all :
        Cardinality(S) = n /\ \A s \in S, t \in DOMAIN all \ S : all[s] >= all[t]}}

\* intersectSignalWithUniverse
Intersect(targets, members) == Restrict(targets, DOMAIN targets \cap members)

\* The pending signal as today's index membership leaves it.
Executable(members) == Intersect(pending.targets, members)

OpenDay ==
  /\ phase = "open" /\ day <= Horizon
  /\ bars' \in [Stock -> Bar]
  /\ \E members \in Universe :
       /\ shares' = Adjusted(bars')
       /\ IF pending # NoSignal /\ CanExecute(Executable(members), Held', bars')
          THEN /\ phase' = "sell"
               /\ weights' \in EffectiveWeights(Executable(members))
               /\ todo' = Held' \ DOMAIN weights'
          ELSE phase' = "close" /\ UNCHANGED <<weights, todo>>
  /\ UNCHANGED <<config, day, last, cash, overpaid, pending, nav, bought>>
-----------------------------------------------------------------------------
(* BacktestExecutionService.executeTrades *)

\* A position that cannot be sold is kept.
Sell(s) ==
  /\ phase = "sell" /\ s \in todo
  /\ todo' = todo \ {s}
  /\ IF CanSell(bars[s])
     THEN LET proceeds == Proceeds(Price(bars[s]) * shares[s])
          IN /\ cash' = cash + proceeds
             /\ overpaid' = IF proceeds < 0 THEN overpaid - proceeds ELSE overpaid
             /\ shares' = [shares EXCEPT ![s] = 0]
     ELSE UNCHANGED <<cash, shares, overpaid>>
  /\ UNCHANGED <<config, day, phase, bars, last, pending, weights, nav, bought>>

\* computePositionValue takes the close of the day, be it 0, whatever the price orders execute
\* at; without a close, that price.
ValuePrice(s) ==
  IF bars[s] = NoBar THEN 0
  ELSE IF bars[s].market.close = NoPrice THEN Price(bars[s]) ELSE bars[s].market.close

PositionValue == SumFunction([s \in Held |-> shares[s] * ValuePrice(s)])

StartBuys ==
  /\ phase = "sell" /\ todo = {}
  /\ phase' = "buy"
  /\ todo' = DOMAIN weights
  /\ nav' = cash + PositionValue
  /\ UNCHANGED <<config, day, bars, last, cash, shares, overpaid, pending, weights, bought>>

\* Mutant: what is held already does not count.
MissingAnew(s) == nav * weights[s]

\* diffValue, in 1/Whole
Missing(s) == nav * weights[s] - shares[s] * Price(bars[s]) * Whole

\* Lots the target asks for; without partial fill all of it must be payable.
LotsWanted(s) ==
  LET available == IF cash * Whole < Missing(s) THEN cash * Whole ELSE Missing(s)
  IN IF Missing(s) <= 0 \/ (~config.partialFillEnabled /\ cash * Whole < Missing(s))
     THEN 0 ELSE available \div (Price(bars[s]) * LotSize * Whole)

\* Mutant: the costs of the order are not counted.
AffordableUncosted(s, lots) == cash >= lots * LotSize * Price(bars[s])

Affordable(s, lots) == cash >= BuyCost(lots * LotSize * Price(bars[s]))

\* The loop that takes lots off until cash covers the order with its costs.
IsOrder(s, lots) ==
  /\ lots \in 1 .. LotsWanted(s) /\ Affordable(s, lots)
  /\ \A more \in lots + 1 .. LotsWanted(s) : ~Affordable(s, more)

\* Heavier targets come first.
Heaviest(s) == \A t \in todo : weights[s] >= weights[t]

\* Mutant: the order is cut to what cash covers, the position grows by what was wanted.
BuyUncut(s) ==
  /\ phase = "buy" /\ s \in todo /\ Heaviest(s)
  /\ CanBuy(bars[s])
  /\ \E lots \in 1 .. LotsWanted(s) :
       /\ IsOrder(s, lots)
       /\ cash' = cash - BuyCost(lots * LotSize * Price(bars[s]))
       /\ shares' = [shares EXCEPT ![s] = @ + LotsWanted(s) * LotSize]
  /\ todo' = todo \ {s} /\ bought' = bought \cup {s}
  /\ UNCHANGED <<config, day, phase, bars, last, overpaid, pending, weights, nav>>

Buy(s) ==
  /\ phase = "buy" /\ s \in todo /\ Heaviest(s)
  /\ CanBuy(bars[s])
  /\ \E lots \in 1 .. LotsWanted(s) :
       /\ IsOrder(s, lots)
       /\ cash' = cash - BuyCost(lots * LotSize * Price(bars[s]))
       /\ shares' = [shares EXCEPT ![s] = @ + lots * LotSize]
  /\ todo' = todo \ {s} /\ bought' = bought \cup {s}
  /\ UNCHANGED <<config, day, phase, bars, last, overpaid, pending, weights, nav>>

PassOver(s) ==
  /\ phase = "buy" /\ s \in todo /\ Heaviest(s)
  /\ CanBuy(bars[s]) => \A lots \in 1 .. LotsWanted(s) : ~Affordable(s, lots)
  /\ todo' = todo \ {s}
  /\ UNCHANGED <<config, day, phase, bars, last, cash, shares, overpaid, pending, weights, nav, bought>>

EndRebalance ==
  /\ phase = "buy" /\ todo = {}
  /\ phase' = "close"
  /\ pending' = NoSignal
  /\ weights' = NoWeights /\ nav' = 0 /\ bought' = {}
  /\ UNCHANGED <<config, day, bars, last, cash, shares, overpaid, todo>>
-----------------------------------------------------------------------------
(* runBacktest: the end of a day *)

\* The first day always rebalances; the others as the frequency and the calendar say.
Signals ==
  (IF day = 1 THEN {} ELSE {NoSignal}) \cup
  {[targets |-> Intersect(t, members), on |-> day] : t \in Target, members \in Universe}

\* Mutant: the day's signal is executed on the same day.
NextDaySame == IF pending = NoSignal THEN day ELSE day + 1

NextDay == day + 1

CloseDay ==
  /\ phase = "close"
  /\ pending' \in IF pending = NoSignal THEN Signals ELSE {pending}
  /\ day' = NextDay /\ phase' = "open"
  /\ last' = [s \in Stock |-> IF bars[s] = NoBar THEN 0 ELSE bars[s].adjFactor]
  /\ bars' = NoBars
  /\ UNCHANGED <<config, cash, shares, overpaid, weights, nav, todo, bought>>

Next ==
  \/ OpenDay \/ StartBuys \/ EndRebalance \/ CloseDay
  \/ \E s \in Stock : Sell(s) \/ Buy(s) \/ PassOver(s)

Spec == Init /\ [][Next]_vars
-----------------------------------------------------------------------------
\* Nothing is bought on credit: a buy order is cut to what cash covers with commission and
\* slippage, order after order, so a rebalance that buys leaves no debt. Only a sale can cost more
\* than it brings, because nothing bounds the costs from above or a position from below, and
\* no debt ever exceeds what such sales cost beyond their amounts.
DebtIsFromSales ==
  /\ cash + overpaid >= 0
  /\ bought # {} => cash >= 0

\* No signal trades on the day it was generated.
SignalIsOlder == phase \in {"sell", "buy"} => pending.on < day

\* canExecuteSignalToday and executeTrades agree on what can be traded: no sale of a
\* rebalance fails, so nothing but its targets is held afterwards - unless maxPositions
\* dropped one of the targets, which the first checks as a purchase and the second sells.
RebalanceIsComplete ==
  phase = "buy" /\ Cardinality(DOMAIN pending.targets) <= config.maxPositions
    => Held \subseteq DOMAIN weights

\* No purchase takes a position above its target, and so above maxWeightPerStock,
\* whatever was bought before it in the same rebalance.
BoughtWithinTarget ==
  phase = "buy" =>
    \A s \in bought : shares[s] * Price(bars[s]) * Whole <= nav * weights[s]

\* A rebalance makes nothing out of nothing: cash and positions together never come to more
\* than the net asset value the orders were sized by, whatever order was cut, filled in part
\* or passed over - as long as orders execute at the prices that value was taken at and no cost
\* is a gain (the run's minCommission and slippageBps may be negative).
NothingGained ==
  /\ phase = "buy" /\ config.minCommission >= 0 /\ config.slippageBps >= 0
  /\ \A s \in Stock : Price(bars[s]) = ValuePrice(s)
  => cash + PositionValue <= nav
=============================================================================
