--------------------------- MODULE BacktestProofs ---------------------------
(***************************************************************************)
(* For every market, strategy, configuration and capital, whatever splits  *)
(* and contractions do to positions and whatever the costs are: signals    *)
(* wait, nothing is bought on credit, rebalances are complete, purchases   *)
(* stay within their targets, and trading makes nothing out of nothing.    *)
(***************************************************************************)
EXTENDS BacktestEngine, FiniteSetTheorems, WellFoundedInduction, TLAPS

\* The assumptions the arithmetic needs, without the finite bounds.
Numbers ==
  /\ Config \subseteq [maxPositions : Nat \ {0}, maxWeight : 0 .. Whole,
                       priceMode : {"NEXT_OPEN", "NEXT_CLOSE"},
                       enableTradeConstraints : BOOLEAN, partialFillEnabled : BOOLEAN,
                       commissionRate : Int, minCommission : Int,
                       stampDutyRate : Int, slippageBps : Int]
  /\ Market \subseteq [open : Nat \cup {NoPrice}, close : Nat \cup {NoPrice}, suspended : BOOLEAN,
                       upLimit : BOOLEAN, downLimit : BOOLEAN]
  /\ Factor \subseteq Nat /\ Capital \in Nat /\ LotSize \in Nat \ {0} /\ Part \in Nat \ {0}

LEMMA NumbersHold == Numbers
BY BacktestAssumption DEF Numbers
-----------------------------------------------------------------------------
(* Signals *)

\* A pending signal is of an earlier day, and a rebalance has one.
Waits ==
  /\ day \in Nat
  /\ pending # NoSignal => pending.on \in Nat /\ pending.on < day
  /\ phase \in {"sell", "buy"} => pending # NoSignal

LEMMA WaitsInit == Init => Waits
BY DEF Init, Waits

LEMMA WaitsStep ==
  ASSUME Waits, [Next]_vars
  PROVE  Waits'
<1>1. CASE OpenDay
  BY <1>1 DEF Waits, OpenDay
<1>2. CASE StartBuys
  BY <1>2 DEF Waits, StartBuys
<1>3. CASE EndRebalance
  BY <1>3 DEF Waits, EndRebalance
<1>4. CASE CloseDay
  <2>1. pending' = NoSignal \/ pending' = pending \/ pending'.on = day
    BY <1>4 DEF CloseDay, Signals
  <2> QED BY <1>4, <2>1 DEF CloseDay, NextDay, Waits
<1>5. ASSUME NEW s \in Stock, Sell(s) \/ Buy(s) \/ PassOver(s) PROVE Waits'
  BY <1>5 DEF Waits, Sell, Buy, PassOver
<1>6. CASE UNCHANGED vars
  BY <1>6 DEF Waits, vars
<1> QED BY <1>1, <1>2, <1>3, <1>4, <1>5, <1>6 DEF Next

LEMMA WaitsHolds == Spec => []Waits
BY WaitsInit, WaitsStep, PTL DEF Spec

\* runBacktest executes before it generates, and keeps a pending signal until it is
\* executed: no order trades on the day of its signal.
THEOREM SignalsAreOlder == Spec => []SignalIsOlder
<1>1. Waits => SignalIsOlder
  BY DEF Waits, SignalIsOlder
<1> QED BY <1>1, WaitsHolds, PTL
-----------------------------------------------------------------------------
(* Arithmetic *)

LEMMA Product ==
  ASSUME NEW a \in Nat, NEW b \in Nat, NEW c \in Nat, b <= c
  PROVE  a * b \in Nat /\ a * b <= a * c
OBVIOUS

LEMMA Quotient ==
  ASSUME NEW a \in Int, NEW d \in Nat \ {0}
  PROVE  a \div d \in Int /\ (a >= 0 => a \div d >= 0)
OBVIOUS

LEMMA RoundedUpType ==
  ASSUME NEW n \in Nat, NEW d \in Nat \ {0}
  PROVE  RoundedUp(n, d) \in Nat
<1>1. n + d - 1 \in Int /\ n + d - 1 >= 0
  OBVIOUS
<1> QED BY <1>1, Quotient DEF RoundedUp

\* An order costs at least what the shares are worth at the price it executes at, if no cost
\* is a gain.
LEMMA CostType ==
  ASSUME config \in Config, NEW amount \in Nat
  PROVE  /\ BuyCost(amount) \in Int /\ Proceeds(amount) \in Int
         /\ config.minCommission >= 0 /\ config.slippageBps >= 0 => amount <= BuyCost(amount)
<1> DEFINE rate     == config.commissionRate
           minimum  == config.minCommission
           duty     == config.stampDutyRate
           slippage == config.slippageBps
<1>1. rate \in Int /\ minimum \in Int /\ duty \in Int /\ slippage \in Int /\ Part \in Nat \ {0}
  BY NumbersHold DEF Numbers
<1>2. Commission(amount) \in Int /\ minimum <= Commission(amount)
  <2> DEFINE c == (amount * rate) \div Part
  <2>1. amount * rate \in Int
    BY <1>1
  <2>2. c \in Int
    BY <1>1, <2>1, Quotient
  <2>3. Commission(amount) = IF c < minimum THEN minimum ELSE c
    BY DEF Commission
  <2> HIDE DEF c, minimum
  <2> QED BY <1>1, <2>2, <2>3
<1>3. Slippage(amount) \in Int /\ (slippage >= 0 => Slippage(amount) >= 0)
  <2>1. Slippage(amount) = (amount * slippage) \div Part
    BY DEF Slippage
  <2> HIDE DEF slippage
  <2>2. amount * slippage \in Int /\ (slippage >= 0 => amount * slippage >= 0)
    BY <1>1
  <2> QED BY <1>1, <2>1, <2>2, Quotient
<1>4. StampDuty(amount) \in Int
  <2>1. StampDuty(amount) = (amount * duty) \div Part
    BY DEF StampDuty
  <2> HIDE DEF duty
  <2>2. amount * duty \in Int
    BY <1>1
  <2> QED BY <1>1, <2>1, <2>2, Quotient
<1> QED BY <1>1, <1>2, <1>3, <1>4 DEF BuyCost, Proceeds
-----------------------------------------------------------------------------
(* Cash *)

\* The portfolio in its types, its debt covered by what sales cost.
Solvent ==
  /\ config \in Config
  /\ bars \in [Stock -> Bar]
  /\ last \in [Stock -> {0} \cup Factor]
  /\ shares \in [Stock -> Nat]
  /\ cash \in Int /\ overpaid \in Nat
  /\ cash + overpaid >= 0

LEMMA SolventInit == Init => Solvent
BY NumbersHold DEF Numbers, Init, Solvent, NoBars, Bar

LEMMA PriceType ==
  ASSUME config \in Config, NEW bar \in Bar
  PROVE  Price(bar) \in Nat
<1>1. CASE bar = NoBar
  BY <1>1 DEF Price, NoPrice
<1>2. CASE bar # NoBar
  <2>1. bar.market.open \in Int /\ bar.market.close \in Int
    BY <1>2, NumbersHold DEF Numbers, Bar, NoPrice
  <2> QED BY <1>2, <2>1 DEF Price
<1> QED BY <1>1, <1>2

LEMMA SolventOpenDay ==
  ASSUME Solvent, OpenDay
  PROVE  Solvent'
<1>1. /\ bars' \in [Stock -> Bar] /\ shares' = Adjusted(bars')
      /\ UNCHANGED <<config, last, cash, overpaid>>
  BY DEF OpenDay
<1>2. ASSUME NEW s \in Stock PROVE Adjusted(bars')[s] \in Nat
  <2>1. CASE bars'[s] = NoBar
    BY <2>1 DEF Adjusted, Solvent
  <2>2. CASE bars'[s] # NoBar
    <3>1. shares[s] \in Nat /\ last[s] \in Nat /\ bars'[s].adjFactor \in Nat
      <4>1. bars'[s].adjFactor \in Factor
        <5>1. bars'[s] \in [market : Market, adjFactor : Factor]
          BY <1>1, <2>2 DEF Bar
        <5> QED BY ONLY <5>1
      <4>2. \A f \in Factor : f \in Nat
        BY NumbersHold DEF Numbers
      <4>3. last[s] \in Nat
        <5>1. last[s] = 0 \/ last[s] \in Factor
          BY DEF Solvent
        <5> QED BY <4>2, <5>1
      <4>4. shares[s] \in Nat
        BY DEF Solvent
      <4> QED BY ONLY <4>1, <4>2, <4>3, <4>4
    <3>2. CASE bars'[s].adjFactor = 0 \/ last[s] = 0
      BY <2>2, <3>1, <3>2 DEF Adjusted
    <3>3. CASE ~(bars'[s].adjFactor = 0 \/ last[s] = 0)
      <4>1. Adjusted(bars')[s] = RoundedUp(shares[s] * bars'[s].adjFactor, last[s])
        BY <2>2, <3>3 DEF Adjusted
      <4>2. shares[s] * bars'[s].adjFactor \in Nat /\ last[s] \in Nat \ {0}
        BY <3>1, <3>3
      <4> QED BY <4>1, <4>2, RoundedUpType
    <3> QED BY <3>2, <3>3
  <2> QED BY <2>1, <2>2
<1>3. shares' \in [Stock -> Nat]
  BY <1>1, <1>2 DEF Adjusted
<1> QED BY <1>1, <1>3 DEF Solvent

\* What a sale takes from cash beyond its amount is added to overpaid.
LEMMA SolventSell ==
  ASSUME Solvent, NEW s \in Stock, Sell(s)
  PROVE  Solvent'
<1>1. CASE ~CanSell(bars[s])
  BY <1>1 DEF Sell, Solvent
<1>2. CASE CanSell(bars[s])
  <2> DEFINE proceeds == Proceeds(Price(bars[s]) * shares[s])
  <2>1. /\ cash' = cash + proceeds
        /\ overpaid' = IF proceeds < 0 THEN overpaid - proceeds ELSE overpaid
        /\ shares' = [shares EXCEPT ![s] = 0]
        /\ UNCHANGED <<config, bars, last>>
    BY <1>2 DEF Sell
  <2>2. proceeds \in Int
    <3>1. Price(bars[s]) \in Nat /\ shares[s] \in Nat
      BY PriceType DEF Solvent
    <3>2. Price(bars[s]) * shares[s] \in Nat
      BY <3>1
    <3> QED BY <3>2, CostType DEF Solvent
  <2> HIDE DEF proceeds
  <2> QED BY <2>1, <2>2 DEF Solvent
<1> QED BY <1>1, <1>2

\* A purchase is paid from the cash that is there.
LEMMA PurchaseIsPaid ==
  ASSUME Solvent, NEW s \in Stock, Buy(s)
  PROVE  cash' \in Int /\ cash' >= 0
<1>1. PICK lots \in 1 .. LotsWanted(s) :
        /\ Affordable(s, lots)
        /\ cash' = cash - BuyCost(lots * LotSize * Price(bars[s]))
  BY DEF Buy, IsOrder
<1>2. lots * LotSize * Price(bars[s]) \in Nat
  <2>1. lots \in Nat /\ LotSize \in Nat /\ Price(bars[s]) \in Nat
    BY PriceType, NumbersHold DEF Numbers, Solvent
  <2> QED BY <2>1
<1>3. BuyCost(lots * LotSize * Price(bars[s])) \in Int
  BY <1>2, CostType DEF Solvent
<1> QED BY <1>1, <1>3 DEF Affordable, Solvent

LEMMA SolventBuy ==
  ASSUME Solvent, NEW s \in Stock, Buy(s)
  PROVE  Solvent'
<1>1. PICK lots \in 1 .. LotsWanted(s) : shares' = [shares EXCEPT ![s] = @ + lots * LotSize]
  BY DEF Buy
<1>2. shares[s] + lots * LotSize \in Nat
  BY NumbersHold DEF Numbers, Solvent
<1>3. shares' \in [Stock -> Nat]
  BY <1>1, <1>2 DEF Solvent
<1>4. UNCHANGED <<config, bars, last, overpaid>>
  BY DEF Buy
<1>5. cash' \in Int /\ cash' + overpaid' >= 0
  <2>1. cash' \in Int /\ cash' >= 0
    BY PurchaseIsPaid
  <2>2. overpaid' \in Nat
    BY <1>4 DEF Solvent
  <2>3. \A i \in Int, n \in Nat : i >= 0 => i + n >= 0
    OBVIOUS
  <2> QED BY <2>1, <2>2, <2>3
<1> QED BY <1>3, <1>4, <1>5 DEF Solvent

LEMMA SolventStep ==
  ASSUME Solvent, [Next]_vars
  PROVE  Solvent'
<1>1. CASE OpenDay
  BY <1>1, SolventOpenDay
<1>2. CASE StartBuys \/ EndRebalance \/ UNCHANGED vars
  BY <1>2 DEF Solvent, StartBuys, EndRebalance, vars
<1>3. CASE CloseDay
  <2>1. last' \in [Stock -> {0} \cup Factor]
    BY <1>3 DEF CloseDay, Solvent, Bar
  <2>2. bars' = NoBars /\ UNCHANGED <<config, cash, shares, overpaid>>
    BY <1>3 DEF CloseDay
  <2> QED BY <2>1, <2>2 DEF Solvent, NoBars, Bar
<1>4. ASSUME NEW s \in Stock, Sell(s) \/ Buy(s) \/ PassOver(s) PROVE Solvent'
  <2>1. CASE PassOver(s)
    BY <2>1 DEF PassOver, Solvent
  <2> QED BY <1>4, <2>1, SolventSell, SolventBuy
<1> QED BY <1>1, <1>2, <1>3, <1>4 DEF Next
-----------------------------------------------------------------------------
(* Rebalances *)

AllFit == Cardinality(DOMAIN pending.targets) <= config.maxPositions

\* While it sells, what a rebalance still holds is a target or waits for a sale that cannot
\* fail; while it buys, only targets are held.
Rebalances ==
  /\ config \in Config
  /\ pending # NoSignal => DOMAIN pending.targets \subseteq Stock
  /\ phase = "sell" /\ AllFit =>
       /\ \A s \in todo : CanSell(bars[s])
       /\ Held \subseteq DOMAIN weights \cup todo
  /\ phase = "buy" => todo \subseteq DOMAIN weights
  /\ phase = "buy" /\ AllFit => Held \subseteq DOMAIN weights

LEMMA RebalancesInit == Init => Rebalances
BY DEF Init, Rebalances

\* When they all fit, maxPositions drops no target.
LEMMA AllKept ==
  ASSUME NEW targets, IsFiniteSet(DOMAIN targets),
         Cardinality(DOMAIN targets) <= config.maxPositions,
         config.maxPositions \in Nat,
         NEW w \in EffectiveWeights(targets)
  PROVE  DOMAIN w = DOMAIN targets
<1> DEFINE all == Capped(targets)
<1>1. DOMAIN all = DOMAIN targets
  BY DEF Capped
<1>2. Cardinality(DOMAIN all) \in Nat
  BY <1>1, FS_CardinalityType
<1>3. PICK S \in SUBSET DOMAIN all : w = Restrict(all, S) /\ Cardinality(S) = Cardinality(DOMAIN all)
  BY <1>1, <1>2 DEF EffectiveWeights
<1>4. S = DOMAIN all
  BY <1>1, <1>3, FS_Subset
<1> QED BY <1>1, <1>3, <1>4 DEF Restrict

LEMMA RebalancesOpenDay ==
  ASSUME Rebalances, OpenDay
  PROVE  Rebalances'
<1>1. UNCHANGED <<config, pending>>
  BY DEF OpenDay
<1>2. phase' \in {"sell", "close"}
  BY DEF OpenDay
<1>3. ASSUME phase' = "sell", AllFit
      PROVE  (\A s \in todo' : CanSell(bars'[s])) /\ Held' \subseteq DOMAIN weights' \cup todo'
  <2>1. PICK members \in Universe :
          /\ pending # NoSignal
          /\ CanExecute(Executable(members), Held', bars')
          /\ weights' \in EffectiveWeights(Executable(members))
          /\ todo' = Held' \ DOMAIN weights'
    BY <1>3 DEF OpenDay
  <2> DEFINE targets == Executable(members)
  <2>2. DOMAIN targets \subseteq DOMAIN pending.targets
    BY DEF Executable, Intersect, Restrict
  <2>3. IsFiniteSet(DOMAIN pending.targets)
    BY <2>1, BacktestAssumption, FS_Subset DEF Rebalances
  <2>4. IsFiniteSet(DOMAIN targets) /\ Cardinality(DOMAIN targets) <= Cardinality(DOMAIN pending.targets)
    BY <2>2, <2>3, FS_Subset
  <2>5. config.maxPositions \in Nat
    BY NumbersHold DEF Numbers, Rebalances
  <2>6. Cardinality(DOMAIN targets) \in Nat /\ Cardinality(DOMAIN pending.targets) \in Nat
    BY <2>3, <2>4, FS_CardinalityType
  <2>7. Cardinality(DOMAIN targets) <= config.maxPositions
    BY <1>3, <2>4, <2>5, <2>6 DEF AllFit
  <2>8. DOMAIN weights' = DOMAIN targets
    BY <2>1, <2>4, <2>5, <2>7, AllKept
  <2>9. \A s \in Held' \ DOMAIN targets : CanSell(bars'[s])
    BY <2>1 DEF CanExecute
  <2> QED BY <2>1, <2>8, <2>9
<1>4. ASSUME NEW bar PROVE CanSell(bar) => CanSell(bar)'
  BY <1>1 DEF CanSell, Price
<1> QED BY <1>1, <1>2, <1>3, <1>4 DEF Rebalances, AllFit, CanSell, Price

LEMMA RebalancesStep ==
  ASSUME Solvent, Waits, Rebalances, [Next]_vars
  PROVE  Rebalances'
<1>1. CASE OpenDay
  BY <1>1, RebalancesOpenDay
<1>2. CASE StartBuys
  BY <1>2 DEF StartBuys, Rebalances, AllFit, Held
<1>3. CASE EndRebalance
  BY <1>3 DEF EndRebalance, Rebalances
<1>4. CASE CloseDay
  <2>1. pending' # NoSignal => DOMAIN pending'.targets \subseteq Stock
    <3>1. CASE pending' = pending
      BY <3>1 DEF Rebalances
    <3>2. CASE pending' \in Signals
      <4>1. CASE pending' = NoSignal
        BY <4>1
      <4>2. ASSUME NEW t \in Target, NEW members \in Universe,
                   pending' = [targets |-> Intersect(t, members), on |-> day]
            PROVE  DOMAIN pending'.targets \subseteq Stock
        BY <4>2, BacktestAssumption DEF Intersect, Restrict
      <4> QED BY <3>2, <4>1, <4>2 DEF Signals
    <3> QED BY <1>4, <3>1, <3>2 DEF CloseDay
  <2> QED BY <1>4, <2>1 DEF CloseDay, Rebalances
<1>5. ASSUME NEW s \in Stock, Sell(s) PROVE Rebalances'
  <2>1. UNCHANGED <<config, bars, pending, weights, phase>> /\ phase = "sell" /\ todo' = todo \ {s}
    BY <1>5 DEF Sell
  <2>2. ASSUME AllFit PROVE Held' \subseteq DOMAIN weights' \cup todo'
    <3>1. shares' = [shares EXCEPT ![s] = 0]
      BY <1>5, <2>1, <2>2 DEF Sell, Rebalances
    <3>2. Held' \subseteq Held \ {s}
      BY <3>1 DEF Held, Solvent
    <3> QED BY <2>1, <2>2, <3>2 DEF Rebalances
  <2> QED BY <2>1, <2>2 DEF Rebalances, AllFit, CanSell, Price
<1>6. ASSUME NEW s \in Stock, Buy(s) \/ PassOver(s) PROVE Rebalances'
  <2>1. UNCHANGED <<config, pending, weights, phase>> /\ phase = "buy" /\ s \in todo /\ todo' = todo \ {s}
    BY <1>6 DEF Buy, PassOver
  <2>2. Held' \subseteq Held \cup {s}
    BY <1>6 DEF Buy, PassOver, Held, Solvent
  <2> QED BY <2>1, <2>2 DEF Rebalances, AllFit
<1>7. CASE UNCHANGED vars
  BY <1>7 DEF vars, Rebalances, AllFit, Held, CanSell, Price
<1> QED BY <1>1, <1>2, <1>3, <1>4, <1>5, <1>6, <1>7 DEF Next

\* Unless maxPositions dropped a target, nothing but its targets is held when a rebalance
\* buys: canExecuteSignalToday lets none begin in which a sale would be passed over.
THEOREM RebalancesComplete == Spec => []RebalanceIsComplete
<1>1. Rebalances => RebalanceIsComplete
  BY DEF Rebalances, RebalanceIsComplete, AllFit
<1>2. Spec => [](Solvent /\ Waits)
  BY SolventInit, SolventStep, WaitsInit, WaitsStep, PTL DEF Spec
<1>3. Spec => []Rebalances
  BY <1>2, RebalancesInit, RebalancesStep, PTL DEF Spec
<1> QED BY <1>1, <1>3, PTL
-----------------------------------------------------------------------------
(* Sums *)

Pick(s) == CHOOSE x \in s : TRUE

\* g adds f up over the sets that it is defined for, one element after the other.
Adds(g, f) ==
  \A s \in DOMAIN g : g[s] = IF s = {} THEN 0 ELSE f[Pick(s)] + g[s \ {Pick(s)}]

Small(T, n) == {s \in SUBSET T : Cardinality(s) <= n}

LEMMA SumUnfolds ==
  ASSUME NEW f, NEW T
  PROVE  SumFunctionOnSet(f, T) =
    (CHOOSE h : h = [s \in SUBSET T |-> IF s = {} THEN 0 ELSE f[Pick(s)] + h[s \ {Pick(s)}]])[T]
BY DEF SumFunctionOnSet, FoldFunctionOnSet, MapThenFoldSet, Pick

\* Every set of natural numbers has a least element.
LEMMA Least ==
  ASSUME NEW B \in SUBSET Nat, B # {}
  PROVE  \E n \in B : \A m \in B : n <= m
<1>1. PICK n \in B : \A m \in B : ~(<<m, n>> \in OpToRel(<, Nat))
  BY NatLessThanWellFounded, WFMin, Zenon
<1>2. \A m \in B : ~(m < n)
  BY <1>1 DEF OpToRel
<1> QED BY <1>2

\* What is left of a finite set without one of its elements is smaller.
LEMMA Smaller ==
  ASSUME NEW T, IsFiniteSet(T), NEW s \in SUBSET T, s # {}
  PROVE  /\ Pick(s) \in s /\ s \ {Pick(s)} \in SUBSET T
         /\ Cardinality(s) \in Nat \ {0} /\ Cardinality(s \ {Pick(s)}) = Cardinality(s) - 1
<1>1. Pick(s) \in s
  BY DEF Pick
<1>2. IsFiniteSet(s)
  BY FS_Subset
<1>3. Cardinality(s) \in Nat /\ Cardinality(s) # 0
  BY <1>2, FS_CardinalityType, FS_EmptySet
<1>4. Cardinality(s \ {Pick(s)}) = Cardinality(s) - 1
  BY <1>1, <1>2, FS_RemoveElement
<1> QED BY <1>1, <1>3, <1>4

\* Such a function exists for the subsets of any size.
LEMMA SumsExist ==
  ASSUME NEW S, NEW f \in [S -> Int], NEW T \in SUBSET S, IsFiniteSet(T), NEW n \in Nat
  PROVE  \E g \in [Small(T, n) -> Int] : Adds(g, f)
<1> DEFINE B == {m \in Nat : ~\E g \in [Small(T, m) -> Int] : Adds(g, f)}
<1> SUFFICES ASSUME B # {} PROVE FALSE
  OBVIOUS
<1>1. PICK m \in B : \A k \in B : m <= k
  BY Least
<1>2. m \in Nat /\ ~\E g \in [Small(T, m) -> Int] : Adds(g, f)
  OBVIOUS
<1>3. \A k \in Nat : k < m => \E g \in [Small(T, k) -> Int] : Adds(g, f)
  BY <1>1
<1> HIDE DEF B
<1>4. CASE m = 0
  <2>1. \A s \in Small(T, 0) : s = {}
    <3> SUFFICES ASSUME NEW s \in Small(T, 0), s # {} PROVE FALSE
      OBVIOUS
    <3>1. s \in SUBSET T /\ Cardinality(s) <= 0
      BY DEF Small
    <3>2. Cardinality(s) \in Nat \ {0}
      BY <3>1, Smaller
    <3> QED BY <3>1, <3>2
  <2> DEFINE g == [s \in Small(T, 0) |-> 0]
  <2>2. g \in [Small(T, 0) -> Int] /\ Adds(g, f)
    BY <2>1 DEF Adds
  <2> QED BY <1>2, <1>4, <2>2
<1>5. CASE m # 0
  <2>1. PICK g \in [Small(T, m - 1) -> Int] : Adds(g, f)
    BY <1>2, <1>3, <1>5
  <2> DEFINE h == [s \in Small(T, m) |-> IF s = {} THEN 0 ELSE f[Pick(s)] + g[s \ {Pick(s)}]]
  <2>2. ASSUME NEW s \in Small(T, m), s # {}
        PROVE  /\ s \ {Pick(s)} \in Small(T, m - 1) /\ s \ {Pick(s)} \in Small(T, m)
               /\ Pick(s) \in S
    <3>1. s \in SUBSET T /\ Cardinality(s) <= m
      BY DEF Small
    <3> QED BY <1>2, <2>2, <3>1, Smaller DEF Small
  <2>3. h \in [Small(T, m) -> Int]
    BY <2>2
  <2>4. \A s \in Small(T, m - 1) : s \in Small(T, m) /\ h[s] = g[s]
    <3> SUFFICES ASSUME NEW s \in Small(T, m - 1) PROVE s \in Small(T, m) /\ h[s] = g[s]
      OBVIOUS
    <3>1. s \in Small(T, m)
      <4>1. s \in SUBSET T /\ Cardinality(s) <= m - 1 /\ IsFiniteSet(s)
        BY FS_Subset DEF Small
      <4>2. Cardinality(s) \in Nat
        BY <4>1, FS_CardinalityType
      <4> QED BY <1>2, <4>1, <4>2 DEF Small
    <3>2. g[s] = IF s = {} THEN 0 ELSE f[Pick(s)] + g[s \ {Pick(s)}]
      BY <2>1 DEF Adds
    <3> QED BY <3>1, <3>2
  <2>5. Adds(h, f)
    <3> SUFFICES ASSUME NEW s \in Small(T, m)
                 PROVE  h[s] = IF s = {} THEN 0 ELSE f[Pick(s)] + h[s \ {Pick(s)}]
      BY DEF Adds
    <3>1. CASE s = {}
      BY <3>1
    <3>2. CASE s # {}
      <4>1. h[s] = f[Pick(s)] + g[s \ {Pick(s)}]
        BY <3>2
      <4>2. h[s \ {Pick(s)}] = g[s \ {Pick(s)}]
        BY <2>2, <2>4, <3>2
      <4> HIDE DEF h
      <4> QED BY <3>2, <4>1, <4>2
    <3> QED BY <3>1, <3>2
  <2> HIDE DEF h
  <2> QED BY <1>2, <2>3, <2>5
<1> QED BY <1>4, <1>5

\* g gives the sum of f over T and over each of its subsets.
Sums(g, f, T) ==
  g \in [SUBSET T -> Int] /\ Adds(g, f) /\ SumFunctionOnSet(f, T) = g[T]

LEMMA SumAdds ==
  ASSUME NEW S, NEW f \in [S -> Int], NEW T \in SUBSET S, IsFiniteSet(T)
  PROVE  \E g : Sums(g, f, T)
<1> DEFINE Sum(h) == h = [s \in SUBSET T |-> IF s = {} THEN 0 ELSE f[Pick(s)] + h[s \ {Pick(s)}]]
           sum == CHOOSE h : Sum(h)
<1>1. SumFunctionOnSet(f, T) = sum[T]
  BY SumUnfolds
<1>2. \E h : Sum(h)
  <2>1. Cardinality(T) \in Nat
    BY FS_CardinalityType
  <2>2. Small(T, Cardinality(T)) = SUBSET T
    <3>1. \A s \in SUBSET T : Cardinality(s) <= Cardinality(T)
      BY FS_Subset
    <3> QED BY <3>1 DEF Small
  <2>3. PICK g \in [SUBSET T -> Int] : Adds(g, f)
    BY <2>1, <2>2, SumsExist
  <2>4. Sum(g)
    BY <2>3 DEF Adds
  <2> QED BY <2>4
<1>3. Sum(sum)
  BY <1>2
<1>4. \A s \in SUBSET T : sum[s] = IF s = {} THEN 0 ELSE f[Pick(s)] + sum[s \ {Pick(s)}]
  BY <1>3
<1>5. DOMAIN sum = SUBSET T /\ sum = [s \in SUBSET T |-> sum[s]]
  <2>1. sum = [s \in SUBSET T |-> IF s = {} THEN 0 ELSE f[Pick(s)] + sum[s \ {Pick(s)}]]
    BY <1>3
  <2> HIDE DEF sum
  <2> QED BY <2>1
<1> HIDE DEF sum
<1> DEFINE B == {n \in Nat : \E s \in SUBSET T : Cardinality(s) = n /\ sum[s] \notin Int}
<1>6. B = {}
  <2> SUFFICES ASSUME B # {} PROVE FALSE
    OBVIOUS
  <2>1. PICK n \in B : \A m \in B : n <= m
    BY Least
  <2>2. PICK s \in SUBSET T : Cardinality(s) = n /\ sum[s] \notin Int
    OBVIOUS
  <2>3. s # {}
    <3>1. s = {} => sum[s] = 0
      BY <1>4
    <3> QED BY <2>2, <3>1
  <2> DEFINE u == s \ {Pick(s)}
  <2>4. u \in SUBSET T /\ Cardinality(u) = n - 1 /\ Pick(s) \in S /\ n \in Nat \ {0}
    <3>1. /\ Pick(s) \in s /\ u \in SUBSET T /\ Cardinality(s) \in Nat \ {0}
          /\ Cardinality(u) = Cardinality(s) - 1
      BY <2>3, Smaller
    <3> QED BY <2>2, <3>1
  <2>5. sum[u] \in Int
    <3>1. n - 1 \notin B
      BY <2>1, <2>4
    <3> QED BY <2>4, <3>1
  <2>6. sum[s] = f[Pick(s)] + sum[u]
    BY <1>4, <2>3
  <2> HIDE DEF u
  <2> QED BY <2>2, <2>4, <2>5, <2>6
<1>7. ASSUME NEW s \in SUBSET T PROVE sum[s] \in Int
  <2>1. Cardinality(s) \in Nat
    BY FS_Subset, FS_CardinalityType
  <2> QED BY <1>6, <2>1
<1>8. sum \in [SUBSET T -> Int]
  BY <1>5, <1>7
<1>9. Adds(sum, f)
  BY <1>4, <1>5 DEF Adds
<1> QED BY <1>1, <1>8, <1>9 DEF Sums

\* A sum of integers over a finite set is an integer.
LEMMA SumType ==
  ASSUME NEW S, NEW f \in [S -> Int], NEW T \in SUBSET S, IsFiniteSet(T)
  PROVE  SumFunctionOnSet(f, T) \in Int
<1>1. PICK g : Sums(g, f, T)
  BY SumAdds
<1> QED BY <1>1 DEF Sums

\* What adds up the same numbers comes to the same.
LEMMA SumsAgree ==
  ASSUME NEW T, IsFiniteSet(T), NEW f, NEW h, \A x \in T : f[x] = h[x],
         NEW F, NEW H, Adds(F, f), Adds(H, h), SUBSET T \subseteq DOMAIN F, SUBSET T \subseteq DOMAIN H
  PROVE  F[T] = H[T]
<1> DEFINE B == {n \in Nat : \E s \in SUBSET T : Cardinality(s) = n /\ F[s] # H[s]}
<1>1. B = {}
  <2> SUFFICES ASSUME B # {} PROVE FALSE
    OBVIOUS
  <2>1. PICK n \in B : \A m \in B : n <= m
    BY Least
  <2>2. PICK s \in SUBSET T : Cardinality(s) = n /\ F[s] # H[s]
    OBVIOUS
  <2> DEFINE u == s \ {Pick(s)}
  <2>3. /\ F[s] = IF s = {} THEN 0 ELSE f[Pick(s)] + F[u]
        /\ H[s] = IF s = {} THEN 0 ELSE h[Pick(s)] + H[u]
    BY DEF Adds
  <2>4. s # {}
    BY <2>2, <2>3
  <2>5. Pick(s) \in T /\ u \in SUBSET T /\ Cardinality(u) = n - 1 /\ n \in Nat \ {0}
    <3>1. /\ Pick(s) \in s /\ u \in SUBSET T /\ Cardinality(s) \in Nat \ {0}
          /\ Cardinality(u) = Cardinality(s) - 1
      BY <2>4, Smaller
    <3> QED BY <2>2, <3>1
  <2>6. F[u] = H[u]
    <3>1. n - 1 \notin B
      BY <2>1, <2>5
    <3> QED BY <2>5, <3>1
  <2> HIDE DEF u
  <2> QED BY <2>2, <2>3, <2>4, <2>5, <2>6
<1>2. Cardinality(T) \in Nat
  BY FS_CardinalityType
<1> QED BY <1>1, <1>2

\* Any element may be taken out of a sum first, whichever the definition picks.
LEMMA SumWithout ==
  ASSUME NEW S, NEW f \in [S -> Int], NEW T \in SUBSET S, IsFiniteSet(T), NEW x \in T
  PROVE  SumFunctionOnSet(f, T) = f[x] + SumFunctionOnSet(f, T \ {x})
<1>1. PICK g : Sums(g, f, T)
  BY SumAdds
<1>1a. g \in [SUBSET T -> Int] /\ Adds(g, f) /\ SumFunctionOnSet(f, T) = g[T]
  BY <1>1 DEF Sums
<1>2. SumFunctionOnSet(f, T \ {x}) = g[T \ {x}]
  <2>1. T \ {x} \in SUBSET S /\ IsFiniteSet(T \ {x})
    BY FS_Subset
  <2>2. PICK h : Sums(h, f, T \ {x})
    BY <2>1, SumAdds
  <2>3. SUBSET (T \ {x}) \subseteq DOMAIN g /\ SUBSET (T \ {x}) \subseteq DOMAIN h
    BY <1>1a, <2>2 DEF Sums
  <2>4. h[T \ {x}] = g[T \ {x}]
    BY <1>1a, <2>1, <2>2, <2>3, SumsAgree DEF Sums
  <2> QED BY <2>2, <2>4 DEF Sums
<1> DEFINE B == {n \in Nat : \E s \in SUBSET T : \E y \in s :
                   Cardinality(s) = n /\ g[s] # f[y] + g[s \ {y}]}
<1>3. B = {}
  <2> SUFFICES ASSUME B # {} PROVE FALSE
    OBVIOUS
  <2>1. PICK n \in B : \A m \in B : n <= m
    BY Least
  <2>2a. PICK s \in SUBSET T : \E y \in s : Cardinality(s) = n /\ g[s] # f[y] + g[s \ {y}]
    OBVIOUS
  <2>2. PICK y \in s : Cardinality(s) = n /\ g[s] # f[y] + g[s \ {y}]
    BY <2>2a
  <2> DEFINE z == Pick(s)
  <2>3. z \in s /\ IsFiniteSet(s) /\ g[s] = f[z] + g[s \ {z}] /\ z # y
    <3>1. z \in s /\ IsFiniteSet(s)
      BY FS_Subset DEF Pick
    <3>2. g[s] = f[z] + g[s \ {z}]
      BY <1>1a, <3>1 DEF Adds
    <3> QED BY <2>2, <3>1, <3>2
  <2> HIDE DEF z
  <2>4. ASSUME NEW w \in s, NEW v \in s \ {w}
        PROVE  g[s \ {w}] = f[v] + g[(s \ {w}) \ {v}]
    <3>1. n \in Nat /\ Cardinality(s \ {w}) = n - 1 /\ Cardinality(s \ {w}) \in Nat
      <4>1. IsFiniteSet(s \ {w})
        BY <2>3, FS_Subset
      <4>2. Cardinality(s \ {w}) \in Nat
        BY <4>1, FS_CardinalityType
      <4>3. Cardinality(s \ {w}) = Cardinality(s) - 1
        BY <2>3, FS_RemoveElement
      <4>4. n \in Nat
        OBVIOUS
      <4> QED BY <2>2, <4>2, <4>3, <4>4
    <3>2. n - 1 \notin B
      <4> HIDE DEF B
      <4> QED BY <2>1, <3>1
    <3>3. s \ {w} \in SUBSET T
      OBVIOUS
    <3> QED BY <3>1, <3>2, <3>3
  <2>5. g[s \ {z}] = f[y] + g[(s \ {z}) \ {y}] /\ g[s \ {y}] = f[z] + g[(s \ {y}) \ {z}]
    BY <2>3, <2>4
  <2>6. (s \ {z}) \ {y} = (s \ {y}) \ {z}
    OBVIOUS
  <2>7. f[y] \in Int /\ f[z] \in Int /\ g[(s \ {y}) \ {z}] \in Int
    <3>1. y \in S /\ z \in S
      BY <2>3
    <3> DEFINE u == (s \ {y}) \ {z}
    <3>2. u \in SUBSET T
      OBVIOUS
    <3> HIDE DEF u, B
    <3>3. g[u] \in Int
      BY <1>1a, <3>2
    <3> QED BY <3>1, <3>3 DEF u
  <2>8. g[s] = f[z] + (f[y] + g[(s \ {y}) \ {z}])
    BY <2>3, <2>5, <2>6
  <2>9. f[y] + g[s \ {y}] = f[y] + (f[z] + g[(s \ {y}) \ {z}])
    BY <2>5
  <2>10. \A i, j, k \in Int : i + (j + k) = j + (i + k)
    OBVIOUS
  <2> HIDE DEF B
  <2> QED BY <2>2, <2>7, <2>8, <2>9, <2>10
<1>4. Cardinality(T) \in Nat
  BY FS_CardinalityType
<1>5. g[T] = f[x] + g[T \ {x}]
  BY <1>3, <1>4
<1> QED BY <1>1a, <1>2, <1>5

\* A sum looks at the numbers of its set only.
LEMMA SumOfSame ==
  ASSUME NEW S, NEW f \in [S -> Int], NEW R, NEW h \in [R -> Int],
         NEW T \in SUBSET (S \cap R), IsFiniteSet(T), \A x \in T : f[x] = h[x]
  PROVE  SumFunctionOnSet(f, T) = SumFunctionOnSet(h, T)
<1>0. T \in SUBSET S /\ T \in SUBSET R
  OBVIOUS
<1>1. PICK F : Sums(F, f, T)
  BY <1>0, SumAdds
<1>2. PICK H : Sums(H, h, T)
  BY <1>0, SumAdds
<1>3. SUBSET T \subseteq DOMAIN F /\ SUBSET T \subseteq DOMAIN H
  BY <1>1, <1>2 DEF Sums
<1>4. F[T] = H[T]
  BY <1>1, <1>2, <1>3, SumsAgree DEF Sums
<1> QED BY <1>1, <1>2, <1>4 DEF Sums
-----------------------------------------------------------------------------
(* Types *)

Signalled == UNION {[S -> {Unspecified} \cup 0 .. Whole] : S \in SUBSET Stock}

\* What Solvent leaves out: the days, the signal and the rebalance.
Planned ==
  /\ day \in 1 .. Horizon + 1 /\ phase \in {"open", "sell", "buy", "close"}
  /\ phase # "open" => day <= Horizon
  /\ pending # NoSignal => pending.on \in 1 .. day /\ pending.targets \in Signalled
  /\ weights \in Weights /\ nav \in Int
  /\ todo \subseteq Stock /\ bought \subseteq Stock
  /\ phase \in {"open", "close"} => todo = {}

LEMMA PlannedInit == Init => Planned
<1> SUFFICES ASSUME Init PROVE Planned
  OBVIOUS
<1>1. NoWeights \in [{} -> 0 .. Whole]
  BY DEF NoWeights
<1>2. NoWeights \in Weights
  BY <1>1 DEF Weights
<1> QED BY <1>2, BacktestAssumption DEF Init, Planned

LEMMA FiniteStocks ==
  ASSUME NEW S \in SUBSET Stock
  PROVE  IsFiniteSet(S) /\ Cardinality(S) \in Nat
BY BacktestAssumption, FS_Subset, FS_CardinalityType

\* A weight left out is no more than the configuration allows, and never negative.
LEMMA CappedType ==
  ASSUME config \in Config, NEW S \in SUBSET Stock,
         NEW targets \in [S -> {Unspecified} \cup 0 .. Whole]
  PROVE  Capped(targets) \in [S -> 0 .. Whole]
<1> DEFINE given == {s \in S : targets[s] # Unspecified}
           left  == Whole - SumFunctionOnSet(targets, given)
           n     == Cardinality(S \ given)
<1>0. DOMAIN targets = S /\ Whole \in Nat /\ config.maxWeight \in 0 .. Whole
  BY BacktestAssumption
<1>1. left \in Int
  <2>1. targets \in [S -> Int] /\ given \in SUBSET S
    BY <1>0 DEF Unspecified
  <2>2. IsFiniteSet(given)
    BY FiniteStocks
  <2>3. SumFunctionOnSet(targets, given) \in Int
    BY <2>1, <2>2, SumType
  <2> QED BY <1>0, <2>3
<1>2. EqualShare(targets) = IF left < 0 THEN 0 ELSE left \div n
  BY <1>0 DEF EqualShare
<1>3. ASSUME NEW s \in S, targets[s] = Unspecified PROVE n \in Nat \ {0}
  <2>1. s \in S \ given
    BY <1>3
  <2>2. IsFiniteSet(S \ given) /\ n \in Nat
    BY FiniteStocks
  <2>3. n # 0
    BY <2>1, <2>2, FS_EmptySet
  <2> QED BY <2>2, <2>3
<1> HIDE DEF left, n
<1>4. ASSUME NEW s \in S, targets[s] = Unspecified PROVE EqualShare(targets) \in Nat
  BY <1>1, <1>2, <1>3, <1>4
<1>5. ASSUME NEW s \in S PROVE Capped(targets)[s] \in 0 .. Whole
  <2> DEFINE w == IF targets[s] = Unspecified THEN EqualShare(targets) ELSE targets[s]
  <2>1. w \in Nat
    BY <1>4, <1>0
  <2>2. Capped(targets)[s] = IF w > config.maxWeight THEN config.maxWeight ELSE w
    BY <1>0 DEF Capped
  <2> HIDE DEF w
  <2> QED BY <1>0, <2>1, <2>2
<1> QED BY <1>0, <1>5 DEF Capped

LEMMA WeightsType ==
  ASSUME config \in Config, NEW targets \in Signalled, NEW w \in EffectiveWeights(targets)
  PROVE  w \in Weights
<1>1. PICK S \in SUBSET Stock : targets \in [S -> {Unspecified} \cup 0 .. Whole]
  BY DEF Signalled
<1>2. Capped(targets) \in [S -> 0 .. Whole]
  BY <1>1, CappedType
<1>3. PICK R \in SUBSET DOMAIN Capped(targets) : w = Restrict(Capped(targets), R)
  BY DEF EffectiveWeights
<1>4. R \in SUBSET Stock /\ w \in [R -> 0 .. Whole]
  BY <1>2, <1>3 DEF Restrict
<1> QED BY <1>4 DEF Weights

LEMMA IntersectType ==
  ASSUME NEW targets \in Signalled, NEW members
  PROVE  Intersect(targets, members) \in Signalled
<1>1. PICK S \in SUBSET Stock : targets \in [S -> {Unspecified} \cup 0 .. Whole]
  BY DEF Signalled
<1>2. /\ S \cap members \in SUBSET Stock
      /\ Intersect(targets, members) \in [S \cap members -> {Unspecified} \cup 0 .. Whole]
  BY <1>1 DEF Intersect, Restrict
<1> QED BY <1>2 DEF Signalled

Values == [s \in Held |-> shares[s] * ValuePrice(s)]

ValuesTyped ==
  Values \in [Held -> Int] /\ IsFiniteSet(Held) /\ PositionValue = SumFunctionOnSet(Values, Held)

LEMMA ValuePriceType ==
  ASSUME Solvent, NEW s \in Stock
  PROVE  ValuePrice(s) \in Nat
<1>1. bars[s] \in Bar /\ Price(bars[s]) \in Nat
  BY PriceType DEF Solvent
<1>2. bars[s] # NoBar => bars[s].market.close \in Nat \cup {NoPrice}
  BY <1>1, NumbersHold DEF Numbers, Bar
<1> QED BY <1>1, <1>2 DEF ValuePrice

LEMMA ValuesType == Solvent => ValuesTyped
<1> SUFFICES ASSUME Solvent PROVE ValuesTyped
  OBVIOUS
<1>1. ASSUME NEW s \in Held PROVE shares[s] * ValuePrice(s) \in Int
  <2>1. s \in Stock /\ shares[s] \in Nat
    BY DEF Held, Solvent
  <2>2. ValuePrice(s) \in Nat
    BY <2>1, ValuePriceType
  <2> QED BY <2>1, <2>2
<1>2. Values \in [Held -> Int] /\ DOMAIN Values = Held
  BY <1>1 DEF Values
<1>3. IsFiniteSet(Held)
  BY FiniteStocks DEF Held
<1> QED BY <1>2, <1>3 DEF ValuesTyped, PositionValue, SumFunction, Values

LEMMA ValuesTypeNext == Solvent' => ValuesTyped'
BY ValuesType, PTL

\* The portfolio is valued in integers, however many positions it has.
LEMMA ValueType ==
  ASSUME Solvent
  PROVE  PositionValue \in Int
BY ValuesType, SumType DEF ValuesTyped

LEMMA PlannedStep ==
  ASSUME Solvent, Solvent', Planned, [Next]_vars
  PROVE  Planned'
<1>0. Horizon \in Nat
  BY BacktestAssumption
<1>1. CASE OpenDay
  <2>1. UNCHANGED <<day, pending, nav, bought>> /\ phase = "open" /\ day <= Horizon
    BY <1>1 DEF OpenDay
  <2>2. CASE phase' = "close" /\ UNCHANGED <<weights, todo>>
    BY <2>1, <2>2 DEF Planned
  <2>3. CASE phase' # "close"
    <3>1. PICK members \in Universe :
            /\ pending # NoSignal /\ phase' = "sell"
            /\ weights' \in EffectiveWeights(Executable(members))
            /\ todo' = Held' \ DOMAIN weights'
      BY <1>1, <2>3 DEF OpenDay
    <3>2. Executable(members) \in Signalled
      BY <3>1, IntersectType DEF Planned, Executable
    <3>3. weights' \in Weights
      BY <3>1, <3>2, WeightsType DEF Solvent
    <3>4. todo' \subseteq Stock
      BY <3>1 DEF Held
    <3> QED BY <2>1, <3>1, <3>3, <3>4 DEF Planned
  <2> QED BY <1>1, <2>2, <2>3 DEF OpenDay
<1>2. CASE StartBuys
  <2>1. nav' \in Int
    BY <1>2, ValueType DEF StartBuys, Solvent
  <2>2. DOMAIN weights \subseteq Stock
    BY DEF Planned, Weights
  <2> QED BY <1>2, <2>1, <2>2 DEF StartBuys, Planned
<1>3. CASE EndRebalance
  <2>1. NoWeights \in [{} -> 0 .. Whole]
    BY DEF NoWeights
  <2>2. NoWeights \in Weights
    BY <2>1 DEF Weights
  <2> QED BY <1>3, <2>2 DEF EndRebalance, Planned
<1>4. CASE CloseDay
  <2>1. /\ phase = "close" /\ phase' = "open" /\ day' = day + 1
        /\ UNCHANGED <<weights, nav, todo, bought>>
    BY <1>4 DEF CloseDay, NextDay
  <2>2. day \in 1 .. Horizon /\ day' \in 1 .. Horizon + 1
    BY <1>0, <2>1 DEF Planned
  <2>3. pending' # NoSignal => pending'.on \in 1 .. day' /\ pending'.targets \in Signalled
    <3>1. CASE pending' = pending
      BY <2>1, <2>2, <3>1 DEF Planned
    <3>2. ASSUME NEW t \in Target, NEW members \in Universe,
                 pending' = [targets |-> Intersect(t, members), on |-> day]
          PROVE  pending'.on \in 1 .. day' /\ pending'.targets \in Signalled
      <4>1. t \in Signalled
        BY BacktestAssumption DEF Signalled
      <4>2. pending'.targets \in Signalled
        BY <3>2, <4>1, IntersectType
      <4> QED BY <2>1, <2>2, <3>2, <4>2
    <3> QED BY <1>4, <3>1, <3>2 DEF CloseDay, Signals
  <2> QED BY <2>1, <2>2, <2>3 DEF Planned
<1>5. ASSUME NEW s \in Stock, Sell(s) \/ Buy(s) \/ PassOver(s) PROVE Planned'
  <2>1. /\ UNCHANGED <<day, phase, pending, weights, nav>> /\ phase \in {"sell", "buy"}
        /\ todo' = todo \ {s} /\ bought' \subseteq bought \cup {s}
    BY <1>5 DEF Sell, Buy, PassOver
  <2> QED BY <2>1 DEF Planned
<1>6. CASE UNCHANGED vars
  BY <1>6 DEF vars, Planned
<1> QED BY <1>1, <1>2, <1>3, <1>4, <1>5, <1>6 DEF Next

\* Whatever the market does, the engine's state stays in its types: weights between nothing and
\* the whole, a value of the portfolio that is a number, no order left behind at the end of a day.
THEOREM TypeCorrect == Spec => []TypeOK
<1>1. Solvent /\ Planned => TypeOK
  BY DEF Solvent, Planned, TypeOK
<1>2. Spec => [](Solvent /\ Planned)
  BY SolventInit, SolventStep, PlannedInit, PlannedStep, PTL DEF Spec
<1> QED BY <1>1, <1>2, PTL
-----------------------------------------------------------------------------
(* Purchases *)

\* What a rebalance has bought is within its target and not among the orders to come.
Within ==
  /\ phase # "buy" => bought = {}
  /\ phase = "buy" =>
       /\ bought \subseteq DOMAIN weights /\ todo \subseteq DOMAIN weights /\ bought \cap todo = {}
       /\ \A s \in bought : shares[s] * Price(bars[s]) * Whole <= nav * weights[s]

LEMMA WithinInit == Init => Within
BY DEF Init, Within

\* A number of units within the quotient is worth no more than what was divided.
LEMMA Covered ==
  ASSUME NEW a \in Int, NEW u \in Nat \ {0}, NEW n \in Nat, n <= a \div u
  PROVE  n * u <= a
<1> DEFINE q == a \div u
<1>1. q \in Int /\ u * q <= a
  OBVIOUS
<1> HIDE DEF q
<1>2. q \in Nat /\ n <= q
  BY <1>1 DEF q
<1>3. u * n <= u * q /\ u * n = n * u
  BY <1>2, Product
<1> QED BY <1>1, <1>2, <1>3

\* An order takes a position no further than its target.
LEMMA OrderWithin ==
  ASSUME Solvent, Planned, NEW s \in DOMAIN weights, NEW lots \in 1 .. LotsWanted(s), CanBuy(bars[s])
  PROVE  (shares[s] + lots * LotSize) * Price(bars[s]) * Whole <= nav * weights[s]
<1> DEFINE price == Price(bars[s])
           held  == shares[s]
           aim   == nav * weights[s]
           have  == cash * Whole
           available == IF have < Missing(s) THEN have ELSE Missing(s)
<1>0. /\ s \in Stock /\ held \in Nat /\ cash \in Int /\ aim \in Int
      /\ Whole \in Nat \ {0} /\ LotSize \in Nat \ {0}
  <2>1. PICK S \in SUBSET Stock : weights \in [S -> 0 .. Whole]
    BY DEF Planned, Weights
  <2>2. s \in Stock /\ weights[s] \in Int
    BY <2>1, BacktestAssumption
  <2> QED BY <2>2, BacktestAssumption DEF Solvent, Planned
<1>1. price \in Nat \ {0}
  BY <1>0, PriceType DEF CanBuy, Solvent
<1>2. Missing(s) = aim - held * price * Whole
  BY DEF Missing
<1> HIDE DEF price, held, aim
<1>3. have \in Int /\ Missing(s) \in Int
  BY <1>0, <1>1, <1>2
<1>4. LotsWanted(s) = available \div (price * LotSize * Whole)
  <2>1. LotsWanted(s) # 0
    BY <1>0
  <2> QED BY <2>1 DEF LotsWanted, price
<1>5. available \in Int /\ available <= Missing(s)
  BY <1>3
<1> DEFINE unit == price * LotSize * Whole
<1>6. unit \in Nat \ {0}
  BY <1>0, <1>1
<1> HIDE DEF available, unit
<1>7. lots \in Nat /\ lots <= available \div unit
  BY <1>4 DEF unit
<1>8. lots * unit <= available
  BY <1>5, <1>6, <1>7, Covered
<1>9. lots * unit <= aim - held * price * Whole
  BY <1>2, <1>3, <1>5, <1>6, <1>7, <1>8
<1>10. (held + lots * LotSize) * price * Whole = held * price * Whole + lots * unit
  BY <1>0, <1>1, <1>7 DEF unit
<1>11. held * price * Whole \in Int /\ lots * unit \in Int
  BY <1>0, <1>1, <1>6, <1>7
<1>12. (held + lots * LotSize) * price * Whole <= aim
  BY <1>0, <1>9, <1>10, <1>11
<1> QED BY <1>12 DEF held, price, aim

LEMMA WithinStep ==
  ASSUME Solvent, Planned, Within, [Next]_vars
  PROVE  Within'
<1>1. CASE OpenDay
  BY <1>1 DEF OpenDay, Within
<1>2. CASE StartBuys
  BY <1>2 DEF StartBuys, Within
<1>3. CASE EndRebalance \/ CloseDay
  BY <1>3 DEF EndRebalance, CloseDay, Within
<1>4. ASSUME NEW s \in Stock, Sell(s) PROVE Within'
  BY <1>4 DEF Sell, Within
<1>5. ASSUME UNCHANGED <<config, bars>> PROVE \A s : Price(bars[s])' = Price(bars[s])
  BY <1>5 DEF Price
<1>6. ASSUME NEW s \in Stock, PassOver(s) PROVE Within'
  <2>1. \A t : Price(bars[t])' = Price(bars[t])
    BY <1>5, <1>6 DEF PassOver
  <2> QED BY <1>6, <2>1 DEF PassOver, Within
<1>7. ASSUME NEW s \in Stock, Buy(s) PROVE Within'
  <2>1. /\ phase = "buy" /\ s \in todo /\ todo' = todo \ {s} /\ bought' = bought \cup {s}
        /\ CanBuy(bars[s]) /\ UNCHANGED <<config, phase, bars, weights, nav>>
    BY <1>7 DEF Buy
  <2>2. PICK lots \in 1 .. LotsWanted(s) : shares' = [shares EXCEPT ![s] = @ + lots * LotSize]
    BY <1>7 DEF Buy
  <2>3. \A t : Price(bars[t])' = Price(bars[t])
    BY <1>5, <2>1
  <2>4. s \in DOMAIN weights /\ s \notin bought
    BY <2>1 DEF Within
  <2>5. shares'[s] = shares[s] + lots * LotSize /\ \A t \in Stock \ {s} : shares'[t] = shares[t]
    BY <2>2 DEF Solvent
  <2>6. shares'[s] * Price(bars[s])' * Whole <= nav' * weights'[s]
    BY <2>1, <2>3, <2>4, <2>5, OrderWithin
  <2>7. ASSUME NEW t \in bought
        PROVE  shares'[t] * Price(bars[t])' * Whole <= nav' * weights'[t]
    <3>1. t \in Stock \ {s}
      BY <2>4 DEF Planned
    <3>2. shares[t] * Price(bars[t]) * Whole <= nav * weights[t]
      BY <2>1 DEF Within
    <3> QED BY <2>1, <2>3, <2>5, <3>1, <3>2
  <2> QED BY <2>1, <2>4, <2>6, <2>7 DEF Within
<1>8. CASE UNCHANGED vars
  <2>1. \A t : Price(bars[t])' = Price(bars[t])
    BY <1>5, <1>8 DEF vars
  <2> QED BY <1>8, <2>1 DEF vars, Within
<1> QED BY <1>1, <1>2, <1>3, <1>4, <1>6, <1>7, <1>8 DEF Next

\* No purchase takes a position above its target weight, for any prices, costs and portfolio and
\* whatever the same rebalance has bought before.
THEOREM PurchasesWithinTarget == Spec => []BoughtWithinTarget
<1>1. Within => BoughtWithinTarget
  BY DEF Within, BoughtWithinTarget
<1>2. Spec => [](Solvent /\ Planned)
  BY SolventInit, SolventStep, PlannedInit, PlannedStep, PTL DEF Spec
<1>3. Spec => []Within
  BY <1>2, WithinInit, WithinStep, PTL DEF Spec
<1> QED BY <1>1, <1>3, PTL
-----------------------------------------------------------------------------
(* Debt *)

\* executeTrades buys nothing on credit, for any costs, prices and factors: while a rebalance buys,
\* cash is what its purchases left, and what is missing otherwise is what sales cost beyond
\* their amounts.
THEOREM DebtIsBounded == Spec => []DebtIsFromSales
<1> DEFINE Paid == bought # {} => cash >= 0
<1>1. Init => Paid
  BY DEF Init
<1>2. ASSUME Solvent, Within, Paid, [Next]_vars PROVE Paid'
  <2>1. CASE OpenDay \/ StartBuys \/ EndRebalance \/ CloseDay \/ UNCHANGED vars
    BY <1>2, <2>1 DEF OpenDay, StartBuys, EndRebalance, CloseDay, vars
  <2>2. ASSUME NEW s \in Stock, Sell(s) PROVE Paid'
    BY <1>2, <2>2 DEF Sell, Within
  <2>3. ASSUME NEW s \in Stock, Buy(s) PROVE Paid'
    BY <1>2, <2>3, PurchaseIsPaid
  <2>4. ASSUME NEW s \in Stock, PassOver(s) PROVE Paid'
    BY <1>2, <2>4 DEF PassOver
  <2> QED BY <1>2, <2>1, <2>2, <2>3, <2>4 DEF Next
<1>3. Solvent /\ Paid => DebtIsFromSales
  BY DEF Solvent, DebtIsFromSales
<1>4. Spec => [](Solvent /\ Planned)
  BY SolventInit, SolventStep, PlannedInit, PlannedStep, PTL DEF Spec
<1>5. Spec => []Within
  BY <1>4, WithinInit, WithinStep, PTL DEF Spec
<1> QED BY <1>1, <1>2, <1>3, <1>4, <1>5, PTL DEF Spec
-----------------------------------------------------------------------------
(* Value *)

\* A purchase adds the value of what it bought and touches no other position's.
LEMMA PurchaseAdds ==
  ASSUME Solvent, Solvent', NEW s \in Stock, NEW more \in Nat \ {0},
         shares' = [shares EXCEPT ![s] = @ + more], UNCHANGED <<config, bars>>
  PROVE  PositionValue' = PositionValue + more * ValuePrice(s)
<1> DEFINE rest == Held \ {s}
<1>0. \A t : ValuePrice(t)' = ValuePrice(t)
  BY DEF ValuePrice, Price
<1>1. shares'[s] = shares[s] + more /\ \A t \in Stock \ {s} : shares'[t] = shares[t]
  BY DEF Solvent
<1>2. shares[s] \in Nat /\ ValuePrice(s) \in Nat
  BY ValuePriceType DEF Solvent
<1>3. s \in Held' /\ Held' \ {s} = rest
  BY <1>1, <1>2 DEF Held
<1>4. /\ Values \in [Held -> Int] /\ IsFiniteSet(Held) /\ PositionValue = SumFunctionOnSet(Values, Held)
      /\ Values' \in [Held' -> Int] /\ IsFiniteSet(Held')
      /\ PositionValue' = SumFunctionOnSet(Values', Held')
  BY ValuesType, ValuesTypeNext DEF ValuesTyped
<1>5. PositionValue' = Values'[s] + SumFunctionOnSet(Values', rest)
  BY <1>3, <1>4, SumWithout
<1>6. SumFunctionOnSet(Values', rest) = SumFunctionOnSet(Values, rest)
  <2>1. rest \in SUBSET (Held' \cap Held) /\ IsFiniteSet(rest)
    BY <1>3, <1>4, FS_Subset
  <2>2. ASSUME NEW t \in rest PROVE Values'[t] = Values[t]
    <3>1. t \in Held /\ t \in Held' /\ shares'[t] = shares[t]
      BY <1>1, <1>3 DEF Held
    <3> QED BY <1>0, <3>1 DEF Values
  <2> QED BY <1>4, <2>1, <2>2, SumOfSame
<1>7. Values'[s] = (shares[s] + more) * ValuePrice(s)
  BY <1>0, <1>1, <1>3 DEF Values
<1>8. SumFunctionOnSet(Values, rest) \in Int
  <2>1. rest \in SUBSET Held /\ IsFiniteSet(rest)
    BY <1>4, FS_Subset
  <2> QED BY <1>4, <2>1, SumType
<1>9. PositionValue = shares[s] * ValuePrice(s) + SumFunctionOnSet(Values, rest)
  <2>1. CASE s \in Held
    <3>1. PositionValue = Values[s] + SumFunctionOnSet(Values, rest)
      BY <1>4, <2>1, SumWithout
    <3>2. Values[s] = shares[s] * ValuePrice(s)
      BY <2>1 DEF Values
    <3> QED BY <3>1, <3>2
  <2>2. CASE s \notin Held
    <3>1. shares[s] = 0 /\ rest = Held
      BY <1>2, <2>2 DEF Held
    <3>2. shares[s] * ValuePrice(s) = 0
      BY <1>2, <3>1
    <3>3. PositionValue = SumFunctionOnSet(Values, rest)
      BY <1>4, <3>1
    <3> HIDE DEF rest
    <3> QED BY <1>8, <3>2, <3>3
  <2> QED BY <2>1, <2>2
<1> DEFINE others == SumFunctionOnSet(Values, rest)
           price  == ValuePrice(s)
           held   == shares[s]
<1>10. PositionValue' = (held + more) * price + others /\ PositionValue = held * price + others
  BY <1>5, <1>6, <1>7, <1>9
<1>11. held \in Nat /\ price \in Nat /\ others \in Int
  BY <1>2, <1>8
<1> HIDE DEF others, price, held
<1>12. (held + more) * price = held * price + more * price
  BY <1>11
<1>13. held * price \in Int /\ more * price \in Int
  BY <1>11
<1>14. PositionValue' = PositionValue + more * price
  BY <1>10, <1>11, <1>12, <1>13
<1> QED BY <1>14 DEF price

LEMMA GainInit == Init => NothingGained
BY DEF Init, NothingGained

LEMMA GainStep ==
  ASSUME Solvent, Solvent', Planned, NothingGained, [Next]_vars
  PROVE  NothingGained'
<1>1. CASE phase' # "buy"
  BY <1>1 DEF NothingGained
<1>2. ASSUME UNCHANGED <<config, bars>>
      PROVE  \A s : Price(bars[s])' = Price(bars[s]) /\ ValuePrice(s)' = ValuePrice(s)
  BY <1>2 DEF Price, ValuePrice
<1>3. ASSUME UNCHANGED <<shares, config, bars>> PROVE PositionValue' = PositionValue
  BY <1>3 DEF PositionValue, Held, Price, ValuePrice
<1>4. PositionValue \in Int /\ cash \in Int
  BY ValueType DEF Solvent
<1>5. CASE StartBuys
  <2>1. nav' = cash + PositionValue /\ cash' = cash /\ PositionValue' = PositionValue
    BY <1>3, <1>5 DEF StartBuys
  <2> QED BY <1>4, <2>1 DEF NothingGained
<1>6. ASSUME NEW s \in Stock, PassOver(s) PROVE NothingGained'
  <2>1. PositionValue' = PositionValue /\ UNCHANGED <<phase, cash, nav, config, bars>>
    BY <1>3, <1>6 DEF PassOver
  <2> QED BY <1>2, <2>1 DEF NothingGained
<1>7. ASSUME NEW s \in Stock, Buy(s) PROVE NothingGained'
  <2>1. UNCHANGED <<phase, nav, config, bars>> /\ phase = "buy" /\ CanBuy(bars[s])
    BY <1>7 DEF Buy
  <2>2. PICK lots \in 1 .. LotsWanted(s) :
          /\ cash' = cash - BuyCost(lots * LotSize * Price(bars[s]))
          /\ shares' = [shares EXCEPT ![s] = @ + lots * LotSize]
    BY <1>7 DEF Buy
  <2> DEFINE more == lots * LotSize
  <2>3. more \in Nat \ {0}
    BY BacktestAssumption
  <2> HIDE DEF more
  <2>4. PositionValue' = PositionValue + more * ValuePrice(s)
    BY <2>1, <2>2, <2>3, PurchaseAdds DEF more
  <2>5. Price(bars[s]) \in Nat
    BY PriceType DEF Solvent
  <2>6. more * Price(bars[s]) \in Nat
    BY <2>3, <2>5
  <2>7. /\ BuyCost(more * Price(bars[s])) \in Int
        /\ config.minCommission >= 0 /\ config.slippageBps >= 0
             => more * Price(bars[s]) <= BuyCost(more * Price(bars[s]))
    BY <2>6, CostType DEF Solvent
  <2>8. cash' = cash - BuyCost(more * Price(bars[s]))
    BY <2>2 DEF more
  <2> SUFFICES ASSUME config'.minCommission >= 0, config'.slippageBps >= 0,
                      \A t \in Stock : Price(bars[t])' = ValuePrice(t)'
               PROVE  cash' + PositionValue' <= nav'
    BY DEF NothingGained
  <2>9. \A t \in Stock : Price(bars[t]) = ValuePrice(t)
    BY <1>2, <2>1
  <2>10. cash + PositionValue <= nav /\ nav \in Int
    BY <2>1, <2>9 DEF NothingGained, Planned
  <2> DEFINE worth == more * Price(bars[s])
             cost  == BuyCost(worth)
  <2>11. /\ worth \in Nat /\ cost \in Int /\ worth <= cost /\ nav' = nav
         /\ cash' = cash - cost /\ PositionValue' = PositionValue + worth
    BY <2>1, <2>4, <2>6, <2>7, <2>8, <2>9
  <2> HIDE DEF worth, cost
  <2> QED BY <1>4, <2>10, <2>11
<1>8. CASE UNCHANGED vars
  <2>1. PositionValue' = PositionValue /\ UNCHANGED <<phase, cash, nav, config, bars>>
    BY <1>3, <1>8 DEF vars
  <2> QED BY <1>2, <2>1 DEF NothingGained
<1>9. CASE OpenDay \/ EndRebalance \/ CloseDay \/ \E s \in Stock : Sell(s)
  BY <1>1, <1>9 DEF OpenDay, EndRebalance, CloseDay, Sell
<1> QED BY <1>5, <1>6, <1>7, <1>8, <1>9 DEF Next

\* Trading makes nothing: for any number of stocks and orders, any prices and any costs that are
\* no gains, a rebalance never leaves more in cash and positions than the value its targets were computed from.
THEOREM NothingIsGained == Spec => []NothingGained
<1>1. Spec => [](Solvent /\ Planned)
  BY SolventInit, SolventStep, PlannedInit, PlannedStep, PTL DEF Spec
<1> QED BY <1>1, GainInit, GainStep, PTL DEF Spec
=============================================================================
