--------------------------- MODULE Decisions_proofs ---------------------------
(***************************************************************************)
(* What the gateway decides, for every spread, age, prediction and         *)
(* calendar: it never wants to buy and to sell at once, a stopped-out name *)
(* is not bought back in the same session, and the backtest is the more    *)
(* optimistic of the two loops.                                            *)
(***************************************************************************)
EXTENDS Decisions, FiniteSetTheorems, TLAPS

State == [spread : Int, volatility : Nat, age : Int, gap : Int, multiplier : Nat]

(* Costs of the engine are not negative, unless the quote is crossed.      *)
LEMMA StaleRiskType == ASSUME NEW age \in Int PROVE StaleRisk(age) \in Nat
<1>1. CASE age > 390
  <2>1. (age - 390) * 4000 \in Nat
    BY <1>1
  <2>2. ((age - 390) * 4000) \div 390 \in Nat
    BY <2>1
  <2>3. QED
    BY <1>1, <2>2 DEF StaleRisk, StaleJump, SessionMinutes, Lesser
<1>2. CASE 195 < age /\ age <= 390
  <2>1. (age - 195) * 4000 \in Nat
    BY <1>2
  <2>2. ((age - 195) * 4000) \div 390 \in Nat
    BY <2>1
  <2>3. QED
    BY <1>2, <2>2 DEF StaleRisk, StaleRamp, SessionMinutes, Lesser
<1>3. CASE age <= 195
  BY <1>3 DEF StaleRisk, SessionMinutes
<1>4. QED
  BY <1>1, <1>2, <1>3

LEMMA BaseSideType ==
  ASSUME NEW s \in State
  PROVE  BaseSide(s) \in Int /\ (s.spread >= 0 => BaseSide(s) \in Nat)
<1> DEFINE inner == 50 * Lesser(s.spread, 1000) + 10 * Lesser(s.volatility, 200)
                        + LiquidityFloor + StaleRisk(s.age)
<1>1. s.spread \in Int /\ s.volatility \in Nat /\ s.age \in Int /\ s.gap \in Int
        /\ s.multiplier \in Nat
  BY DEF State
<1>2. inner \in Int /\ (s.spread >= 0 => inner \in Nat)
  BY <1>1, StaleRiskType DEF Lesser, LiquidityFloor
<1>3. GapRisk(s.gap) \in Nat
  BY <1>1 DEF GapRisk, Clamp, Lesser
<1>4. inner * s.multiplier \in Int /\ (s.spread >= 0 => inner * s.multiplier \in Nat)
  <2>1. \A n \in Int, k \in Nat : n * k \in Int /\ (n \in Nat => n * k \in Nat)
    OBVIOUS
  <2>. HIDE DEF inner
  <2>. QED
    BY <1>1, <1>2, <2>1
<1>5. BaseSide(s) = inner * s.multiplier + 10 * GapRisk(s.gap)
  BY DEF BaseSide
<1>6. QED
  BY <1>3, <1>4, <1>5

LEMMA MembershipType == ASSUME NEW role \in Roles PROVE MembershipEdge(role) \in Nat
  BY DEF Roles, MembershipEdge

LEMMA CostType ==
  ASSUME NEW s \in State, s.spread >= 0
  PROVE  \A f \in {"entry", "exit", "queue", "cancel", "memory", "operational", "waiting"} :
             ComputeCost(s)[f] \in Nat
<1>1. BaseSide(s) \in Nat
  BY BaseSideType
<1>2. OverRegular(s) \in Nat
  BY DEF OverRegular, State, Regular
<1>3. QED
  BY <1>1, <1>2 DEF ComputeCost, Lesser, Bps

(* No state of the market, prediction or role justifies both a purchase    *)
(* and a sale: the two gross edges cancel out and what is left are the     *)
(* costs of both, none of them negative and the operational one positive   *)
(* (evaluate, with a spread that is not crossed).                          *)
THEOREM NeverBothWays ==
  ASSUME NEW s \in State, s.spread >= 0, NEW m \in Int, NEW role \in Roles
  PROVE  ~(Executes("buy", m, role, s) /\ Executes("sell", m, role, s))
<1> DEFINE c == ComputeCost(s)
           e == CompositeEdge(m, role)
<1>1. /\ c.entry \in Nat /\ c.exit \in Nat /\ c.queue \in Nat
      /\ c.memory \in Nat /\ c.waiting \in Nat
  BY CostType
<1>2. c.operational = 2000000
  BY DEF ComputeCost, Bps
<1>3. e \in Int
  <2>1. MembershipEdge(role) \in Nat
    BY MembershipType
  <2>2. QED
    BY <2>1 DEF CompositeEdge, Friction, Bps
<1>4. NetBuy(m, role, s) = e - c.waiting
         - (c.entry + c.exit + c.queue + c.memory + c.operational)
  BY DEF NetBuy
<1>5. NetSell(m, role, s) = c.waiting - e
         - (c.exit + c.queue + c.memory + c.operational)
  BY DEF NetSell
<1> HIDE DEF c, e
<1>6. ~(NetBuy(m, role, s) > 0 /\ NetSell(m, role, s) > 0)
  BY <1>1, <1>2, <1>3, <1>4, <1>5
<1>7. /\ Net("buy", m, role, s) = NetBuy(m, role, s)
      /\ Net("sell", m, role, s) = NetSell(m, role, s)
  BY DEF Net
<1>8. QED
  BY <1>6, <1>7 DEF Executes
-----------------------------------------------------------------------------
(* A purchase is worth less where the base cost is higher.                 *)
LEMMA NetBuyFalls ==
  ASSUME NEW s \in State, NEW t \in State, NEW m \in Int,
         s.multiplier = Regular, t.multiplier = Regular, BaseSide(s) <= BaseSide(t)
  PROVE  NetBuy(m, "primary", t) <= NetBuy(m, "primary", s)
<1>1. BaseSide(s) \in Int /\ BaseSide(t) \in Int
  BY BaseSideType
<1>2. OverRegular(s) = 0 /\ OverRegular(t) = 0
  BY DEF OverRegular, Regular
<1>3. CompositeEdge(m, "primary") \in Int
  BY MembershipType DEF CompositeEdge, Friction, Bps, Roles
<1>4. /\ NetBuy(m, "primary", s) = CompositeEdge(m, "primary") - 714285
             - (621 * BaseSide(s) + 320000 + 24000000 + 2000000)
      /\ NetBuy(m, "primary", t) = CompositeEdge(m, "primary") - 714285
             - (621 * BaseSide(t) + 320000 + 24000000 + 2000000)
  BY <1>1, <1>2, <1>3 DEF NetBuy, ComputeCost, Lesser, Bps
<1>5. QED
  BY <1>1, <1>3, <1>4

(* What one hundredth of a basis point of inputs costs in a live state.    *)
LEMMA LiveBase ==
  ASSUME NEW q \in [mid : {0, 1}, spread : Int, at : Int],
         NEW b \in Histories, NEW now \in Int
  PROVE  /\ LiveState(q, b, now) \in State
         /\ BaseSide(LiveState(q, b, now)) >=
                (50 * Lesser(q.spread, 1000) + 10 * AnnualizedVol(b) + LiquidityFloor) * 10
<1> DEFINE s == LiveState(q, b, now)
<1>1. AnnualizedVol(b) \in {0, 200}
  BY DEF AnnualizedVol
<1>2. QuoteAge(q.at, now) \in Int
  BY DEF QuoteAge
<1>3. s \in State
  BY <1>1, <1>2 DEF LiveState, State, Regular
<1>4. /\ s.spread = q.spread /\ s.volatility = AnnualizedVol(b) /\ s.gap = 0
      /\ s.multiplier = 10 /\ s.age = QuoteAge(q.at, now)
  BY DEF LiveState, Regular
<1>5. StaleRisk(s.age) \in Nat
  BY <1>2, <1>4, StaleRiskType
<1>6. GapRisk(0) = 0
  BY DEF GapRisk, Clamp
<1>7. Lesser(s.volatility, 200) = AnnualizedVol(b)
  BY <1>1, <1>4 DEF Lesser
<1>8. Lesser(q.spread, 1000) \in Int
  BY DEF Lesser
<1>9. BaseSide(s) = (50 * Lesser(q.spread, 1000) + 10 * AnnualizedVol(b)
                        + LiquidityFloor + StaleRisk(s.age)) * 10
  BY <1>4, <1>5, <1>6, <1>7, <1>8, <1>1 DEF BaseSide, LiquidityFloor
<1>10. QED
  BY <1>1, <1>3, <1>5, <1>8, <1>9 DEF LiquidityFloor

LEMMA BacktestBase ==
  ASSUME NEW b \in Histories
  PROVE  /\ BacktestState(b) \in State
         /\ BaseSide(BacktestState(b)) = (250 + 10 * AnnualizedVol(b) + LiquidityFloor) * 10
<1> DEFINE s == BacktestState(b)
<1>1. AnnualizedVol(b) \in {0, 200}
  BY DEF AnnualizedVol
<1>2. s \in State
  BY <1>1 DEF BacktestState, State, Regular, BacktestSpread
<1>3. /\ s.spread = 5 /\ s.volatility = AnnualizedVol(b) /\ s.gap = 0
      /\ s.multiplier = 10 /\ s.age = 0
  BY DEF BacktestState, Regular, BacktestSpread
<1>4. StaleRisk(0) = 0 /\ GapRisk(0) = 0
  BY DEF StaleRisk, SessionMinutes, GapRisk, Clamp
<1>5. Lesser(s.volatility, 200) = AnnualizedVol(b) /\ Lesser(5, 1000) = 5
  BY <1>1, <1>3 DEF Lesser
<1>6. QED
  BY <1>1, <1>2, <1>3, <1>4, <1>5 DEF BaseSide, LiquidityFloor
-----------------------------------------------------------------------------
LEMMA TwoPower == ASSUME NEW k \in Nat PROVE 2 ^ k \in Nat \ {0}
<1>1. IsFiniteSet(1..k) /\ Cardinality(1..k) = k
  BY FS_Interval
<1>2. /\ IsFiniteSet(SUBSET (1..k))
      /\ Cardinality(SUBSET (1..k)) = 2 ^ k
  BY <1>1, FS_SUBSET
<1>3. SUBSET (1..k) # {}
  OBVIOUS
<1>4. Cardinality(SUBSET (1..k)) # 0
  BY <1>2, <1>3, FS_EmptySet
<1>5. QED
  BY <1>2, <1>4, FS_CardinalityType

LEMMA FirstSessionsValue ==
  FirstSessions(0) = 20000000 /\ FirstSessions(1) = 15874000 /\ FirstSessions(2) = 12599200
<1>1. /\ CubeRootOfHalves[1] = 1000000 /\ CubeRootOfHalves[2] = 793701
      /\ CubeRootOfHalves[3] = 629961
  BY DEF CubeRootOfHalves
<1>2. Bps \div 1000 = 400
  BY DEF Bps
<1>3. QED
  BY <1>1, <1>2 DEF FirstSessions, InitialBump

LEMMA BumpType == ASSUME NEW n \in Nat PROVE BumpAfter(n) \in Nat
<1>1. n % 3 \in 0..2 /\ n \div 3 \in Nat
  OBVIOUS
<1>2. FirstSessions(n % 3) \in Nat
  BY <1>1, FirstSessionsValue
<1>3. 2 ^ (n \div 3) \in Nat \ {0}
  BY <1>1, TwoPower
<1>4. FirstSessions(n % 3) \div 2 ^ (n \div 3) \in Nat
  <2> DEFINE a == FirstSessions(n % 3)
             b == 2 ^ (n \div 3)
  <2>1. a \in Nat /\ b \in Nat \ {0}
    BY <1>2, <1>3
  <2> HIDE DEF a, b
  <2>2. a \div b \in Nat
    BY <2>1
  <2>3. QED
    BY <2>2 DEF a, b
<1>5. CASE n < 3
  <2>1. n \in {0, 1, 2}
    BY <1>5
  <2>2. QED
    BY <1>5, <2>1, FirstSessionsValue DEF BumpAfter, HalvesTo
<1>6. CASE ~(n < 3)
  BY <1>4, <1>6 DEF BumpAfter, HalvesTo
<1>7. QED
  BY <1>5, <1>6

LEMMA SessionsType == ASSUME NEW a, NEW b PROVE TradingDaysBetween(a, b) \in Nat
<1> DEFINE S == {d \in TradingDays : (a <= d /\ d <= b) \/ (b <= d /\ d <= a)}
<1>1. IsFiniteSet(0..LastDay)
  BY CalendarAssumption, FS_Interval
<1>2. S \in SUBSET (0..LastDay)
  BY CalendarAssumption
<1>3. IsFiniteSet(S)
  BY <1>1, <1>2, FS_Subset
<1>4. Cardinality(S) \in Nat
  BY <1>3, FS_CardinalityType
<1>5. QED
  BY <1>4 DEF TradingDaysBetween

LEMMA HurdleBumpType == HurdleBump \in Nat
  BY SessionsType, BumpType DEF HurdleBump

(* What an executed evaluation of the live loop means.                     *)
LEMMA LiveMeans ==
  ASSUME NEW q \in [mid : {0, 1}, spread : Int, at : Int], NEW b, NEW m, NEW now,
         NEW bump, EvaluateLive(q, b, m, now, bump).executed
  PROVE  /\ b # "none"
         /\ NetBuy(m, "primary", LiveState(q, b, now)) - bump > 0
<1>1. \A r : Rejected(r).executed = FALSE
  BY DEF Rejected
<1>2. b # "none" /\ q.mid > 0 /\ ~(q.spread > MaxSpread)
  BY <1>1 DEF EvaluateLive
<1>3. \A n, g, r : Evaluated(n, g, r).executed = (n - g > 0)
  BY DEF Evaluated
<1>4. EvaluateLive(q, b, m, now, bump) =
          Evaluated(NetBuy(m, "primary", LiveState(q, b, now)), bump,
                    IF bump > 0 THEN "hurdle_bump" ELSE "net_edge_below_hurdle")
  BY <1>2 DEF EvaluateLive
<1>5. QED
  BY <1>2, <1>3, <1>4
-----------------------------------------------------------------------------
(* What the two invariants need of the candidate and of the clock.         *)
Typed ==
    /\ day \in Days /\ slot \in 1..3
    /\ quote \in [mid : {0, 1}, spread : Int, at : Int]
    /\ bars \in Histories /\ mu \in Int

LEMMA NowType == ASSUME Typed PROVE Now \in Int
<1>1. day \in Int
  BY CalendarAssumption DEF Typed, Days
<1>2. CycleTimes[slot] \in Int
  BY DEF Typed, CycleTimes
<1>3. QED
  BY <1>1, <1>2 DEF Now, Minute

LEMMA LiveNet ==
  ASSUME Typed
  PROVE  /\ BaseSide(LiveState(quote, bars, Now)) \in Int
         /\ NetBuy(mu, "primary", LiveState(quote, bars, Now)) =
                mu * 400000 + 55200000 - 714285
                    - (621 * BaseSide(LiveState(quote, bars, Now)) + 26320000)
<1> DEFINE s == LiveState(quote, bars, Now)
<1>1. s \in State
  BY NowType, LiveBase DEF Typed
<1>2. BaseSide(s) \in Int
  BY <1>1, BaseSideType
<1>3. OverRegular(s) = 0
  BY DEF OverRegular, LiveState, Regular
<1>4. CompositeEdge(mu, "primary") = mu * 400000 + 55200000
  BY DEF CompositeEdge, MembershipEdge, Friction, Bps
<1>5. mu \in Int
  BY DEF Typed
<1>6. QED
  BY <1>2, <1>3, <1>4, <1>5 DEF NetBuy, ComputeCost, Lesser, Bps

LEMMA ReentryDecision ==
  ASSUME Typed, stopped # NoDate, TradingDaysBetween(stopped, day) <= 1,
         mu <= 0, bars # "one", quote.spread >= 0
  PROVE  ~EvaluateLive(quote, bars, mu, Now, HurdleBump).executed
<1> DEFINE base == BaseSide(LiveState(quote, bars, Now))
           net  == NetBuy(mu, "primary", LiveState(quote, bars, Now))
<1> SUFFICES ASSUME EvaluateLive(quote, bars, mu, Now, HurdleBump).executed
             PROVE  FALSE
  OBVIOUS
<1>1. net - HurdleBump > 0
  BY LiveMeans DEF Typed
<1>2. TradingDaysBetween(stopped, day) \in {0, 1}
  BY SessionsType
<1>3. BumpAfter(0) = 20000000 /\ BumpAfter(1) = 15874000
  BY FirstSessionsValue DEF BumpAfter, HalvesTo
<1>4. HurdleBump >= 15874000
  BY <1>2, <1>3 DEF HurdleBump
<1>5. AnnualizedVol(bars) = 200
  BY DEF AnnualizedVol
<1>6. Lesser(quote.spread, 1000) \in Nat
  BY DEF Lesser, Typed
<1>7. base >= (50 * Lesser(quote.spread, 1000) + 2000 + 25) * 10
  BY <1>5, NowType, LiveBase DEF Typed, LiquidityFloor
<1>8. base \in Int /\ net = mu * 400000 + 55200000 - 714285 - (621 * base + 26320000)
  BY LiveNet
<1>9. mu \in Int
  BY DEF Typed
<1> HIDE DEF base, net
<1>10. base >= 20250
  BY <1>6, <1>7, <1>8
<1>11. net <= 15590465
  BY <1>8, <1>9, <1>10
<1>12. net \in Int
  BY <1>8, <1>9
<1>13. QED
  BY <1>1, <1>4, <1>11, <1>12, HurdleBumpType

LEMMA OptimisticDecision ==
  ASSUME Typed, NEW bump \in Nat, EvaluateLive(quote, bars, mu, Now, bump).executed,
         quote.spread >= BacktestSpread, bars # "unpriced"
  PROVE  EvaluateBacktest(bars, mu).executed
<1> DEFINE s == LiveState(quote, bars, Now)
           t == BacktestState(bars)
<1>1. bars # "none" /\ NetBuy(mu, "primary", s) - bump > 0
  BY LiveMeans DEF Typed
<1>2. Lesser(quote.spread, 1000) >= 5 /\ Lesser(quote.spread, 1000) \in Nat
  BY DEF Typed, Lesser, BacktestSpread
<1>3. AnnualizedVol(bars) \in Nat
  BY DEF AnnualizedVol
<1>4. s \in State /\ t \in State
  BY NowType, LiveBase, BacktestBase DEF Typed
<1>5. BaseSide(s) >= (50 * Lesser(quote.spread, 1000) + 10 * AnnualizedVol(bars) + 25) * 10
  BY NowType, LiveBase DEF Typed, LiquidityFloor
<1>6. BaseSide(t) = (250 + 10 * AnnualizedVol(bars) + 25) * 10
  BY BacktestBase DEF Typed, LiquidityFloor
<1>7. BaseSide(t) <= BaseSide(s)
  <2>1. BaseSide(s) \in Int
    BY <1>4, BaseSideType
  <2>2. QED
    BY <1>2, <1>3, <1>5, <1>6, <2>1
<1>8. s.multiplier = Regular /\ t.multiplier = Regular
  BY DEF LiveState, BacktestState
<1>9. NetBuy(mu, "primary", s) <= NetBuy(mu, "primary", t)
  BY <1>4, <1>7, <1>8, NetBuyFalls DEF Typed
<1>10. NetBuy(mu, "primary", s) \in Int
  <2>1. mu \in Int
    BY DEF Typed
  <2>2. QED
    BY <2>1, LiveNet
<1>11. NetBuy(mu, "primary", t) \in Int
  <2>1. BaseSide(t) \in Int /\ OverRegular(t) = 0
    BY <1>3, <1>6 DEF OverRegular, BacktestState, Regular
  <2>2. CompositeEdge(mu, "primary") \in Int
    BY DEF Typed, CompositeEdge, MembershipEdge, Friction, Bps
  <2>3. QED
    BY <2>1, <2>2 DEF NetBuy, ComputeCost, Lesser, Bps
<1>12. NetBuy(mu, "primary", t) - 0 > 0
  <2> HIDE DEF s, t
  <2>1. QED
    BY <1>1, <1>9, <1>10, <1>11
<1>13. \A g, h, r : Evaluated(g, h, r).executed = (g - h > 0)
  BY DEF Evaluated
<1>14. EvaluateBacktest(bars, mu) =
           Evaluated(NetBuy(mu, "primary", t), 0, "net_edge_below_hurdle")
  BY <1>1 DEF EvaluateBacktest
<1>15. QED
  BY <1>12, <1>13, <1>14
-----------------------------------------------------------------------------
IInv == Typed /\ NoReentrySameSession /\ BacktestOptimistic

LEMMA InitIInv == Init => IInv
<1> SUFFICES ASSUME Init PROVE IInv
  OBVIOUS
<1>1. Typed
  BY CalendarAssumption, DecisionsAssumption DEF Init, Typed, Days, NoQuote, Histories
<1>2. NoReentrySameSession /\ BacktestOptimistic
  BY DEF Init, NoReentrySameSession, BacktestOptimistic
<1>3. QED
  BY <1>1, <1>2 DEF IInv

LEMMA CycleIInv == ASSUME Typed, Cycle PROVE IInv'
<1>1. Typed'
  BY DEF Typed, Cycle, candidate
<1>2. /\ phase' = "decided" /\ day' = day /\ slot' = slot /\ quote' = quote
      /\ bars' = bars /\ mu' = mu /\ stopped' = stopped
  BY DEF Cycle, candidate
<1>3. PICK j \in {0, 1} : EvaluateCandidate(j)
  BY DEF Cycle
<1>4. PICK bump \in Nat, knew \in BOOLEAN :
          Evaluate(bump, knew) /\ (knew => bump = HurdleBump)
  BY <1>3, HurdleBumpType DEF EvaluateCandidate
<1>5. /\ decision'.executed = EvaluateLive(quote, bars, mu, Now, bump).executed
      /\ decision'.backtest = EvaluateBacktest(bars, mu).executed
      /\ decision'.knew = knew
  BY <1>4 DEF Evaluate
<1>6. NoReentrySameSession'
  <2> SUFFICES ASSUME knew, stopped # NoDate, TradingDaysBetween(stopped, day) <= 1,
                      mu <= 0, bars # "one", quote.spread >= 0
               PROVE  ~decision'.executed
    BY <1>2, <1>5 DEF NoReentrySameSession, TradingDaysBetween
  <2>1. ~EvaluateLive(quote, bars, mu, Now, HurdleBump).executed
    BY ReentryDecision
  <2>2. QED
    BY <1>4, <1>5, <2>1
<1>7. BacktestOptimistic'
  <2> SUFFICES ASSUME EvaluateLive(quote, bars, mu, Now, bump).executed,
                      quote.spread >= BacktestSpread, bars # "unpriced"
               PROVE  decision'.backtest
    BY <1>2, <1>5 DEF BacktestOptimistic
  <2>1. QED
    BY <1>5, OptimisticDecision
<1>8. QED
  BY <1>1, <1>6, <1>7 DEF IInv

(* Away from a decided cycle neither invariant says anything.              *)
LEMMA StepIInv == IInv /\ [Next]_vars => IInv'
<1> SUFFICES ASSUME IInv, [Next]_vars PROVE IInv'
  OBVIOUS
<1> USE DEF IInv
<1>1. Typed' /\ phase' # "decided" => IInv'
  BY DEF NoReentrySameSession, BacktestOptimistic
<1>2. CASE NewQuote
  <2>1. \A m \in QuoteTimes : Minute(day, m) \in Int
    BY CalendarAssumption, DecisionsAssumption DEF Minute, Typed, Days
  <2>2. quote' \in [mid : {0, 1}, spread : Int, at : Int]
    BY <1>2, <2>1, DecisionsAssumption DEF NewQuote, NoQuote
  <2>3. QED
    BY <1>1, <1>2, <2>2 DEF NewQuote, Happens, Changes, Typed
<1>3. CASE NewBars
  BY <1>1, <1>3 DEF NewBars, Happens, Changes, Typed
<1>4. CASE Retrain
  BY <1>1, <1>4, DecisionsAssumption DEF Retrain, Happens, Changes, Typed
<1>5. CASE StopOut
  BY <1>1, <1>5 DEF StopOut, Happens, Typed
<1>6. CASE Cycle
  BY <1>6, CycleIInv
<1>7. CASE CycleFails
  BY <1>1, <1>7 DEF CycleFails, candidate, Typed
<1>8. CASE NextCycle
  BY <1>1, <1>8 DEF NextCycle, candidate, Typed
<1>9. CASE NextDay
  BY <1>1, <1>9, CalendarAssumption DEF NextDay, candidate, Typed, Days
<1>10. CASE UNCHANGED vars
  BY <1>10 DEF vars, candidate, Typed, NoReentrySameSession, BacktestOptimistic,
               TradingDaysBetween
<1>11. QED
  BY <1>2, <1>3, <1>4, <1>5, <1>6, <1>7, <1>8, <1>9, <1>10 DEF Next

(* For every calendar, every spread that is not crossed, every age of the  *)
(* quote and prediction that promises nothing, a name is not bought back   *)
(* in the session its stop filled: with a volatility above the cap the costs of a purchase are     *)
(* 99 basis points at least of the 138 of the membership edge, and the     *)
(* bump of the first session is 39.69 (get_hurdle_bump_bps, evaluate).     *)
THEOREM ReentryBarred == Spec => []NoReentrySameSession
<1>1. IInv => NoReentrySameSession
  BY DEF IInv
<1>2. QED
  BY <1>1, InitIInv, StepIInv, PTL DEF Spec

(* For every quote at the spread of the backtest or wider, of any age, and *)
(* for every bump, the backtest buys what the live loop buys: the ages and *)
(* the bump it leaves out only ever cost (engine.py:518).                  *)
THEOREM BacktestIsOptimistic == Spec => []BacktestOptimistic
<1>1. IInv => BacktestOptimistic
  BY DEF IInv
<1>2. QED
  BY <1>1, InitIInv, StepIInv, PTL DEF Spec
-----------------------------------------------------------------------------
(* A stress is between 0 and Full or missing, and stays so when smoothed.  *)
Stresses == {Missing} \cup 0..Full

LEMMA BlendedType ==
  ASSUME NEW scores \in [Components -> Stresses]
  PROVE  BlendedStress(scores) \in Stresses
<1>. DEFINE x == scores["drawdown"]
            y == scores["volatility"]
            z == scores["correlation"]
            u == WeightOf(scores, "drawdown")
            v == WeightOf(scores, "volatility")
            w == WeightOf(scores, "correlation")
            sum == u * x + v * y + w * z
            total == u + v + w
<1>1. /\ u = 0 \/ (u = 4 /\ x \in 0..1000)
      /\ v = 0 \/ (v = 4 /\ y \in 0..1000)
      /\ w = 0 \/ (w = 2 /\ z \in 0..1000)
      /\ x \in Int /\ y \in Int /\ z \in Int
  <2>1. x \in Stresses /\ y \in Stresses /\ z \in Stresses
    BY DEF Components
  <2>2. /\ u = IF x = Missing THEN 0 ELSE 4
        /\ v = IF y = Missing THEN 0 ELSE 4
        /\ w = IF z = Missing THEN 0 ELSE 2
    BY DEF WeightOf, Weight
  <2>. HIDE DEF x, y, z, u, v, w
  <2>. QED
    BY <2>1, <2>2 DEF Stresses, Missing, Full
<1>2. BlendedStress(scores) = IF total = 0 THEN Missing ELSE sum \div total
  BY DEF BlendedStress, Total
<1>. HIDE DEF x, y, z, u, v, w
<1>3. u * x \in 0..1000 * u /\ v * y \in 0..1000 * v /\ w * z \in 0..1000 * w
  BY <1>1
<1>4. total \in {0, 2, 4, 6, 8, 10} /\ sum \in 0..1000 * total
  BY <1>1, <1>3
<1>. HIDE DEF sum, total
<1>5. total # 0 => sum \div total \in 0..1000
  BY <1>4
<1>. QED
  BY <1>2, <1>5 DEF Stresses, Missing, Full

LEMMA SmoothedType ==
  ASSUME NEW raw \in Stresses, NEW prev \in {Absent} \cup 0..Full
  PROVE  /\ Smoothed(raw, prev) \in Stresses
         /\ Smoothed(raw, prev) = Missing <=> raw = Missing
         /\ raw # Missing /\ prev # Absent =>
                Smoothed(raw, prev) = (129 * raw + 871 * prev) \div 1000
  BY DEF Smoothed, Stresses, Absent, Missing, Full, Alpha

(* What a cycle may leave in the table.                                    *)
Observed(prev, restarted) ==
    \/ UNCHANGED <<newest, ema>> /\ reseeded' = reseeded
    \/ \E raw \in Stresses :
          /\ newest' = Smoothed(raw, prev)
          /\ ema' = IF raw = Missing THEN ema ELSE Smoothed(raw, prev)
          /\ reseeded' = restarted

LEMMA ObservedRegime ==
  ASSUME ema \in {Absent} \cup 0..Full, NEW n \in {0, 1}, ObserveRegime(n)
  PROVE  Observed(ema, FALSE) \/ Observed(Absent, TRUE)
<1>1. \A r \in Readings : BlendedStress(r) \in Stresses
  BY BlendedType, DecisionsAssumption DEF Stresses
<1>2. Calm \in [Components -> Stresses] /\ BlendedStress(Calm) \in Stresses
  <2>1. Calm \in [Components -> Stresses]
    BY DEF Calm, Stresses, Full
  <2>. QED
    BY <2>1, BlendedType
<1>3. ASSUME NEW raw \in Stresses, NEW prev \in {Absent} \cup 0..Full,
             PersistMarketRegime(Smoothed(raw, prev))
      PROVE  /\ newest' = Smoothed(raw, prev)
             /\ ema' = IF raw = Missing THEN ema ELSE Smoothed(raw, prev)
  BY <1>3, SmoothedType DEF PersistMarketRegime
<1>4. CASE UNCHANGED <<newest, ema, reseeded>>
  BY <1>4 DEF Observed
<1>5. ASSUME NEW scores, BlendedStress(scores) \in Stresses,
             PersistMarketRegime(Smoothed(BlendedStress(scores), Previous)), reseeded' = FALSE
      PROVE  Observed(ema, FALSE)
  BY <1>3, <1>5 DEF Observed, Previous
<1>6. ASSUME NEW scores, BlendedStress(scores) \in Stresses,
             PersistMarketRegime(Smoothed(BlendedStress(scores), Absent)), reseeded' = TRUE
      PROVE  Observed(Absent, TRUE)
  BY <1>3, <1>6 DEF Observed
<1>. QED
  BY <1>1, <1>2, <1>4, <1>5, <1>6 DEF ObserveRegime
-----------------------------------------------------------------------------
(* What a cycle leaves of the candidate.                                   *)
LEMMA CycleDecision ==
  ASSUME Cycle
  PROVE  /\ phase = "due" /\ phase' = "decided" /\ same' = TRUE
         /\ UNCHANGED <<day, slot, quote, bars, mu, stopped, varied>>
         /\ \E bump \in Nat, knew \in BOOLEAN :
                decision' = [executed |-> EvaluateLive(quote, bars, mu, Now, bump).executed,
                             backtest |-> EvaluateBacktest(bars, mu).executed,
                             bump |-> bump, knew |-> knew]
         /\ \E n \in {0, 1} : ObserveRegime(n)
         /\ \E n \in {0, 1, 2} : Charge(n)
<1>1. /\ phase = "due" /\ phase' = "decided" /\ same' = TRUE
      /\ UNCHANGED <<day, slot, quote, bars, mu, stopped, varied>>
  BY DEF Cycle, candidate
<1>2. PICK i \in {0, 1}, j \in {0, 1} : ObserveRegime(i) /\ EvaluateCandidate(j) /\ Charge(i + j)
  BY DEF Cycle
<1>3. \E bump \in Nat, knew \in BOOLEAN : Evaluate(bump, knew)
  BY <1>2, HurdleBumpType DEF EvaluateCandidate
<1>4. i + j \in {0, 1, 2}
  BY <1>2
<1>. QED
  BY <1>1, <1>2, <1>3, <1>4 DEF Evaluate

LEMMA ExecutedType ==
  ASSUME NEW q, NEW b, NEW m, NEW now, NEW bump
  PROVE  /\ EvaluateLive(q, b, m, now, bump).executed \in BOOLEAN
         /\ EvaluateBacktest(b, m).executed \in BOOLEAN
<1>1. \A r : Rejected(r).executed \in BOOLEAN
  BY DEF Rejected
<1>2. \A g, h, r : Evaluated(g, h, r).executed \in BOOLEAN
  BY DEF Evaluated
<1>. QED
  BY <1>1, <1>2, Zenon DEF EvaluateLive, EvaluateBacktest
-----------------------------------------------------------------------------
LEMMA TimesValue == CycleTimes[1] = 580 /\ CycleTimes[2] = 750 /\ CycleTimes[3] = 955
  BY DEF CycleTimes

(* The quote a candidate has is one a cycle may see: not from its future.  *)
Quotes(d, n) == [mid : {0, 1}, spread : Int, at : 0..Minute(d, CycleTimes[n])]

LEMMA LaterQuotes ==
  ASSUME NEW d \in Nat, NEW e \in Nat, NEW n \in 1..3, NEW k \in 1..3,
         Minute(d, CycleTimes[n]) <= Minute(e, CycleTimes[k]), NEW q \in Quotes(d, n)
  PROVE  q \in Quotes(e, k)
<1>1. Minute(d, CycleTimes[n]) \in Nat /\ Minute(e, CycleTimes[k]) \in Nat
  BY TimesValue DEF Minute
<1>. QED
  BY <1>1 DEF Quotes

LEMMA TypeStep == TypeOK /\ [Next]_vars => TypeOK'
<1>. SUFFICES ASSUME TypeOK, [Next]_vars PROVE TypeOK'
  OBVIOUS
<1>0. /\ day \in Nat /\ slot \in 1..3 /\ quote \in Quotes(day, slot)
      /\ LastDay \in Nat /\ faults \in Nat /\ MaxFaults \in Nat
  BY CalendarAssumption, DecisionsAssumption DEF TypeOK, Days, Quotes
<1>1. CASE NewQuote
  <2>1. quote' \in Quotes(day, slot)
    <3>1. 0 \in 0..Minute(day, CycleTimes[slot])
      BY <1>0, TimesValue DEF Minute
    <3>2. ASSUME NEW m \in QuoteTimes, m <= CycleTimes[slot]
          PROVE  Minute(day, m) \in 0..Minute(day, CycleTimes[slot])
      BY <1>0, <3>2, TimesValue, DecisionsAssumption DEF Minute
    <3>. QED
      BY <1>1, <3>1, <3>2, DecisionsAssumption DEF NewQuote, NoQuote, Quotes
  <2>. QED
    BY <1>1, <2>1 DEF NewQuote, Happens, Changes, regime, TypeOK, Quotes
<1>2. CASE NewBars
  BY <1>2 DEF NewBars, Happens, Changes, regime, TypeOK
<1>3. CASE Retrain
  <2>1. mu' \in Int
    BY <1>3, DecisionsAssumption DEF Retrain
  <2>. QED
    BY <1>3, <2>1 DEF Retrain, Happens, Changes, regime, TypeOK
<1>4. CASE StopOut
  BY <1>0, <1>4 DEF StopOut, Happens, regime, TypeOK
<1>5. CASE Cycle
  <2>1. /\ phase' = "decided" /\ same' = TRUE
        /\ UNCHANGED <<day, slot, quote, bars, mu, stopped, varied>>
        /\ \E n \in {0, 1} : ObserveRegime(n)
        /\ \E n \in {0, 1, 2} : Charge(n)
    BY <1>5, CycleDecision
  <2>2. decision' \in [executed : BOOLEAN, backtest : BOOLEAN, bump : Nat, knew : BOOLEAN]
    <3>1. PICK bump \in Nat, knew \in BOOLEAN :
              decision' = [executed |-> EvaluateLive(quote, bars, mu, Now, bump).executed,
                           backtest |-> EvaluateBacktest(bars, mu).executed,
                           bump |-> bump, knew |-> knew]
      BY <1>5, CycleDecision
    <3>2. /\ EvaluateLive(quote, bars, mu, Now, bump).executed \in BOOLEAN
          /\ EvaluateBacktest(bars, mu).executed \in BOOLEAN
      BY ExecutedType
    <3>. QED
      BY <3>1, <3>2
  <2>3. /\ newest' \in {Absent, Missing} \cup 0..Full /\ ema' \in {Absent} \cup 0..Full
        /\ reseeded' \in BOOLEAN
    <3>1. Observed(ema, FALSE) \/ Observed(Absent, TRUE)
      BY <2>1, ObservedRegime DEF TypeOK
    <3>2. ema \in {Absent} \cup 0..Full /\ reseeded \in BOOLEAN
          /\ newest \in {Absent, Missing} \cup 0..Full
      BY DEF TypeOK
    <3>3. ASSUME NEW prev \in {Absent} \cup 0..Full, NEW b \in BOOLEAN, Observed(prev, b)
          PROVE  /\ newest' \in {Absent, Missing} \cup 0..Full
                 /\ ema' \in {Absent} \cup 0..Full /\ reseeded' \in BOOLEAN
      <4>1. \A raw \in Stresses : /\ Smoothed(raw, prev) \in Stresses
                                  /\ Smoothed(raw, prev) = Missing <=> raw = Missing
        BY SmoothedType
      <4>. QED
        BY <3>2, <3>3, <4>1 DEF Observed, Stresses
    <3>. QED
      BY <3>1, <3>2, <3>3
  <2>4. faults' \in 0..MaxFaults
    BY <1>0, <2>1 DEF Charge
  <2>. QED
    BY <2>1, <2>2, <2>3, <2>4 DEF TypeOK
<1>6. CASE CycleFails
  <2>1. faults' \in 0..MaxFaults
    BY <1>0, <1>6 DEF CycleFails, Charge
  <2>. QED
    BY <1>6, <2>1 DEF CycleFails, candidate, regime, TypeOK
<1>7. CASE NextCycle
  <2>1. slot' \in 1..3 /\ quote' \in Quotes(day, slot')
    <3>1. slot' = slot + 1 /\ slot < 3 /\ quote' = quote
      BY <1>7 DEF NextCycle, candidate
    <3>2. slot' \in 1..3 /\ Minute(day, CycleTimes[slot]) <= Minute(day, CycleTimes[slot'])
      BY <1>0, <3>1, TimesValue DEF Minute
    <3>. QED
      BY <1>0, <3>1, <3>2, LaterQuotes
  <2>. QED
    BY <1>7, <2>1 DEF NextCycle, candidate, regime, TypeOK, Quotes
<1>8. CASE NextDay
  <2>1. day' = day + 1 /\ day < LastDay /\ slot = 3 /\ slot' = 1 /\ quote' = quote
    BY <1>8 DEF NextDay, candidate
  <2>2. day' \in Days /\ quote' \in Quotes(day', 1)
    <3>1. day' \in Nat /\ day' \in Days
      BY <1>0, <2>1 DEF Days
    <3>2. Minute(day, CycleTimes[slot]) <= Minute(day', CycleTimes[1])
      BY <1>0, <2>1, TimesValue DEF Minute
    <3>. QED
      BY <1>0, <2>1, <3>1, <3>2, LaterQuotes
  <2>3. stopped' \in (TradingDays \cap 0..day') \cup {NoDate}
    BY <1>0, <1>8, <2>1 DEF NextDay, candidate, TypeOK
  <2>4. quote' \in Quotes(day', slot') /\ slot' \in 1..3
    BY <2>1, <2>2
  <2>5. /\ phase' = "due"
        /\ UNCHANGED <<bars, mu, decision, same, newest, ema, reseeded, varied, faults>>
    BY <1>8 DEF NextDay, candidate, regime
  <2>. QED
    BY <2>2, <2>3, <2>4, <2>5 DEF TypeOK, Quotes
<1>9. CASE UNCHANGED vars
  BY <1>9 DEF vars, candidate, regime, TypeOK, Minute
<1>. QED
  BY <1>1, <1>2, <1>3, <1>4, <1>5, <1>6, <1>7, <1>8, <1>9 DEF Next

(* TypeOK of Decisions: what the tables hold between cycles is a stress or *)
(* nothing, a quote is never from the future of the cycle that sees it,    *)
(* and the bump that is charged is never negative (_persist_market_regime, *)
(* get_hurdle_bump_bps).                                                   *)
THEOREM TypeCorrect == Spec => []TypeOK
<1>1. Init => TypeOK
  <2>. SUFFICES ASSUME Init PROVE TypeOK
    OBVIOUS
  <2>1. 0 \in 0..Minute(0, CycleTimes[1])
    BY TimesValue DEF Minute
  <2>2. quote \in [mid : {0, 1}, spread : Int, at : 0..Minute(day, CycleTimes[slot])]
    BY <2>1 DEF Init, NoQuote
  <2>3. day \in Days /\ mu \in Int /\ faults \in 0..MaxFaults
    BY CalendarAssumption, DecisionsAssumption DEF Init, Days
  <2>4. decision \in [executed : BOOLEAN, backtest : BOOLEAN, bump : Nat, knew : BOOLEAN]
    BY DEF Init, Undecided
  <2>5. /\ slot \in 1..3 /\ phase \in {"due", "decided", "failed"} /\ bars \in Histories
        /\ stopped \in (TradingDays \cap 0..day) \cup {NoDate}
        /\ varied \in {"candidate", "stress"}
    BY DEF Init, Histories
  <2>7. same \in BOOLEAN /\ reseeded \in BOOLEAN
    BY Zenon DEF Init
  <2>6. /\ newest \in {Absent, Missing} \cup 0..Full
        /\ ema \in {Absent} \cup 0..Full
    BY DEF Init
  <2>. QED
    BY <2>2, <2>3, <2>4, <2>5, <2>6, <2>7 DEF TypeOK
<1>. QED
  BY <1>1, TypeStep, PTL DEF Spec
-----------------------------------------------------------------------------
(* What 129 thousandths of a reading can do to the multiplier.             *)
LEMMA SmoothedMoves ==
  ASSUME NEW raw \in 0..Full, NEW prev \in 0..Full, NEW next,
         next = (129 * raw + 871 * prev) \div 1000
  PROVE  GammaMultiplier(next) - GammaMultiplier(prev) \in -260..260
<1>1. 1000 * next <= 129 * raw + 871 * prev /\ 129 * raw + 871 * prev < 1000 * next + 1000
      /\ next \in Int
  BY DEF Full
<1>2. raw \in Int /\ 0 <= raw /\ raw <= 1000 /\ prev \in Int /\ 0 <= prev /\ prev <= 1000
  BY DEF Full
<1>3. 1000 * (next - prev) <= 129000 /\ 1000 * (next - prev) > -130000
  BY <1>1, <1>2
<1>4. next >= 0
  BY <1>1, <1>2
<1>5. GammaMultiplier(next) = 1000 + 2 * next /\ GammaMultiplier(prev) = 1000 + 2 * prev
  BY <1>1, <1>2, <1>4 DEF GammaMultiplier, Missing
<1>. QED
  BY <1>1, <1>2, <1>3, <1>5

(* OneReadingContributesLittle of Decisions for every reading of the       *)
(* market, calendar and number of failures: with a halflife of five cycles *)
(* a reading weighs 129 thousandths, as long as it is blended with the     *)
(* newest value there is (_load_prev_stress_ema).                          *)
THEOREM ReadingContributesLittle == Spec => OneReadingContributesLittle
<1>1. TypeOK /\ [Next]_vars =>
          [ema # Absent /\ ema' # ema /\ ~reseeded'
               => GammaMultiplier(ema') - GammaMultiplier(ema) \in -260..260]_vars
  <2>. SUFFICES ASSUME TypeOK, [Next]_vars, ema # Absent, ema' # ema, ~reseeded'
                PROVE  GammaMultiplier(ema') - GammaMultiplier(ema) \in -260..260
    OBVIOUS
  <2>1. ema \in 0..Full
    BY DEF TypeOK
  <2>2. Cycle
    BY DEF Next, NewQuote, NewBars, Retrain, StopOut, Changes, CycleFails, NextCycle, NextDay,
           Happens, regime, vars
  <2>3. Observed(ema, FALSE)
    <3>1. Observed(ema, FALSE) \/ Observed(Absent, TRUE)
      BY <2>1, <2>2, CycleDecision, ObservedRegime
    <3>. QED
      BY <3>1 DEF Observed
  <2>4. PICK raw \in Stresses : raw # Missing /\ ema' = Smoothed(raw, ema)
    BY <2>3 DEF Observed
  <2>5. raw \in 0..Full /\ ema' = (129 * raw + 871 * ema) \div 1000
    BY <2>1, <2>4, SmoothedType DEF Stresses
  <2>. QED
    BY <2>1, <2>5, SmoothedMoves
<1>. QED
  BY <1>1, TypeCorrect, PTL DEF Spec, OneReadingContributesLittle
-----------------------------------------------------------------------------
(* Two cycles are 170 minutes apart at least, and within that time a quote *)
(* does not become cheaper.                                                *)
Between == 170

(* Hundredths of a basis point after n minutes of a band.                  *)
Ramp(n) == (n * 4000) \div 390

LEMMA RampBounds ==
  ASSUME NEW x \in Nat
  PROVE  Ramp(x) \in Nat /\ 390 * Ramp(x) <= x * 4000 /\ x * 4000 < 390 * Ramp(x) + 390
  BY DEF Ramp

LEMMA StaleRiskGrows ==
  ASSUME NEW a \in Nat, NEW b \in Nat, a + Between <= b
  PROVE  StaleRisk(a) <= StaleRisk(b)
<1>1. /\ StaleRisk(a) = IF a > 390 THEN Lesser(8000, 400 + Ramp(a - 390))
                        ELSE IF a > 195 THEN Lesser(2000, Ramp(a - 195)) ELSE 0
      /\ StaleRisk(b) = IF b > 390 THEN Lesser(8000, 400 + Ramp(b - 390))
                        ELSE IF b > 195 THEN Lesser(2000, Ramp(b - 195)) ELSE 0
  BY DEF StaleRisk, StaleJump, StaleRamp, SessionMinutes, Ramp
<1>2. CASE a > 390
  <2>1. PICK n \in Nat, k \in Nat : n = a - 390 /\ k = b - 390 /\ n <= k /\ b > 390
    BY <1>2 DEF Between
  <2>2. Ramp(n) <= Ramp(k) /\ Ramp(n) \in Nat /\ Ramp(k) \in Nat
    <3>1. Ramp(n) \in Nat /\ 390 * Ramp(n) <= n * 4000 /\ n * 4000 < 390 * Ramp(n) + 390
      BY <2>1, RampBounds DEF Between
    <3>2. Ramp(k) \in Nat /\ 390 * Ramp(k) <= k * 4000 /\ k * 4000 < 390 * Ramp(k) + 390
      BY <2>1, RampBounds DEF Between
    <3>. QED
      BY <2>1, <3>1, <3>2
  <2>. QED
    BY <1>1, <1>2, <2>1, <2>2 DEF Lesser
<1>3. CASE 195 < a /\ a <= 390
  <2>1. PICK n \in Nat : n = a - 195
    BY <1>3
  <2>2. CASE b <= 390
    <3>1. PICK k \in Nat : k = b - 195 /\ n <= k /\ b > 195
      BY <1>3, <2>1, <2>2 DEF Between
    <3>2. Ramp(n) <= Ramp(k) /\ Ramp(n) \in Nat /\ Ramp(k) \in Nat
      <4>1. Ramp(n) \in Nat /\ 390 * Ramp(n) <= n * 4000 /\ n * 4000 < 390 * Ramp(n) + 390
        BY <2>1, <3>1, RampBounds DEF Between
      <4>2. Ramp(k) \in Nat /\ 390 * Ramp(k) <= k * 4000 /\ k * 4000 < 390 * Ramp(k) + 390
        BY <2>1, <3>1, RampBounds DEF Between
      <4>. QED
        BY <3>1, <4>1, <4>2
    <3>. QED
      BY <1>1, <1>3, <2>1, <2>2, <3>1, <3>2 DEF Lesser
  <2>3. CASE b > 390
    <3>1. PICK k \in Nat : k = b - 390 /\ n <= k + 25
      BY <1>3, <2>1, <2>3 DEF Between
    <3>2. Ramp(n) <= Ramp(k) + 400 /\ Ramp(n) \in Nat /\ Ramp(k) \in Nat
      <4>1. Ramp(n) \in Nat /\ 390 * Ramp(n) <= n * 4000 /\ n * 4000 < 390 * Ramp(n) + 390
        BY <2>1, <3>1, RampBounds DEF Between
      <4>2. Ramp(k) \in Nat /\ 390 * Ramp(k) <= k * 4000 /\ k * 4000 < 390 * Ramp(k) + 390
        BY <2>1, <3>1, RampBounds DEF Between
      <4>. QED
        BY <3>1, <4>1, <4>2
    <3>. QED
      BY <1>1, <1>3, <2>1, <2>3, <3>1, <3>2 DEF Lesser
  <2>. QED
    BY <2>2, <2>3
<1>4. CASE a <= 195
  <2>1. StaleRisk(a) = 0
    BY <1>1, <1>4
  <2>. QED
    BY <2>1, StaleRiskType
<1>. QED
  BY <1>2, <1>3, <1>4

(* What the live loop buys at a time it bought before, for a lower bump.   *)
LEMMA LaterCostsMore ==
  ASSUME NEW q \in [mid : {0, 1}, spread : Int, at : Nat], NEW b \in Histories, NEW m \in Int,
         NEW t \in Nat, NEW u \in Nat, q.at <= t, t + Between <= u,
         NEW g \in Nat, NEW h \in Nat, g <= h,
         EvaluateLive(q, b, m, u, h).executed
  PROVE  EvaluateLive(q, b, m, t, g).executed
<1>. DEFINE s == LiveState(q, b, t)
            r == LiveState(q, b, u)
            y == QuoteAge(q.at, t)
            z == QuoteAge(q.at, u)
<1>1. y \in Nat /\ z \in Nat /\ StaleRisk(y) <= StaleRisk(z)
  <2>1. y \in Nat /\ z \in Nat /\ (y + Between <= z \/ y = 15)
    BY DEF QuoteAge, Between
  <2>2. StaleRisk(15) = 0
    BY DEF StaleRisk, SessionMinutes
  <2>. QED
    BY <2>1, <2>2, StaleRiskGrows, StaleRiskType
<1>2. s \in State /\ r \in State /\ s.multiplier = Regular /\ r.multiplier = Regular
  <2>1. q \in [mid : {0, 1}, spread : Int, at : Int] /\ t \in Int /\ u \in Int
    OBVIOUS
  <2>. QED
    BY <2>1, LiveBase DEF LiveState
<1>3. BaseSide(s) <= BaseSide(r)
  <2>. DEFINE k == 50 * Lesser(q.spread, 1000) + 10 * Lesser(AnnualizedVol(b), 200)
                       + LiquidityFloor
  <2>1. k \in Int
    BY DEF Lesser, AnnualizedVol, LiquidityFloor
  <2>2. /\ BaseSide(s) = (k + StaleRisk(y)) * 10 + 10 * GapRisk(0)
        /\ BaseSide(r) = (k + StaleRisk(z)) * 10 + 10 * GapRisk(0)
    BY DEF BaseSide, LiveState, Regular
  <2>3. GapRisk(0) = 0 /\ StaleRisk(y) \in Nat /\ StaleRisk(z) \in Nat
    BY <1>1, StaleRiskType DEF GapRisk, Clamp
  <2>. HIDE DEF k, y, z, s, r
  <2>. QED
    BY <1>1, <2>1, <2>2, <2>3
<1>4. NetBuy(m, "primary", r) <= NetBuy(m, "primary", s)
  BY <1>2, <1>3, NetBuyFalls
<1>5. NetBuy(m, "primary", r) \in Int /\ NetBuy(m, "primary", s) \in Int
  <2>1. ASSUME NEW x \in State PROVE NetBuy(m, "primary", x) \in Int
    <3>1. BaseSide(x) \in Int /\ OverRegular(x) \in Nat
      BY BaseSideType DEF OverRegular, State, Regular
    <3>2. CompositeEdge(m, "primary") \in Int
      BY DEF CompositeEdge, MembershipEdge, Friction, Bps
    <3>. QED
      BY <3>1, <3>2 DEF NetBuy, ComputeCost, Lesser, Bps
  <2>. QED
    BY <1>2, <2>1
<1>6. /\ b # "none" /\ q.mid > 0 /\ ~(q.spread > MaxSpread)
      /\ NetBuy(m, "primary", r) - h > 0
  <2>1. \A x : Rejected(x).executed = FALSE
    BY DEF Rejected
  <2>2. b # "none" /\ q.mid > 0 /\ ~(q.spread > MaxSpread)
    BY <2>1 DEF EvaluateLive
  <2>3. q \in [mid : {0, 1}, spread : Int, at : Int]
    OBVIOUS
  <2>. QED
    BY <2>2, <2>3, LiveMeans
<1>. HIDE DEF s, r
<1>7. NetBuy(m, "primary", s) - g > 0
  BY <1>4, <1>5, <1>6
<1>8. EvaluateLive(q, b, m, t, g) =
          Evaluated(NetBuy(m, "primary", s), g,
                    IF g > 0 THEN "hurdle_bump" ELSE "net_edge_below_hurdle")
  BY <1>6 DEF EvaluateLive, s
<1>9. \A n, x, y1 : Evaluated(n, x, y1).executed = (n - x > 0)
  BY DEF Evaluated
<1>. QED
  BY <1>7, <1>8, <1>9
-----------------------------------------------------------------------------
(* While nothing has changed, the newest evaluation is what evaluating the *)
(* same candidate gives at the time of an earlier cycle.                   *)
Evaluates(t) ==
    /\ quote.at <= t
    /\ IF phase = "due" THEN t + Between <= Now ELSE t <= Now
    /\ decision.executed = EvaluateLive(quote, bars, mu, t, decision.bump).executed

Remembered == same => \E t \in Nat : Evaluates(t)

LEMMA RememberedStep == TypeOK /\ Remembered /\ [Next]_vars => Remembered'
<1>. SUFFICES ASSUME TypeOK, Remembered, [Next]_vars, same' PROVE (\E t \in Nat : Evaluates(t))'
  BY DEF Remembered
<1>0. /\ day \in Nat /\ slot \in 1..3 /\ Now \in Nat /\ quote.at <= Now /\ quote.at \in Nat
  <2>1. day \in Nat /\ slot \in 1..3
    BY CalendarAssumption DEF TypeOK, Days
  <2>2. Now \in Nat
    BY <2>1, TimesValue DEF Now, Minute
  <2>. QED
    BY <2>1, <2>2 DEF TypeOK, Now
<1>1. ASSUME same, UNCHANGED <<quote, bars, mu, decision>>,
             \A t \in Nat : IF phase = "due" THEN t + Between <= Now => IF phase' = "due" THEN t + Between <= Now' ELSE t <= Now'
                            ELSE t <= Now => IF phase' = "due" THEN t + Between <= Now' ELSE t <= Now'
      PROVE  (\E t \in Nat : Evaluates(t))'
  BY <1>1 DEF Remembered, Evaluates
<1>2. CASE NewQuote \/ NewBars \/ Retrain
  BY <1>2 DEF NewQuote, NewBars, Retrain, Changes
<1>3. CASE StopOut
  BY <1>1, <1>3 DEF StopOut, Now
<1>4. CASE Cycle
  <2>1. phase' = "decided" /\ UNCHANGED <<day, slot, quote, bars, mu>> /\ Now' = Now
    BY <1>4, CycleDecision DEF Now
  <2>2. decision'.executed = EvaluateLive(quote, bars, mu, Now, decision'.bump).executed
    BY <1>4, CycleDecision
  <2>. QED
    BY <1>0, <2>1, <2>2 DEF Evaluates
<1>5. CASE CycleFails
  <2>1. /\ phase = "due" /\ phase' = "failed" /\ Now' = Now
        /\ UNCHANGED <<quote, bars, mu, decision, same>>
    BY <1>5 DEF CycleFails, candidate, Now
  <2>. QED
    BY <1>0, <1>1, <2>1 DEF Between
<1>6. CASE NextCycle
  <2>1. /\ phase # "due" /\ phase' = "due" /\ slot' = slot + 1 /\ slot < 3 /\ day' = day
        /\ UNCHANGED <<quote, bars, mu, decision, same>>
    BY <1>6 DEF NextCycle, candidate
  <2>2. Now' \in Nat /\ Now + Between <= Now'
    BY <1>0, <2>1, TimesValue DEF Now, Minute, Between
  <2>. QED
    BY <1>0, <1>1, <2>1, <2>2 DEF Between
<1>7. CASE NextDay
  <2>1. /\ phase # "due" /\ phase' = "due" /\ slot = 3 /\ slot' = 1 /\ day' = day + 1
        /\ UNCHANGED <<quote, bars, mu, decision, same>>
    BY <1>7 DEF NextDay, candidate
  <2>2. Now' \in Nat /\ Now + Between <= Now'
    BY <1>0, <2>1, TimesValue DEF Now, Minute, Between
  <2>. QED
    BY <1>0, <1>1, <2>1, <2>2 DEF Between
<1>8. CASE UNCHANGED vars
  BY <1>1, <1>8 DEF vars, candidate, Now
<1>. QED
  BY <1>2, <1>3, <1>4, <1>5, <1>6, <1>7, <1>8 DEF Next

(* AgingNeverHelps of Decisions for every quote, prediction and calendar:  *)
(* the cycles are 170 minutes apart, in which the first band of the risk   *)
(* rises by 1743 hundredths of a basis point, and the second starts where  *)
(* 39 minutes of that would leave it (compute_cost, quote_age_sessions).   *)
THEOREM AgeOnlyCosts == Spec => AgingNeverHelps
<1>1. Init => Remembered
  BY DEF Init, Remembered
<1>2. TypeOK /\ Remembered /\ [Next]_vars =>
          [same /\ phase = "due" /\ phase' = "decided" /\ decision'.bump >= decision.bump
               => (decision'.executed => decision.executed)]_vars
  <2>. SUFFICES ASSUME TypeOK, Remembered, [Next]_vars, same, phase = "due", phase' = "decided",
                       decision'.bump >= decision.bump, decision'.executed
                PROVE  decision.executed
    OBVIOUS
  <2>1. Cycle
    BY DEF Next, NewQuote, NewBars, Retrain, StopOut, Changes, CycleFails, NextCycle, NextDay,
           Happens, vars
  <2>2. /\ decision'.bump \in Nat
        /\ EvaluateLive(quote, bars, mu, Now, decision'.bump).executed
    BY <2>1, CycleDecision
  <2>3. PICK t \in Nat : Evaluates(t)
    BY DEF Remembered
  <2>4. /\ quote \in [mid : {0, 1}, spread : Int, at : Nat] /\ Now \in Nat
        /\ bars \in Histories /\ mu \in Int /\ decision.bump \in Nat
    <3>1. day \in Nat /\ slot \in 1..3
      BY CalendarAssumption DEF TypeOK, Days
    <3>2. Now \in Nat
      BY <3>1, TimesValue DEF Now, Minute
    <3>. QED
      BY <3>2 DEF TypeOK, Now
  <2>5. EvaluateLive(quote, bars, mu, t, decision.bump).executed
    BY <2>2, <2>3, <2>4, LaterCostsMore DEF Evaluates
  <2>. QED
    BY <2>3, <2>5 DEF Evaluates
<1>. QED
  BY <1>1, <1>2, RememberedStep, TypeCorrect, PTL DEF Spec, AgingNeverHelps
=============================================================================
