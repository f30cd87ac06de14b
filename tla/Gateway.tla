------------------------------- MODULE Gateway -------------------------------
(***************************************************************************)
(* The decision to buy one candidate: the cost of an action and its net    *)
(* edge, as the engine computes them (costs/model.cpp, gateway/            *)
(* decision.cpp), and the evaluations of the live loop and of the backtest *)
(* built on them.  Costs and edges are exact integers of Bps grains to a   *)
(* basis point; two conversions round down: the quote's age, and the yield *)
(* of waiting in cash.                                                     *)
(***************************************************************************)
EXTENDS Integers

Lesser(a, b) == IF a <= b THEN a ELSE b
Clamp(n, low, high) == IF n < low THEN low ELSE Lesser(n, high)

Bps == 400000
-----------------------------------------------------------------------------
(* What the market says of a symbol.  The age of a quote is in minutes, a  *)
(* session has 390 of them, and session multipliers are in tenths.         *)
SessionMinutes == 390
Regular == 10

(* Hundredths of a basis point for a quote this old: a ramp from half a    *)
(* session on, and another one from a session on that starts lower.        *)
StaleRamp(age) == Lesser(2000, ((age - 195) * 4000) \div SessionMinutes)
StaleJump(age) == Lesser(8000, 400 + ((age - SessionMinutes) * 4000) \div SessionMinutes)

(* Mutant: the second band does not rise.                                  *)
StaleRiskFlat(age) ==
    IF age > SessionMinutes THEN 400 ELSE IF age > 195 THEN StaleRamp(age) ELSE 0

StaleRisk(age) ==
    IF age > SessionMinutes THEN StaleJump(age)
    ELSE IF age > 195 THEN StaleRamp(age) ELSE 0

GapRisk(days) == Clamp((days - 1) * 175, 0, 2500)

(* The gateway evaluates an order of no notional and no slippage: of the   *)
(* liquidity risk only the floor of a quarter of a basis point is left.    *)
LiquidityFloor == 25

(* Thousandths of a basis point.                                           *)
BaseSide(state) ==
    (50 * Lesser(state.spread, 1000) + 10 * Lesser(state.volatility, 200)
        + LiquidityFloor + StaleRisk(state.age)) * state.multiplier
    + 10 * GapRisk(state.gap)

OverRegular(state) == IF state.multiplier > Regular THEN state.multiplier - Regular ELSE 0

ComputeCost(state) ==
    [entry       |-> 400 * BaseSide(state),
     exit        |-> 221 * BaseSide(state),       \* 0.65 * 0.85 of the entry
     queue       |-> Lesser(60 * Bps, 320000 + 180000 * OverRegular(state)),
     cancel      |-> Lesser(60 * Bps, 3 * Bps + 40000 * OverRegular(state)),
     memory      |-> 60 * Bps,
     operational |-> 5 * Bps,
     waiting     |-> (25 * Bps) \div 14]          \* 4.5% / 252
-----------------------------------------------------------------------------
Roles == {"primary", "secondary", "retained", "none"}

MembershipEdge(role) ==
    CASE role = "primary" -> 460 [] role = "secondary" -> 348
      [] role = "retained" -> 200 [] role = "none" -> 0

Friction == 3       \* tenths: friction_seed_primary

CompositeEdge(mu, role) == mu * Bps + MembershipEdge(role) * Friction * (Bps \div 10)

(* Net edges by type of action; rotate is like buy.                        *)
NetBuy(mu, role, state) ==
    LET c == ComputeCost(state)
    IN  CompositeEdge(mu, role) - c.waiting
            - (c.entry + c.exit + c.queue + c.memory + c.operational)

NetSell(mu, role, state) ==
    LET c == ComputeCost(state)
    IN  c.waiting - CompositeEdge(mu, role)
            - (c.exit + c.queue + c.memory + c.operational)

NetReplace(mu, state) ==
    LET c == ComputeCost(state)
    IN  mu * Bps - (c.cancel + c.queue + c.memory + c.operational)

NetCancel(mu, state) ==
    mu * Bps - (ComputeCost(state).cancel + ComputeCost(state).operational)

Net(action, mu, role, state) ==
    CASE action \in {"buy", "rotate"} -> NetBuy(mu, role, state)
      [] action = "sell"    -> NetSell(mu, role, state)
      [] action = "replace" -> NetReplace(mu, state)
      [] action = "cancel"  -> NetCancel(mu, state)
      [] action = "hold"    -> -5 * Bps

Executes(action, mu, role, state) == Net(action, mu, role, state) > 0
-----------------------------------------------------------------------------
(* get_hurdle_bump_bps: bump_initial_bps halves every three sessions.  On  *)
(* the day of the stop the count is 1, both ends being counted.            *)
InitialBump == 50
CubeRootOfHalves == <<1000000, 793701, 629961>>
FirstSessions(n) ==
    InitialBump * (((Bps \div 1000) * CubeRootOfHalves[n + 1]) \div 1000)
HalvesTo(n) ==
    IF n < 3 THEN FirstSessions(n) ELSE FirstSessions(n % 3) \div 2 ^ (n \div 3)

(* Mutant: the day after the stop is the first to count, and counts two.   *)
BumpAfterOneMore(sessions) == HalvesTo(sessions + 1)

BumpAfter(sessions) == HalvesTo(sessions)

(* Annualized volatility, zero from fewer than two closes.  That of a      *)
(* stock with a history is above the cap of the cost model.                *)
AnnualizedVol(bars) == IF bars = "one" THEN 0 ELSE 200

(* Clock minutes since the quote, never less than the delay of the feed.   *)
(* The cycles run in the regular session, or on a holiday, whose session   *)
(* has no multiplier of its own.                                           *)
QuoteAge(at, now) == IF now - at < 15 THEN 15 ELSE now - at

LiveState(quote, bars, now) ==
    [spread |-> quote.spread, volatility |-> AnnualizedVol(bars),
     age |-> QuoteAge(quote.at, now), gap |-> 0, multiplier |-> Regular]

MaxSpread == 100    \* universe.max_spread_bps

Rejected(reason) == [executed |-> FALSE, reason |-> reason, net |-> 0]
Evaluated(net, hurdle, reason) ==
    [executed |-> net - hurdle > 0, reason |-> IF net - hurdle > 0 THEN "" ELSE reason,
     net |-> net]

(* Mutant: the bump is added to the edge.                                  *)
EvaluateLiveRewarded(quote, bars, mu, now, bump) ==
    IF quote.mid <= 0 THEN Rejected("no_quote")
    ELSE IF bars = "none" THEN Rejected("no_bars")
    ELSE IF quote.spread > MaxSpread THEN Rejected("wide_spread")
    ELSE Evaluated(NetBuy(mu, "primary", LiveState(quote, bars, now)), -bump, "hurdle_bump")

EvaluateLive(quote, bars, mu, now, bump) ==
    IF quote.mid <= 0 THEN Rejected("no_quote")
    ELSE IF bars = "none" THEN Rejected("no_bars")
    ELSE IF quote.spread > MaxSpread THEN Rejected("wide_spread")
    ELSE Evaluated(NetBuy(mu, "primary", LiveState(quote, bars, now)), bump,
                   IF bump > 0 THEN "hurdle_bump" ELSE "net_edge_below_hurdle")

(* The backtest has no quotes: the last close, and one spread for all.     *)
BacktestSpread == 5

BacktestState(bars) ==
    [spread |-> BacktestSpread, volatility |-> AnnualizedVol(bars),
     age |-> 0, gap |-> 0, multiplier |-> Regular]

EvaluateBacktest(bars, mu) ==
    IF bars = "none" THEN Rejected("no_bars")
    ELSE IF bars = "unpriced" THEN Rejected("no_price")
    ELSE Evaluated(NetBuy(mu, "primary", BacktestState(bars)), 0, "net_edge_below_hurdle")
=============================================================================
