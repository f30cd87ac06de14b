-------------------------------- MODULE Regime --------------------------------
(***************************************************************************)
(* The market regime signal (signals/regime.py): a stress between 0 and    *)
(* Full from three components, smoothed from cycle to cycle, and the       *)
(* multiplier of the risk aversion it implies.  A component is missing     *)
(* when its history is too short.                                          *)
(***************************************************************************)
EXTENDS Integers

Full == 1000
Missing == -1      \* NaN, and NULL in the table
Absent == -2       \* None: no row, or the query failed

Components == {"drawdown", "volatility", "correlation"}
Weight == [drawdown |-> 4, volatility |-> 4, correlation |-> 2]

(* The weighted mean of the components there are.                          *)
WeightOf(scores, c) == IF scores[c] = Missing THEN 0 ELSE Weight[c]

Total(f(_)) == f("drawdown") + f("volatility") + f("correlation")

BlendedStress(scores) ==
    LET weight(c) == WeightOf(scores, c)
        share(c)  == weight(c) * scores[c]
    IN  IF Total(weight) = 0 THEN Missing ELSE Total(share) \div Total(weight)

(* 1 - 0.5^(1/5), in thousandths: a halflife of five cycles.               *)
Alpha == 129

(* Mutant: the previous value keeps all of its weight.                     *)
SmoothedAddsUp(raw, prev) ==
    IF raw = Missing THEN Missing
    ELSE IF prev \in {Absent, Missing} THEN raw ELSE (Alpha * raw) \div 1000 + prev

Smoothed(raw, prev) ==
    IF raw = Missing THEN Missing
    ELSE IF prev \in {Absent, Missing} THEN raw
    ELSE (Alpha * raw + (1000 - Alpha) * prev) \div 1000

(* From 1 to gamma_risk_max = 3, in thousandths.                           *)
GammaMultiplier(ema) == IF ema = Missing THEN 1000 ELSE 1000 + 2 * ema
===============================================================================
