------------------------------ MODULE StopLevel ------------------------------
(***************************************************************************)
(* The arithmetic of trailing_stops.py.  Prices are whole broker ticks:    *)
(* the code's real-valued level is floored to a tick before it is used,    *)
(* and flooring commutes with the maxima and the cap below.                *)
(***************************************************************************)
EXTENDS Integers

CONSTANTS KChandelier,   \* k_chandelier
          KLooseVol,     \* k_loose_vol: the model's edge is not adverse
          KTightVol,     \* k_tight_vol: it is
          Hysteresis     \* ticks: max(min_replace_delta_pct of the price,
                         \* min_replace_delta_atr_frac of the ATR)

ASSUME StopLevelAssumption ==
    /\ KChandelier \in Nat /\ KLooseVol \in Nat /\ KTightVol \in Nat
    /\ Hysteresis \in Nat

Larger(a, b)  == IF a >= b THEN a ELSE b
Smaller(a, b) == IF a <= b THEN a ELSE b

(* What the latest active_stops row says; 0 where there is no row.         *)
NoPrior == [stop |-> 0, hwm |-> 0]

HighWaterMark(prior, entry, close) == Larger(Larger(entry, close), prior.hwm)

(* The level of one recompute.  atr and vol are the day's range and        *)
(* volatility in ticks; edge is the model's conservative edge.             *)
NewStop(prior, entry, close, atr, vol, edge) ==
    LET chandelier == HighWaterMark(prior, entry, close) - KChandelier * atr
        posterior  == Larger(0, close - (IF edge >= 0 THEN KLooseVol ELSE KTightVol) * vol)
    IN  Larger(Larger(chandelier, posterior), prior.stop)

(* Mutant: the ratchet is left out.                                        *)
NewStopNoRatchet(prior, entry, close, atr, vol, edge) ==
    NewStop(NoPrior, entry, close, atr, vol, edge)

ComputeLevelNoRatchet(prior, entry, close, atr, vol, edge) ==
    [stop |-> NewStopNoRatchet(prior, entry, close, atr, vol, edge),
     hwm  |-> HighWaterMark(prior, entry, close)]

ComputeLevel(prior, entry, close, atr, vol, edge) ==
    [stop |-> NewStop(prior, entry, close, atr, vol, edge),
     hwm  |-> HighWaterMark(prior, entry, close)]

(* A sell stop stays _MIN_STOP_OFFSET_BPS = 25 below the market.           *)
MaxAllowed(close) == (close * (10000 - 25)) \div 10000

TooClose == 0    \* the code's "too_close_to_market"

SnapToBrokerTick(stop, close) ==
    LET adjusted == Smaller(stop, MaxAllowed(close))
    IN  IF stop <= 0 \/ close <= 0 \/ adjusted <= 0 \/ adjusted >= close
        THEN TooClose
        ELSE adjusted

(* Mutant: both terms of the hysteresis are added up.                      *)
ShouldReplaceRarely(newStop, standing) ==
    standing > 0 /\ newStop > standing + 2 * Hysteresis

ShouldReplace(newStop, standing) ==
    standing > 0 /\ newStop > standing + Hysteresis
=============================================================================
