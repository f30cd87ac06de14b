------------------------------ MODULE Decisions ------------------------------
(***************************************************************************)
(* The first steps of every cycle, live or phantom: the market regime is   *)
(* observed (step 2.5) and a candidate evaluated (step 5).  The cycles of  *)
(* a weekday run at 09:40, 12:30 and 15:55, holidays included; in between  *)
(* the market moves, the model is retrained and stops fill.                *)
(*                                                                         *)
(* The two steps share nothing but the clock while regime.apply_to_kelly   *)
(* is false, so a behaviour varies the inputs of one of them.              *)
(***************************************************************************)
EXTENDS Gateway, Regime, TradingCalendar

CONSTANTS Spreads,     \* spreads a quote may have, below 0 when it is crossed
          QuoteTimes,  \* minutes of a day a quote may be of
          Means,       \* posterior means of the candidate
          Readings,    \* component scores the market may show
          StressDays,  \* bound: days considered when the stress varies
          Failures,    \* calls that may fail
          MaxFaults    \* bound: failures of a behaviour

ASSUME DecisionsAssumption ==
    /\ Spreads \subseteq Int /\ QuoteTimes \subseteq 0..1439 /\ Means \subseteq Int
    /\ \A r \in Readings : r \in [Components -> {Missing} \cup 0..Full]
    /\ StressDays \in Nat /\ MaxFaults \in Nat
    /\ Failures \subseteq {"features", "regime", "persist", "previous", "bump"}

VARIABLES day, slot,  \* the next or present cycle
          phase,      \* it is due, decided, or failed
          quote, bars,\* the latest quote and the history of the candidate
          mu,         \* its posterior mean
          stopped,    \* stop_penalties: the day its newest stop filled
          decision,   \* history: the newest evaluation
          same,       \* history: quote, bars and mu have not changed since
          newest,     \* market_regime: stress_ema of the newest row
          ema,        \* market_regime: the newest stress_ema that is not null
          reseeded,   \* history: the newest row restarted the smoothing
          varied,     \* what varies in this behaviour
          faults

candidate == <<quote, bars, mu, stopped>>
regime == <<newest, ema, reseeded>>
vars == <<day, slot, phase, candidate, decision, same, regime, varied, faults>>

CycleTimes == <<580, 750, 955>>
Minute(d, m) == 1440 * d + m
Now == Minute(day, CycleTimes[slot])

NoQuote == [mid |-> 0, spread |-> 0, at |-> 0]
Histories == {"none", "one", "unpriced", "full"}
Undecided == [executed |-> FALSE, backtest |-> FALSE, bump |-> 0, knew |-> FALSE]

Fault(f) == f \in Failures /\ faults < MaxFaults
Charge(n) == faults + n <= MaxFaults /\ faults' = faults + n

Init ==
    /\ day = 0 /\ slot = 1 /\ phase = "due"
    /\ quote = NoQuote /\ bars = "full" /\ mu \in Means /\ stopped = NoDate
    /\ decision = Undecided /\ same = FALSE
    /\ newest = Absent /\ ema = Absent /\ reseeded = FALSE
    /\ varied \in {"candidate", "stress"} /\ faults = 0
-----------------------------------------------------------------------------
(* External: what happens to the candidate before the cycle.               *)
Happens == phase = "due" /\ varied = "candidate"

Changes == same' = FALSE /\ UNCHANGED <<day, slot, phase, stopped, decision, regime, varied, faults>>

(* A one-sided quote has no mid; a crossed one has a mid and a spread      *)
(* below zero, and nothing filters it.                                     *)
NewQuote ==
    /\ Happens
    /\ \/ quote' = NoQuote
       \/ \E spread \in Spreads, m \in QuoteTimes :
              /\ m <= CycleTimes[slot]
              /\ quote' = [mid |-> 1, spread |-> spread, at |-> Minute(day, m)]
    /\ Changes
    /\ UNCHANGED <<bars, mu>>

NewBars == Happens /\ bars' \in Histories /\ Changes /\ UNCHANGED <<quote, mu>>

Retrain == Happens /\ mu' \in Means /\ Changes /\ UNCHANGED <<quote, bars>>

(* The reconciliation has found a stop filled and written its penalty.     *)
StopOut ==
    /\ Happens /\ day \in TradingDays
    /\ stopped' = day
    /\ UNCHANGED <<day, slot, phase, quote, bars, mu, decision, same, regime, varied, faults>>
-----------------------------------------------------------------------------
Calm == [c \in Components |-> 0]

(* Step 2.5 goes on from the newest row that has a value, of any cycle.    *)
(* Mutant: from the newest row.                                            *)
PreviousNewestRow == newest

Previous == ema

(* A row without a stress has no value in stress_ema.                      *)
PersistMarketRegime(stress) ==
    /\ newest' = stress
    /\ ema' = IF stress = Missing THEN ema ELSE stress

(* Any failure of this step is only logged; without the previous value the *)
(* smoothing starts again.                                                 *)
ObserveRegime(n) ==
    \/ /\ n = 0
       /\ \E scores \in IF varied = "stress" THEN Readings ELSE {Calm} :
              PersistMarketRegime(Smoothed(BlendedStress(scores), Previous))
       /\ reseeded' = FALSE
    \/ /\ n = 1 /\ Fault("previous") /\ varied = "stress"
       /\ \E scores \in Readings :
              PersistMarketRegime(Smoothed(BlendedStress(scores), Absent))
       /\ reseeded' = TRUE
    \/ /\ n = 1 /\ \E f \in {"regime", "persist"} : Fault(f)
       /\ UNCHANGED <<newest, ema, reseeded>>

HurdleBump == IF stopped = NoDate THEN 0 ELSE BumpAfter(TradingDaysBetween(stopped, day))

(* Step 5.  A bump that cannot be read is no bump.                         *)
Evaluate(bump, knew) ==
    decision' = [executed |-> EvaluateLive(quote, bars, mu, Now, bump).executed,
                 backtest |-> EvaluateBacktest(bars, mu).executed,
                 bump |-> bump, knew |-> knew]

EvaluateCandidate(n) ==
    \/ n = 0 /\ Evaluate(HurdleBump, TRUE)
    \/ n = 1 /\ Fault("bump") /\ stopped # NoDate /\ Evaluate(0, FALSE)

Cycle ==
    /\ phase = "due" /\ phase' = "decided"
    /\ \E i, j \in {0, 1} : ObserveRegime(i) /\ EvaluateCandidate(j) /\ Charge(i + j)
    /\ same' = TRUE
    /\ UNCHANGED <<day, slot, candidate, varied>>

(* A cycle that is missed, or whose snapshot or features fail.             *)
CycleFails ==
    /\ phase = "due" /\ phase' = "failed"
    /\ Fault("features") /\ Charge(1)
    /\ UNCHANGED <<day, slot, candidate, decision, same, regime, varied>>

NextCycle ==
    /\ phase # "due" /\ slot < 3
    /\ slot' = slot + 1 /\ phase' = "due"
    /\ UNCHANGED <<day, candidate, decision, same, regime, varied, faults>>

NextDay ==
    /\ phase # "due" /\ slot = 3 /\ day < LastDay
    /\ varied = "stress" => day < StressDays
    /\ day' = day + 1 /\ slot' = 1 /\ phase' = "due"
    /\ UNCHANGED <<candidate, decision, same, regime, varied, faults>>

Next ==
    \/ NewQuote \/ NewBars \/ Retrain \/ StopOut
    \/ Cycle \/ CycleFails \/ NextCycle \/ NextDay

Spec == Init /\ [][Next]_vars
-----------------------------------------------------------------------------
TypeOK ==
    /\ day \in Days /\ slot \in 1..3 /\ phase \in {"due", "decided", "failed"}
    /\ quote \in [mid : {0, 1}, spread : Int, at : 0..Minute(day, CycleTimes[slot])]
    /\ bars \in Histories /\ mu \in Int /\ stopped \in (TradingDays \cap 0..day) \cup {NoDate}
    /\ decision \in [executed : BOOLEAN, backtest : BOOLEAN, bump : Nat, knew : BOOLEAN]
    /\ same \in BOOLEAN /\ reseeded \in BOOLEAN
    /\ newest \in {Absent, Missing} \cup 0..Full
    /\ ema \in {Absent} \cup 0..Full
    /\ varied \in {"candidate", "stress"} /\ faults \in 0..MaxFaults

(* A candidate whose stop filled this session, or whose stop has seen no   *)
(* session since, is not bought while the model expects nothing of it,     *)
(* however fresh its quote and however tight, as long as it is not crossed:*)
(* the bump of the first session is above what the membership edge leaves  *)
(* after costs, by seven tenths of a basis point, which a quote crossed by *)
(* one basis point uses up (get_hurdle_bump_bps against compute_cost, the  *)
(* feed's spread_bps and evaluate).                                        *)
NoReentrySameSession ==
    /\ phase = "decided" /\ decision.knew /\ stopped # NoDate
    /\ TradingDaysBetween(stopped, day) <= 1
    /\ mu <= 0 /\ bars # "one" /\ quote.spread >= 0
    => ~decision.executed

(* A quote that grows older from one cycle to the next never turns a       *)
(* rejected candidate into a purchase, although the second band of the     *)
(* stale-quote risk starts below the end of the first: the cycles are far  *)
(* enough apart for the ramp to make up for the step (compute_cost on the  *)
(* ages quote_age_sessions gives at 09:40, 12:30 and 15:55).               *)
AgingNeverHelps ==
    [][same /\ phase = "due" /\ phase' = "decided" /\ decision'.bump >= decision.bump
           => (decision'.executed => decision.executed)]_vars

(* engine.py:518, "optimistic constant spread": what the live loop buys at *)
(* that spread or a wider one, the backtest buys on the same bars and the  *)
(* same prediction, whatever the age of the quote and the bump.            *)
BacktestOptimistic ==
    /\ phase = "decided" /\ decision.executed
    /\ quote.spread >= BacktestSpread /\ bars # "unpriced"
    => decision.backtest

(* regime.py:72, "a fresh stress reading contributes ~13%": from the       *)
(* newest value in the table to the next one the multiplier moves by at    *)
(* most that share of its range, whatever cycles were missed, saw no       *)
(* stress, failed or were not written in between, unless the table could   *)
(* not be read (the null rows of _persist_market_regime against the filter *)
(* of _load_prev_stress_ema).                                              *)
OneReadingContributesLittle ==
    [][ema # Absent /\ ema' # ema /\ ~reseeded'
           => GammaMultiplier(ema') - GammaMultiplier(ema) \in -260..260]_vars
=============================================================================
