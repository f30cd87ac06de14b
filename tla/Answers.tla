------------------------------- MODULE Answers -------------------------------
(***************************************************************************)
(* What YahooFeed.get_fundamentals promises its callers: every symbol that *)
(* is asked for is answered once, with what was fetched today or what was  *)
(* on record, and with nothing only where nothing was.                     *)
(***************************************************************************)
EXTENDS Integers

CONSTANTS Procs,     \* the processes that call
          Symbols,
          ETFs,      \* symbols that have no fundamentals
          LastDay    \* bound

VARIABLES day,
          stored,    \* the record of each symbol: the day it was fetched, or Nothing
          asking,    \* the processes with a call under way
          answer     \* what the call of each process has been answered so far

vars == <<day, stored, asking, answer>>

Nothing == -1        \* no record, and the empty answer
Waiting == -2
Days == 0..LastDay
Unanswered == [s \in Symbols |-> Waiting]

Honest(s) == IF s \in ETFs THEN {Nothing} ELSE {day, stored[s]}

Init ==
    /\ day = 0
    /\ stored = [s \in Symbols |-> Nothing]
    /\ asking = {}
    /\ answer = [p \in Procs |-> Unanswered]

(* Some of the answers of process p are given; none is taken back.         *)
Give(p) ==
    /\ answer' \in [Procs -> [Symbols -> Days \cup {Nothing, Waiting}]]
    /\ \A q \in Procs, s \in Symbols :
           answer'[q][s] # answer[q][s] =>
               /\ q = p
               /\ answer[p][s] = Waiting /\ answer'[p][s] \in Honest(s)

Ask(p) ==
    /\ p \notin asking
    /\ asking' = asking \cup {p}
    /\ Give(p)
    /\ UNCHANGED <<day, stored>>

Reply(p) ==
    /\ p \in asking
    /\ Give(p)
    /\ UNCHANGED <<day, stored, asking>>

Return(p) ==
    /\ p \in asking
    /\ \A s \in Symbols : answer[p][s] # Waiting
    /\ asking' = asking \ {p}
    /\ answer' = [answer EXCEPT ![p] = Unanswered]
    /\ UNCHANGED <<day, stored>>

(* The process dies.                                                       *)
Abandon(p) ==
    /\ p \in asking
    /\ asking' = asking \ {p}
    /\ answer' = [answer EXCEPT ![p] = Unanswered]
    /\ UNCHANGED <<day, stored>>

(* Only what a call was answered is ever put on record.                    *)
Put(s) ==
    /\ \E p \in asking : answer[p][s] = day
    /\ stored' = [stored EXCEPT ![s] = day]
    /\ UNCHANGED <<day, asking, answer>>

(* A record is lost only after a call was given a newer one.               *)
Lose(s) ==
    /\ \E p \in asking : answer[p][s] = day
    /\ stored' = [stored EXCEPT ![s] = Nothing]
    /\ UNCHANGED <<day, asking, answer>>

NextDay ==
    /\ asking = {}
    /\ day < LastDay /\ day' = day + 1
    /\ UNCHANGED <<stored, asking, answer>>

Next ==
    \/ \E p \in Procs : Ask(p) \/ Reply(p) \/ Return(p) \/ Abandon(p)
    \/ \E s \in Symbols : Put(s) \/ Lose(s)
    \/ NextDay

Spec == Init /\ [][Next]_vars
=============================================================================
