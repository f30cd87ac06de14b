----------------------------- MODULE StopPromise -----------------------------
(***************************************************************************)
(* What the stop manager promises of the positions it sends stops for,     *)
(* however many processes run it: once the first cycle of the day is over, *)
(* a position of an earlier day is under one stop for all its shares until *)
(* the close, and leaves it only by a fill; stops come and go before that, *)
(* and none is sent for a position on the day it was bought or added to.   *)
(***************************************************************************)
CONSTANT Names       \* the symbols stops are sent for

VARIABLES time,      \* "night", "first" (until that cycle is over) or "session"
          owned,     \* the positions held
          fresh,     \* the positions bought, or added to, today
          guarded    \* those under one stop, for the whole of it unless fresh

vars == <<time, owned, fresh, guarded>>

Unguarded == owned \ (fresh \cup guarded)

Init == time = "first" /\ owned = {} /\ fresh = {} /\ guarded = {}
-----------------------------------------------------------------------------
(* Some stops fill, and take the positions they stand for with them.       *)
Filled ==
    /\ guarded' \subseteq guarded /\ owned' \subseteq owned
    /\ owned \ owned' \subseteq guarded \ guarded'
    /\ owned' \cap (guarded \ guarded') \subseteq fresh
    /\ UNCHANGED fresh

Fill == time # "night" /\ Filled /\ UNCHANGED time

Open == time = "night" /\ time' = "first" /\ Filled

(* The first cycle is over: no position of an earlier day is left out.     *)
FirstCycleOver == /\ time = "first" /\ time' = "session"
                  /\ Unguarded = {} /\ Filled

Send(s) ==
    /\ time # "session" /\ s \in Unguarded
    /\ guarded' = guarded \cup {s}
    /\ UNCHANGED <<time, owned, fresh>>

Withdraw(s) ==
    /\ time # "session" /\ s \in guarded
    /\ guarded' = guarded \ {s}
    /\ UNCHANGED <<time, owned, fresh>>

Buy(s) ==
    /\ time = "session"
    /\ owned' = owned \cup {s} /\ fresh' = fresh \cup {s}
    /\ UNCHANGED <<time, guarded>>

(* What was bought today may be sold again, unless a stop holds the shares. *)
Sell(s) ==
    /\ time = "session" /\ s \in (owned \cap fresh) \ guarded
    /\ owned' = owned \ {s}
    /\ UNCHANGED <<time, fresh, guarded>>

(* The stops expire.                                                       *)
Close ==
    /\ time = "session" /\ time' = "night"
    /\ guarded' = {} /\ fresh' = {}
    /\ UNCHANGED owned

Next == \/ Fill \/ Open \/ FirstCycleOver \/ Close
        \/ \E s \in Names : Send(s) \/ Withdraw(s) \/ Buy(s) \/ Sell(s)

Spec == Init /\ [][Next]_vars
=============================================================================
