------------------------------ MODULE FetchPool ------------------------------
(***************************************************************************)
(* data/yahoo_feed.py: get_fundamentals reads the disk cache, gives the    *)
(* cold symbols to a pool of threads, collects the results as they come,   *)
(* saves them, and falls back to an old record for what fails or is not    *)
(* there in time.  The trading process, the stop tool and the backfill     *)
(* each have a pool and share the cache directory.                         *)
(***************************************************************************)
EXTENDS Integers, FiniteSets

CONSTANTS Procs, Symbols,
          ETFs,          \* _KNOWN_ETFS among the symbols
          MaxWorkers,
          MaxAttempts,   \* stop_after_attempt
          Ttl,           \* ttl_days
          LastDay,       \* bound
          Faults         \* TRUE: a write may fail and a process may die

ASSUME FetchPoolAssumption ==
    /\ ETFs \subseteq Symbols
    /\ MaxWorkers \in Nat \ {0} /\ MaxAttempts \in Nat \ {0}
    /\ Ttl \in Nat /\ LastDay \in Nat
    /\ Faults \in BOOLEAN

VARIABLES day,
          file,      \* the cache: the day a symbol was fetched, or Nothing
          caller,    \* where get_fundamentals is in each process
          saving,    \* the symbol that _save_cache is called for
          out,       \* its answers
          task,      \* the future of each cold symbol
          attempts   \* tries that _fetch_one has made

callVars == <<caller, saving, out, task, attempts>>
vars == <<day, file, callVars>>

Nothing == -1        \* no file or one that cannot be read, and the empty answer
Waiting == -2
Days == 0..LastDay
Unanswered == [s \in Symbols |-> Waiting]

Init ==
    /\ day = 0
    /\ file = [s \in Symbols |-> Nothing]
    /\ caller = [p \in Procs |-> "idle"]
    /\ saving = [p \in Procs |-> {}]
    /\ out = [p \in Procs |-> Unanswered]
    /\ task = [p \in Procs |-> [s \in Symbols |-> "none"]]
    /\ attempts = [p \in Procs |-> [s \in Symbols |-> 0]]
-----------------------------------------------------------------------------
(* Mutant: a record of any age will do.                                    *)
FreshAtAnyAge(s) == file[s] # Nothing

(* _load_cache without and with allow_stale.                               *)
Fresh(s) == file[s] # Nothing /\ day - file[s] <= Ttl
Fallback(s) == file[s]

(* Neither an ETF nor a fresh record: the symbol is submitted to the pool. *)
Cold == {s \in Symbols \ ETFs : ~Fresh(s)}

Ask(p) ==
    /\ caller[p] = "idle"
    /\ out' = [out EXCEPT ![p] = [s \in Symbols |->
                  IF s \in ETFs THEN Nothing ELSE IF s \in Cold THEN Waiting ELSE file[s]]]
    /\ task' = [task EXCEPT ![p] = [s \in Symbols |-> IF s \in Cold THEN "queued" ELSE "none"]]
    /\ caller' = [caller EXCEPT ![p] = "collect"]
    /\ UNCHANGED <<day, file, saving, attempts>>
-----------------------------------------------------------------------------
(* The threads of the pool.                                                *)
Running(p) == {s \in Symbols : task[p][s] = "running"}

(* Mutant: a thread for every symbol.                                      *)
StartAtOnce(p, s) ==
    /\ task[p][s] = "queued"
    /\ task' = [task EXCEPT ![p][s] = "running"]
    /\ UNCHANGED <<day, file, caller, saving, out, attempts>>

Start(p, s) ==
    /\ task[p][s] = "queued"
    /\ Cardinality(Running(p)) < MaxWorkers
    /\ task' = [task EXCEPT ![p][s] = "running"]
    /\ UNCHANGED <<day, file, caller, saving, out, attempts>>

Ends(p, s, outcome) ==
    /\ task' = [task EXCEPT ![p][s] = outcome]
    /\ attempts' = [attempts EXCEPT ![p][s] = 0]

(* Mutant: tenacity has no stop.                                           *)
AttemptForEver(p, s) ==
    /\ task[p][s] = "running"
    /\ \/ Ends(p, s, "finished")
       \/ attempts' = [attempts EXCEPT ![p][s] = 1 - @] /\ UNCHANGED task
    /\ UNCHANGED <<day, file, caller, saving, out>>

(* One try of _fetch_one: the session's timeout ends it.  An error that is *)
(* worth a retry is tried again, any other fails at once.                  *)
Attempt(p, s) ==
    /\ task[p][s] = "running"
    /\ \/ Ends(p, s, "finished")
       \/ Ends(p, s, "failed")
       \/ /\ attempts[p][s] + 1 < MaxAttempts
          /\ attempts' = [attempts EXCEPT ![p][s] = @ + 1]
          /\ UNCHANGED task
    /\ UNCHANGED <<day, file, caller, saving, out>>
-----------------------------------------------------------------------------
(* as_completed hands over a future that is done.                          *)
CollectResult(p, s) ==
    /\ caller[p] = "collect" /\ out[p][s] = Waiting
    /\ task[p][s] = "finished"
    /\ out' = [out EXCEPT ![p][s] = day]
    /\ caller' = [caller EXCEPT ![p] = "save"] /\ saving' = [saving EXCEPT ![p] = {s}]
    /\ UNCHANGED <<day, file, task, attempts>>

CollectFailure(p, s) ==
    /\ caller[p] = "collect" /\ out[p][s] = Waiting
    /\ task[p][s] = "failed"
    /\ out' = [out EXCEPT ![p][s] = Fallback(s)]
    /\ UNCHANGED <<day, file, caller, saving, task, attempts>>

(* write_text opens the file, which empties it, and then writes it.        *)
OpenFile(p) ==
    /\ caller[p] = "save"
    /\ file' = [s \in Symbols |-> IF s \in saving[p] THEN Nothing ELSE file[s]]
    /\ caller' = [caller EXCEPT ![p] = "write"]
    /\ UNCHANGED <<day, saving, out, task, attempts>>

(* A file that another process has filled meanwhile is written over, and   *)
(* what is left of it may follow the new text.                             *)
WriteFile(p) ==
    /\ caller[p] = "write"
    /\ \E s \in saving[p] :
           \/ file' = [file EXCEPT ![s] = out[p][s]]
           \/ file[s] # Nothing /\ file' = [file EXCEPT ![s] = Nothing]
    /\ caller' = [caller EXCEPT ![p] = "collect"] /\ saving' = [saving EXCEPT ![p] = {}]
    /\ UNCHANGED <<day, out, task, attempts>>

(* _save_cache logs an OSError, before or after the file is emptied: an    *)
(* emptied file has no record until the next fetch.                        *)
SaveFails(p) ==
    /\ Faults
    /\ caller[p] \in {"save", "write"}
    /\ caller' = [caller EXCEPT ![p] = "collect"] /\ saving' = [saving EXCEPT ![p] = {}]
    /\ UNCHANGED <<day, file, out, task, attempts>>

(* Mutant: the handler answers every symbol, as if none were in out.       *)
PoolTimeoutAnswersAll(p) ==
    /\ caller[p] = "collect"
    /\ \E s \in Symbols : out[p][s] = Waiting
    /\ out' = [out EXCEPT ![p] = [s \in Symbols |-> Fallback(s)]]
    /\ task' = [task EXCEPT ![p] = [s \in Symbols |-> IF @[s] = "queued" THEN "cancelled" ELSE @[s]]]
    /\ caller' = [caller EXCEPT ![p] = "timed out"]
    /\ UNCHANGED <<day, file, saving, attempts>>

(* pool_timeout has passed.  cancel() takes back what has not started; a   *)
(* thread that runs goes on, and nobody takes its result.                  *)
PoolTimeout(p) ==
    /\ caller[p] = "collect"
    /\ \E s \in Symbols : out[p][s] = Waiting
    /\ out' = [out EXCEPT ![p] = [s \in Symbols |-> IF @[s] = Waiting THEN Fallback(s) ELSE @[s]]]
    /\ task' = [task EXCEPT ![p] = [s \in Symbols |-> IF @[s] = "queued" THEN "cancelled" ELSE @[s]]]
    /\ caller' = [caller EXCEPT ![p] = "timed out"]
    /\ UNCHANGED <<day, file, saving, attempts>>

Idle(p) ==
    /\ caller' = [caller EXCEPT ![p] = "idle"] /\ saving' = [saving EXCEPT ![p] = {}]
    /\ out' = [out EXCEPT ![p] = Unanswered]
    /\ task' = [task EXCEPT ![p] = [s \in Symbols |-> "none"]]
    /\ attempts' = [attempts EXCEPT ![p] = [s \in Symbols |-> 0]]

(* Every future is collected, or the pool has timed out; leaving the with  *)
(* block waits for the threads that run.                                   *)
Return(p) ==
    /\ \/ caller[p] = "collect" /\ \A s \in Symbols : out[p][s] # Waiting
       \/ caller[p] = "timed out"
    /\ Running(p) = {}
    /\ Idle(p)
    /\ UNCHANGED <<day, file>>

(* External: the process dies, between two writes or within one.           *)
Crash(p) ==
    /\ Faults
    /\ caller[p] # "idle"
    /\ Idle(p)
    /\ UNCHANGED <<day, file>>

(* A call takes minutes: none is under way at midnight.                    *)
NextDay ==
    /\ \A p \in Procs : caller[p] = "idle"
    /\ day < LastDay /\ day' = day + 1
    /\ UNCHANGED <<file, callVars>>

Caller(p) ==
    \/ \E s \in Symbols : CollectResult(p, s) \/ CollectFailure(p, s)
    \/ OpenFile(p) \/ WriteFile(p) \/ SaveFails(p)
    \/ PoolTimeout(p) \/ Return(p)

Threads(p) == \E s \in Symbols \ ETFs : Start(p, s) \/ Attempt(p, s)

Next ==
    \/ \E p \in Procs : Ask(p) \/ Caller(p) \/ Threads(p) \/ Crash(p)
    \/ NextDay

(* The caller goes on, and so does some thread: that an attempt ends is    *)
(* the session's timeout, which nothing else in the feed enforces.         *)
Fairness == \A p \in Procs : WF_vars(Caller(p)) /\ WF_vars(Threads(p))

Spec == Init /\ [][Next]_vars /\ Fairness
-----------------------------------------------------------------------------
TypeOK ==
    /\ day \in Days
    /\ file \in [Symbols -> Days \cup {Nothing}]
    /\ caller \in [Procs -> {"idle", "collect", "save", "write", "timed out"}]
    /\ saving \in [Procs -> SUBSET Symbols]
    /\ \A p \in Procs : /\ out[p] \in [Symbols -> Days \cup {Nothing, Waiting}]
                        /\ task[p] \in [Symbols -> {"none", "queued", "running", "finished",
                                                    "failed", "cancelled"}]
                        /\ attempts[p] \in [Symbols -> 0..(MaxAttempts - 1)]
                        /\ Cardinality(Running(p)) <= MaxWorkers

(* yahoo_feed.py:14, an old record is the fallback of "a symbol that ran   *)
(* out of retries": unless the whole pool timed out, an answer is empty or *)
(* older than the TTL only if the symbol's own fetch has failed, whatever  *)
(* the other processes save and lose meanwhile.                            *)
StaleOnlyOnFailure ==
    \A p \in Procs, s \in Symbols \ ETFs :
        /\ caller[p] \in {"collect", "save", "write"}
        /\ out[p][s] # Waiting
        /\ out[p][s] = Nothing \/ day - out[p][s] > Ttl
        => task[p][s] = "failed"

(* get_fundamentals keeps what Answers promises: every symbol is answered  *)
(* once, also where the timeout's handler follows the results and threads  *)
(* are late, with a fetch of the day or the record that was there.         *)
Promise == INSTANCE Answers WITH
    stored <- file,
    asking <- {p \in Procs : caller[p] # "idle"},
    answer <- out

KeepsPromise == Promise!Spec

(* yahoo_feed.py:217, "One straggler cannot wedge the batch": every call   *)
(* returns, which takes that every attempt of every thread ends, for       *)
(* leaving the with block joins the threads.                               *)
CallsReturn == \A p \in Procs : []<>(caller[p] = "idle")
=============================================================================
