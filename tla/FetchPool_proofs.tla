-------------------------- MODULE FetchPool_proofs --------------------------
(***************************************************************************)
(* Proofs about the fundamentals fetch: its types, in which lies that the  *)
(* pool never runs more threads than max_workers, that an old answer is    *)
(* the fallback of a fetch that failed, and that get_fundamentals          *)
(* implements the promise Answers states, step by step.  They hold for any *)
(* number of processes, symbols and threads.                               *)
(***************************************************************************)
EXTENDS FetchPool, FiniteSetTheorems, TLAPS

USE FetchPoolAssumption

Answer == Days \cup {Nothing, Waiting}
TaskStates == {"none", "queued", "running", "finished", "failed", "cancelled"}
CallerStates == {"idle", "collect", "save", "write", "timed out"}

(* TypeOK with the domains of its functions, and the threads counted.      *)
Typed ==
    /\ day \in Days
    /\ file \in [Symbols -> Days \cup {Nothing}]
    /\ caller \in [Procs -> CallerStates]
    /\ saving \in [Procs -> SUBSET Symbols]
    /\ out \in [Procs -> [Symbols -> Answer]]
    /\ task \in [Procs -> [Symbols -> TaskStates]]
    /\ attempts \in [Procs -> [Symbols -> 0..(MaxAttempts - 1)]]

(* What holds of process p where its call stands: the symbol it saves was  *)
(* fetched today, and a call that has timed out is answered in full.       *)
CallStage(p) ==
    /\ caller[p] = "idle" => out[p] = Unanswered
    /\ caller[p] # "idle" => \A s \in ETFs : out[p][s] = Nothing
    /\ caller[p] \in {"save", "write"} => \E s \in Symbols : saving[p] = {s} /\ out[p][s] = day
    /\ caller[p] = "timed out" => \A s \in Symbols : out[p][s] # Waiting

Stage == \A p \in Procs : CallStage(p)

(* No more threads run than the pool has.                                  *)
FewThreads ==
    \A p \in Procs : IsFiniteSet(Running(p)) /\ Cardinality(Running(p)) <= MaxWorkers

IInv == Typed /\ Stage /\ FewThreads

(* What process p and its threads do.                                      *)
Act(p) == Ask(p) \/ Caller(p) \/ Threads(p) \/ Crash(p)

LEMMA StepCases == [Next]_vars => (\E p \in Procs : Act(p)) \/ NextDay \/ UNCHANGED vars
  BY DEF Next, Act

(* A process leaves the day and the calls of the others alone.             *)
LEMMA OthersUntouched ==
  ASSUME Typed, NEW p \in Procs, Act(p)
  PROVE  /\ day' = day
         /\ \A q \in Procs \ {p} :
                /\ caller'[q] = caller[q] /\ saving'[q] = saving[q] /\ out'[q] = out[q]
                /\ task'[q] = task[q] /\ attempts'[q] = attempts[q]
<1>. USE DEF Typed
<1>1. CASE Ask(p)
  BY <1>1 DEF Ask
<1>2. CASE Caller(p)
  <2>1. ASSUME NEW s \in Symbols, CollectResult(p, s) \/ CollectFailure(p, s)
        PROVE  /\ day' = day /\ UNCHANGED <<task, attempts>>
               /\ \A q \in Procs \ {p} : caller'[q] = caller[q] /\ saving'[q] = saving[q]
                                        /\ out'[q] = out[q]
    BY <2>1 DEF CollectResult, CollectFailure
  <2>2. CASE OpenFile(p) \/ WriteFile(p) \/ SaveFails(p)
    BY <2>2 DEF OpenFile, WriteFile, SaveFails
  <2>3. CASE PoolTimeout(p)
    BY <2>3 DEF PoolTimeout
  <2>4. CASE Return(p)
    BY <2>4 DEF Return, Idle
  <2>. QED
    BY <1>2, <2>1, <2>2, <2>3, <2>4 DEF Caller
<1>3. CASE Threads(p)
  BY <1>3 DEF Threads, Start, Attempt, Ends
<1>4. CASE Crash(p)
  BY <1>4 DEF Crash, Idle
<1>. QED
  BY <1>1, <1>2, <1>3, <1>4 DEF Act

(* A function of functions with one value replaced.                        *)
LEMMA ReplaceOne ==
  ASSUME NEW D, NEW E, NEW S, NEW f \in [D -> [E -> S]], NEW d \in D, NEW e \in E, NEW v \in S
  PROVE  [f EXCEPT ![d][e] = v] \in [D -> [E -> S]]
  OBVIOUS

(* A set of threads with one more, and a part of one.                      *)
LEMMA OneMore ==
  ASSUME NEW r, NEW e, IsFiniteSet(r), Cardinality(r) < MaxWorkers
  PROVE  IsFiniteSet(r \cup {e}) /\ Cardinality(r \cup {e}) <= MaxWorkers
<1>1. /\ IsFiniteSet(r \cup {e}) /\ Cardinality(r) \in Nat /\ MaxWorkers \in Nat
      /\ Cardinality(r \cup {e}) = Cardinality(r) \/ Cardinality(r \cup {e}) = Cardinality(r) + 1
  BY FS_AddElement, FS_CardinalityType
<1>. QED
  BY <1>1

LEMMA NoneMore ==
  ASSUME NEW r, NEW t \in SUBSET r, IsFiniteSet(r), Cardinality(r) <= MaxWorkers
  PROVE  IsFiniteSet(t) /\ Cardinality(t) <= MaxWorkers
<1>1. IsFiniteSet(t) /\ Cardinality(t) <= Cardinality(r)
  BY FS_Subset
<1>2. Cardinality(t) \in Nat /\ Cardinality(r) \in Nat /\ MaxWorkers \in Nat
  BY <1>1, FS_CardinalityType
<1>. QED
  BY <1>1, <1>2

LEMMA TypedInit == Init => Typed
<1>. SUFFICES ASSUME Init PROVE Typed
  OBVIOUS
<1>1. day \in Days
  BY DEF Init, Days
<1>. QED
  BY <1>1 DEF Init, Typed, Answer, TaskStates, CallerStates, Unanswered

LEMMA TypedPreserved == Typed /\ Stage /\ [Next]_vars => Typed'
<1>. SUFFICES ASSUME Typed, Stage, [Next]_vars PROVE Typed'
  OBVIOUS
<1>. USE DEF Typed
<1>0. /\ Nothing \in Answer /\ Waiting \in Answer /\ day \in Answer
      /\ Unanswered \in [Symbols -> Answer]
      /\ \A s \in Symbols : file[s] \in Answer
  BY DEF Answer, Unanswered
<1>1. ASSUME NEW p \in Procs, Ask(p) PROVE Typed'
  <2>1. out' \in [Procs -> [Symbols -> Answer]]
    BY <1>0, <1>1 DEF Ask
  <2>2. /\ task' \in [Procs -> [Symbols -> TaskStates]]
        /\ caller' \in [Procs -> CallerStates]
    BY <1>1 DEF Ask, TaskStates, CallerStates
  <2>. QED
    BY <1>1, <2>1, <2>2 DEF Ask
<1>2. ASSUME NEW p \in Procs, NEW s \in Symbols, Start(p, s) PROVE Typed'
  BY <1>2 DEF Start, TaskStates
<1>3. ASSUME NEW p \in Procs, NEW s \in Symbols, Attempt(p, s) PROVE Typed'
  <2>. DEFINE Tries == 0..(MaxAttempts - 1)
  <2>1. 0 \in Tries /\ attempts[p][s] \in Tries
    OBVIOUS
  <2>2. "finished" \in TaskStates /\ "failed" \in TaskStates
    BY DEF TaskStates
  <2>3. CASE Ends(p, s, "finished") \/ Ends(p, s, "failed")
    <3>1. PICK o \in TaskStates : /\ task' = [task EXCEPT ![p][s] = o]
                                  /\ attempts' = [attempts EXCEPT ![p][s] = 0]
      BY <2>2, <2>3 DEF Ends
    <3>. HIDE DEF Tries
    <3>2. task' \in [Procs -> [Symbols -> TaskStates]]
      BY <3>1, ReplaceOne
    <3>3. attempts' \in [Procs -> [Symbols -> Tries]]
      BY <2>1, <3>1, ReplaceOne DEF Tries
    <3>. QED
      BY <1>3, <3>2, <3>3 DEF Attempt, Tries
  <2>4. CASE /\ attempts[p][s] + 1 < MaxAttempts
             /\ attempts' = [attempts EXCEPT ![p][s] = @ + 1]
             /\ UNCHANGED task
    <3>1. attempts[p][s] + 1 \in Tries
      BY <2>1, <2>4
    <3>. DEFINE n == attempts[p][s] + 1
    <3>2. n \in Tries /\ attempts' = [attempts EXCEPT ![p][s] = n]
      BY <2>4, <3>1
    <3>. HIDE DEF n, Tries
    <3>3. attempts' \in [Procs -> [Symbols -> Tries]]
      BY <3>2, ReplaceOne DEF Tries
    <3>. QED
      BY <1>3, <2>4, <3>3 DEF Attempt, Tries
  <2>. QED
    BY <1>3, <2>3, <2>4 DEF Attempt
<1>4. ASSUME NEW p \in Procs, NEW s \in Symbols, CollectResult(p, s) \/ CollectFailure(p, s)
      PROVE  Typed'
  <2>1. out' \in [Procs -> [Symbols -> Answer]]
    <3>1. \E v \in Answer : out' = [out EXCEPT ![p][s] = v]
      BY <1>0, <1>4 DEF CollectResult, CollectFailure, Fallback
    <3>. QED
      BY <3>1, ReplaceOne
  <2>2. caller' \in [Procs -> CallerStates] /\ saving' \in [Procs -> SUBSET Symbols]
    <3>1. CASE CollectResult(p, s)
      BY <3>1 DEF CollectResult, CallerStates
    <3>2. CASE CollectFailure(p, s)
      BY <3>2 DEF CollectFailure
    <3>. QED
      BY <1>4, <3>1, <3>2
  <2>. QED
    BY <1>4, <2>1, <2>2 DEF CollectResult, CollectFailure
<1>5. ASSUME NEW p \in Procs, OpenFile(p) \/ WriteFile(p) \/ SaveFails(p) PROVE Typed'
  <2>1. file' \in [Symbols -> Days \cup {Nothing}]
    <3>1. CASE OpenFile(p) \/ SaveFails(p)
      BY <3>1 DEF OpenFile, SaveFails
    <3>2. CASE WriteFile(p)
      <4>1. \A s \in saving[p] : s \in Symbols /\ out[p][s] \in Days
        <5>1. CallStage(p) /\ caller[p] = "write"
          BY <3>2 DEF WriteFile, Stage
        <5>. QED
          BY <5>1 DEF CallStage
      <4>. QED
        BY <3>2, <4>1 DEF WriteFile
    <3>. QED
      BY <1>5, <3>1, <3>2
  <2>2. caller' \in [Procs -> CallerStates] /\ saving' \in [Procs -> SUBSET Symbols]
    BY <1>5 DEF OpenFile, WriteFile, SaveFails, CallerStates
  <2>. QED
    BY <1>5, <2>1, <2>2 DEF OpenFile, WriteFile, SaveFails
<1>6. ASSUME NEW p \in Procs, PoolTimeout(p) PROVE Typed'
  <2>1. out' \in [Procs -> [Symbols -> Answer]]
    BY <1>0, <1>6 DEF PoolTimeout, Fallback
  <2>2. /\ task' \in [Procs -> [Symbols -> TaskStates]]
        /\ caller' \in [Procs -> CallerStates]
    BY <1>6 DEF PoolTimeout, TaskStates, CallerStates
  <2>. QED
    BY <1>6, <2>1, <2>2 DEF PoolTimeout
<1>7. ASSUME NEW p \in Procs, Return(p) \/ Crash(p) PROVE Typed'
  <2>1. out' \in [Procs -> [Symbols -> Answer]]
    BY <1>0, <1>7 DEF Return, Crash, Idle
  <2>2. /\ task' \in [Procs -> [Symbols -> TaskStates]]
        /\ caller' \in [Procs -> CallerStates]
        /\ attempts' \in [Procs -> [Symbols -> 0..(MaxAttempts - 1)]]
        /\ saving' \in [Procs -> SUBSET Symbols]
    <3>1. Idle(p)
      BY <1>7 DEF Return, Crash
    <3>. DEFINE Tries == 0..(MaxAttempts - 1)
    <3>3. 0 \in Tries
      OBVIOUS
    <3>. HIDE DEF Tries
    <3>2. [s \in Symbols |-> 0] \in [Symbols -> Tries]
      BY <3>3
    <3>. QED
      BY <3>1, <3>2 DEF Idle, TaskStates, CallerStates, Tries
  <2>. QED
    BY <1>7, <2>1, <2>2 DEF Return, Crash
<1>8. CASE NextDay
  <2>1. day' \in Days
    BY <1>8 DEF NextDay, Days
  <2>. QED
    BY <1>8, <2>1 DEF NextDay, callVars
<1>9. CASE UNCHANGED vars
  BY <1>9 DEF vars, callVars
<1>. QED
  BY <1>1, <1>2, <1>3, <1>4, <1>5, <1>6, <1>7, <1>8, <1>9 DEF Next, Caller, Threads

LEMMA StagePreserved == Typed /\ Stage /\ [Next]_vars => Stage'
<1>. SUFFICES ASSUME Typed, Stage, [Next]_vars PROVE Stage'
  OBVIOUS
<1>. USE DEF CallStage
<1>1. ASSUME NEW p \in Procs, Act(p) PROVE Stage'
  <2>1. CallStage(p) /\ day' = day
    BY <1>1, OthersUntouched DEF Stage
  <2>2. \A s \in Symbols : file[s] # Waiting
    BY DEF Typed, Days, Waiting, Nothing
  <2>3. ASSUME NEW q \in Procs, q # p PROVE CallStage(q)'
    <3>1. CallStage(q) /\ Unanswered' = Unanswered
      BY DEF Stage, Unanswered
    <3>2. day' = day /\ caller'[q] = caller[q] /\ saving'[q] = saving[q] /\ out'[q] = out[q]
      BY <1>1, <2>3, OthersUntouched
    <3>. QED
      BY <3>1, <3>2
  <2>4. CallStage(p)'
    <3>. USE DEF Typed
    <3>1. CASE Ask(p)
      BY <2>1, <3>1 DEF Ask
    <3>2. ASSUME NEW s \in Symbols, CollectResult(p, s) PROVE CallStage(p)'
      <4>1. caller'[p] = "save" /\ saving'[p] = {s} /\ out'[p] = [out[p] EXCEPT ![s] = day]
        BY <3>2 DEF CollectResult
      <4>2. s \notin ETFs
        BY <2>1, <3>2 DEF CollectResult, Waiting, Nothing
      <4>. QED
        BY <2>1, <3>2, <4>1, <4>2 DEF CollectResult
    <3>3. ASSUME NEW s \in Symbols, CollectFailure(p, s) PROVE CallStage(p)'
      <4>1. caller'[p] = "collect" /\ out'[p] = [out[p] EXCEPT ![s] = file[s]]
        BY <3>3 DEF CollectFailure, Fallback
      <4>2. s \notin ETFs
        BY <2>1, <3>3 DEF CollectFailure, Waiting, Nothing
      <4>. QED
        BY <2>1, <3>3, <4>1, <4>2 DEF CollectFailure
    <3>4. CASE OpenFile(p)
      <4>1. caller'[p] = "write" /\ caller[p] = "save" /\ UNCHANGED <<saving, out>>
        BY <3>4 DEF OpenFile
      <4>. QED
        BY <2>1, <4>1
    <3>5. CASE WriteFile(p) \/ SaveFails(p)
      BY <2>1, <3>5 DEF WriteFile, SaveFails
    <3>6. CASE PoolTimeout(p)
      <4>1. /\ caller'[p] = "timed out" /\ caller[p] = "collect"
            /\ out'[p] = [s \in Symbols |-> IF out[p][s] = Waiting THEN file[s] ELSE out[p][s]]
        BY <3>6 DEF PoolTimeout, Fallback
      <4>. QED
        <5>1. \A s \in Symbols : out'[p][s] = IF out[p][s] = Waiting THEN file[s] ELSE out[p][s]
          BY <4>1
        <5>2. \A s \in Symbols : out'[p][s] # Waiting
          BY <2>2, <5>1
        <5>3. \A s \in ETFs : out'[p][s] = Nothing
          <6>1. \A s \in ETFs : s \in Symbols /\ out[p][s] = Nothing
            BY <2>1, <4>1
          <6>2. Nothing # Waiting
            BY DEF Nothing, Waiting
          <6>. QED
            BY <5>1, <6>1, <6>2
        <5>. QED
          BY <4>1, <5>2, <5>3
    <3>7. CASE Return(p) \/ Crash(p)
      BY <3>7 DEF Return, Crash, Idle, Unanswered
    <3>8. CASE Threads(p)
      <4>1. UNCHANGED <<caller, saving, out>>
        BY <3>8 DEF Threads, Start, Attempt
      <4>. QED
        BY <2>1, <4>1 DEF Unanswered
    <3>. QED
      BY <1>1, <3>1, <3>2, <3>3, <3>4, <3>5, <3>6, <3>7, <3>8 DEF Act, Caller
  <2>. QED
    BY <2>3, <2>4 DEF Stage
<1>2. CASE NextDay
  BY <1>2 DEF NextDay, callVars, Stage, Unanswered
<1>3. CASE UNCHANGED vars
  BY <1>3 DEF vars, callVars, Stage, Unanswered
<1>. QED
  BY <1>1, <1>2, <1>3, StepCases

(* A thread is started only where fewer run than the pool has.             *)
LEMMA FewThreadsPreserved == Typed /\ FewThreads /\ [Next]_vars => FewThreads'
<1>. SUFFICES ASSUME Typed, FewThreads, [Next]_vars PROVE FewThreads'
  OBVIOUS
<1>. USE DEF Typed
<1>1. ASSUME NEW p \in Procs, Act(p) PROVE FewThreads'
  <2>. DEFINE Few(r) == IsFiniteSet(r) /\ Cardinality(r) <= MaxWorkers
  <2>0. Few(Running(p)) /\ MaxWorkers \in Nat
    BY DEF FewThreads
  <2>1. ASSUME NEW q \in Procs, q # p PROVE Few(Running(q)')
    <3>1. Running(q)' = Running(q)
      BY <1>1, <2>1, OthersUntouched DEF Running
    <3>. QED
      BY <3>1 DEF FewThreads
  <2>2. Few(Running(p)')
    <3>1. CASE \E s \in Symbols : Start(p, s)
      <4>1. PICK s \in Symbols : Start(p, s)
        BY <3>1
      <4>2. Running(p)' = Running(p) \cup {s} /\ Cardinality(Running(p)) < MaxWorkers
        BY <4>1 DEF Start, Running
      <4>3. Few(Running(p) \cup {s})
        BY <2>0, <4>2, OneMore
      <4>. QED
        BY <4>2, <4>3
    <3>2. CASE ~\E s \in Symbols : Start(p, s)
      <4>1. Running(p)' \subseteq Running(p)
        <5>1. CASE Ask(p)
          BY <5>1 DEF Ask, Running
        <5>2. CASE Return(p) \/ Crash(p)
          <6>1. task'[p] = [s \in Symbols |-> "none"]
            BY <5>2 DEF Return, Crash, Idle
          <6>. QED
            BY <6>1 DEF Running
        <5>3. CASE PoolTimeout(p)
          BY <5>3 DEF PoolTimeout, Running
        <5>4. ASSUME NEW s \in Symbols, Attempt(p, s) PROVE Running(p)' \subseteq Running(p)
          BY <5>4 DEF Attempt, Ends, Running
        <5>5. CASE UNCHANGED task
          BY <5>5 DEF Running
        <5>. QED
          BY <1>1, <3>2, <5>1, <5>2, <5>3, <5>4, <5>5
             DEF Act, Caller, Threads, CollectResult, CollectFailure, OpenFile, WriteFile, SaveFails
      <4>. QED
        BY <2>0, <4>1, NoneMore
    <3>. QED
      BY <3>1, <3>2
  <2>. QED
    BY <2>1, <2>2 DEF FewThreads
<1>2. CASE UNCHANGED task
  BY <1>2 DEF FewThreads, Running
<1>. QED
  BY <1>1, <1>2, StepCases DEF NextDay, vars, callVars

LEMMA IInvInit == Init => IInv
<1>. SUFFICES ASSUME Init PROVE IInv
  OBVIOUS
<1>1. Stage
  BY DEF Init, Stage, CallStage
<1>2. FewThreads
  <2>1. \A p \in Procs : Running(p) = {}
    BY DEF Init, Running
  <2>. QED
    BY <2>1, FS_EmptySet DEF FewThreads
<1>. QED
  BY <1>1, <1>2, TypedInit DEF IInv

LEMMA IInvPreserved == IInv /\ [Next]_vars => IInv'
  BY TypedPreserved, StagePreserved, FewThreadsPreserved DEF IInv

LEMMA Invariance == Spec => []IInv
  BY IInvInit, IInvPreserved, PTL DEF Spec

(* get_fundamentals: whatever the processes, the pool of none of them has  *)
(* more threads at work than max_workers, no symbol is tried more often    *)
(* than _fetch_one's stop_after_attempt allows, and a cache file never     *)
(* holds what is not a record.                                             *)
THEOREM TypeCorrect == Spec => []TypeOK
<1>1. IInv => TypeOK
  BY DEF IInv, Typed, FewThreads, TypeOK, Answer, TaskStates, CallerStates
<1>. QED
  BY <1>1, Invariance, PTL
-----------------------------------------------------------------------------
LEMMA FailedBeforeStale == Typed /\ Stage /\ StaleOnlyOnFailure /\ [Next]_vars => StaleOnlyOnFailure'
<1>. SUFFICES ASSUME Typed, Stage, StaleOnlyOnFailure, [Next]_vars PROVE StaleOnlyOnFailure'
  OBVIOUS
<1>. DEFINE Old(p, s) == /\ caller[p] \in {"collect", "save", "write"}
                         /\ out[p][s] # Waiting
                         /\ out[p][s] = Nothing \/ day - out[p][s] > Ttl
            Excused(p, s) == Old(p, s) => task[p][s] = "failed"
<1>0. \A p \in Procs, s \in Symbols \ ETFs : Excused(p, s)
  BY DEF StaleOnlyOnFailure
<1>. USE DEF Typed
<1>1. ASSUME NEW p \in Procs, Act(p), NEW q \in Procs, NEW s \in Symbols \ ETFs
      PROVE  Excused(q, s)'
  <2>1. CASE q # p
    <3>1. /\ day' = day /\ caller'[q] = caller[q] /\ out'[q] = out[q] /\ task'[q] = task[q]
      BY <1>1, <2>1, OthersUntouched
    <3>. QED
      BY <1>0, <3>1
  <2>2. CASE q = p
    <3>0. Excused(p, s) /\ day' = day
      BY <1>0, <1>1, OthersUntouched
    <3>1. CASE Ask(p)
      <4>1. out'[p][s] = Waiting \/ (out'[p][s] = file[s] /\ Fresh(s))
        <5>1. out'[p] = [r \in Symbols |-> IF r \in ETFs THEN Nothing
                                         ELSE IF r \in Cold THEN Waiting ELSE file[r]]
          BY <3>1 DEF Ask
        <5>2. out'[p][s] = IF s \in Cold THEN Waiting ELSE file[s]
          BY <5>1
        <5>3. s \in Cold <=> ~Fresh(s)
          BY DEF Cold
        <5>. QED
          BY <5>2, <5>3, Zenon
      <4>2. Fresh(s) => file[s] # Nothing /\ ~(day - file[s] > Ttl)
        BY DEF Fresh, Days, Nothing
      <4>. QED
        BY <2>2, <3>0, <4>1, <4>2
    <3>2. ASSUME NEW r \in Symbols, CollectResult(p, r) PROVE Excused(p, s)'
      <4>1. /\ task' = task /\ caller[p] = "collect"
            /\ out'[p][s] = IF s = r THEN day ELSE out[p][s]
        BY <3>2 DEF CollectResult
      <4>2. day # Nothing /\ ~(day - day > Ttl)
        BY DEF Days, Nothing
      <4>. QED
        BY <3>0, <4>1, <4>2
    <3>3. ASSUME NEW r \in Symbols, CollectFailure(p, r) PROVE Excused(p, s)'
      <4>1. /\ task' = task /\ caller' = caller /\ task[p][r] = "failed"
            /\ out'[p][s] = IF s = r THEN file[r] ELSE out[p][s]
        BY <3>3 DEF CollectFailure, Fallback
      <4>. QED
        BY <3>0, <4>1
    <3>4. CASE OpenFile(p) \/ WriteFile(p) \/ SaveFails(p)
      <4>1. UNCHANGED <<out, task>> /\ caller[p] \in {"save", "write"}
        BY <3>4 DEF OpenFile, WriteFile, SaveFails
      <4>. QED
        BY <2>2, <3>0, <4>1
    <3>5. CASE PoolTimeout(p) \/ Return(p) \/ Crash(p)
      <4>1. caller'[p] \in {"timed out", "idle"}
        BY <3>5 DEF PoolTimeout, Return, Crash, Idle
      <4>. QED
        BY <2>2, <4>1
    <3>6. ASSUME NEW r \in Symbols, Start(p, r) \/ Attempt(p, r) PROVE Excused(p, s)'
      <4>1. UNCHANGED <<caller, out>> /\ task[p][r] # "failed"
        BY <3>6 DEF Start, Attempt
      <4>2. s # r => task'[p][s] = task[p][s]
        BY <3>6 DEF Start, Attempt, Ends
      <4>. QED
        BY <3>0, <4>1, <4>2
    <3>. QED
      BY <1>1, <2>2, <3>1, <3>2, <3>3, <3>4, <3>5, <3>6 DEF Act, Caller, Threads
  <2>. QED
    BY <2>1, <2>2
<1>2. CASE \E p \in Procs : Act(p)
  BY <1>1, <1>2 DEF StaleOnlyOnFailure
<1>3. CASE NextDay
  BY <1>3 DEF NextDay, callVars, StaleOnlyOnFailure
<1>4. CASE UNCHANGED vars
  BY <1>4 DEF vars, callVars, StaleOnlyOnFailure
<1>. QED
  BY <1>2, <1>3, <1>4, StepCases

(* get_fundamentals: while the pool has not timed out, an answer is empty  *)
(* or older than the TTL only where the symbol's own fetch has failed,     *)
(* however many processes share the cache and lose each other's files.     *)
THEOREM StaleMeansFailed == Spec => []StaleOnlyOnFailure
<1>1. Init => StaleOnlyOnFailure
  BY DEF Init, StaleOnlyOnFailure
<1>. QED
  BY <1>1, Invariance, FailedBeforeStale, PTL DEF Spec, IInv
-----------------------------------------------------------------------------
Asking == {p \in Procs : caller[p] # "idle"}

LEMMA PromiseInit == Init => Promise!Init
  BY DEF Init, Promise!Init, Promise!Nothing, Promise!Unanswered, Promise!Waiting,
         Nothing, Unanswered, Waiting

(* The answers of one call change, and the new ones are honest.            *)
LEMMA Given ==
  ASSUME Typed, Typed', NEW p \in Procs,
         \A q \in Procs \ {p} : out'[q] = out[q],
         \A s \in Symbols : out'[p][s] # out[p][s] =>
             /\ out[p][s] = Waiting
             /\ out'[p][s] \in IF s \in ETFs THEN {Nothing} ELSE {day, file[s]}
  PROVE  Promise!Give(p)
<1>1. out' \in [Procs -> [Symbols -> Promise!Days \cup {Promise!Nothing, Promise!Waiting}]]
  BY DEF Typed, Answer, Days, Nothing, Waiting, Promise!Days, Promise!Nothing, Promise!Waiting
<1>2. \A q \in Procs, s \in Symbols :
          out'[q][s] # out[q][s] =>
              /\ q = p
              /\ out[p][s] = Promise!Waiting /\ out'[p][s] \in Promise!Honest(s)
  BY DEF Promise!Honest, Promise!Waiting, Promise!Nothing, Nothing, Waiting
<1>. QED
  BY <1>1, <1>2 DEF Promise!Give

(* Each step of the fetch is a step of the promise, or does not show.      *)
LEMMA PromiseStep == IInv /\ IInv' /\ [Next]_vars => [Promise!Next]_Promise!vars
<1>. SUFFICES ASSUME IInv, IInv', [Next]_vars PROVE [Promise!Next]_Promise!vars
  OBVIOUS
<1>. USE DEF IInv, Typed
<1>0. Typed /\ Typed' /\ Stage
  OBVIOUS
<1>1. ASSUME NEW p \in Procs, Ask(p) PROVE Promise!Ask(p)
  <2>1. p \notin Asking /\ Asking' = Asking \cup {p} /\ UNCHANGED <<day, file>>
    BY <1>1 DEF Ask, Asking
  <2>2. \A s \in Symbols : out[p][s] = Waiting
    <3>1. CallStage(p) /\ caller[p] = "idle"
      BY <1>1 DEF Ask, Stage
    <3>. QED
      BY <3>1 DEF CallStage, Unanswered
  <2>3. /\ \A q \in Procs \ {p} : out'[q] = out[q]
        /\ \A s \in Symbols : out'[p][s] = IF s \in ETFs THEN Nothing
                                           ELSE IF s \in Cold THEN Waiting ELSE file[s]
    BY <1>1 DEF Ask
  <2>4. Promise!Give(p)
    BY <1>0, <2>2, <2>3, Given
  <2>. QED
    BY <2>1, <2>4 DEF Promise!Ask, Asking
<1>2. ASSUME NEW p \in Procs, NEW s \in Symbols, CollectResult(p, s) \/ CollectFailure(p, s)
      PROVE  Promise!Reply(p)
  <2>1. p \in Asking /\ Asking' = Asking /\ UNCHANGED <<day, file>>
    BY <1>2 DEF CollectResult, CollectFailure, Asking
  <2>2. s \notin ETFs /\ out[p][s] = Waiting
    <3>1. CallStage(p) /\ caller[p] = "collect" /\ out[p][s] = Waiting
      BY <1>2 DEF CollectResult, CollectFailure, Stage
    <3>. QED
      BY <3>1 DEF CallStage, Waiting, Nothing
  <2>3. /\ \A q \in Procs \ {p} : out'[q] = out[q]
        /\ \A r \in Symbols \ {s} : out'[p][r] = out[p][r]
        /\ out'[p][s] \in {day, file[s]}
    BY <1>2 DEF CollectResult, CollectFailure, Fallback
  <2>4. Promise!Give(p)
    BY <1>0, <2>2, <2>3, Given
  <2>. QED
    BY <2>1, <2>4 DEF Promise!Reply, Asking
<1>3. ASSUME NEW p \in Procs, PoolTimeout(p) PROVE Promise!Reply(p)
  <2>1. p \in Asking /\ Asking' = Asking /\ UNCHANGED <<day, file>>
    BY <1>3 DEF PoolTimeout, Asking
  <2>2. \A s \in ETFs : s \in Symbols /\ out[p][s] # Waiting
    <3>1. CallStage(p) /\ caller[p] = "collect"
      BY <1>3 DEF PoolTimeout, Stage
    <3>. QED
      BY <3>1 DEF CallStage, Waiting, Nothing
  <2>3. /\ \A q \in Procs \ {p} : out'[q] = out[q]
        /\ \A s \in Symbols : out'[p][s] = IF out[p][s] = Waiting THEN file[s] ELSE out[p][s]
    BY <1>3 DEF PoolTimeout, Fallback
  <2>4. Promise!Give(p)
    BY <1>0, <2>2, <2>3, Given
  <2>. QED
    BY <2>1, <2>4 DEF Promise!Reply, Asking
<1>4. ASSUME NEW p \in Procs, Return(p) \/ Crash(p) PROVE Promise!Return(p) \/ Promise!Abandon(p)
  <2>1. p \in Asking /\ Asking' = Asking \ {p} /\ UNCHANGED <<day, file>>
    <3>1. caller[p] # "idle" /\ UNCHANGED <<day, file>>
      BY <1>4 DEF Return, Crash
    <3>2. caller' = [caller EXCEPT ![p] = "idle"]
      BY <1>4 DEF Return, Crash, Idle
    <3>. QED
      BY <3>1, <3>2 DEF Asking
  <2>2. out' = [out EXCEPT ![p] = Promise!Unanswered]
    BY <1>4 DEF Return, Crash, Idle, Unanswered, Promise!Unanswered, Waiting, Promise!Waiting
  <2>. QED
    BY <2>1, <2>2 DEF Promise!Abandon, Asking
<1>5. ASSUME NEW p \in Procs, OpenFile(p) \/ WriteFile(p)
      PROVE  \E s \in Symbols : Promise!Put(s) \/ Promise!Lose(s)
  <2>1. PICK s \in Symbols : saving[p] = {s} /\ out[p][s] = day
    BY <1>5 DEF OpenFile, WriteFile, Stage, CallStage
  <2>2. p \in Asking /\ Asking' = Asking /\ UNCHANGED <<day, out>>
    BY <1>5 DEF OpenFile, WriteFile, Asking
  <2>3. file' = [file EXCEPT ![s] = day] \/ file' = [file EXCEPT ![s] = Nothing]
    BY <1>5, <2>1 DEF OpenFile, WriteFile
  <2>. QED
    BY <2>1, <2>2, <2>3 DEF Promise!Put, Promise!Lose, Promise!Nothing, Nothing, Asking
<1>6. CASE NextDay
  <2>1. Asking = {} /\ Asking' = Asking /\ UNCHANGED <<file, out>>
    BY <1>6 DEF NextDay, callVars, Asking
  <2>. QED
    BY <1>6, <2>1 DEF NextDay, Promise!NextDay, Promise!Next, Asking
<1>7. CASE \/ UNCHANGED vars
           \/ \E p \in Procs : SaveFails(p) \/ Threads(p)
  <2>1. UNCHANGED <<day, file, out>> /\ Asking' = Asking
    BY <1>7 DEF vars, callVars, SaveFails, Threads, Start, Attempt, Asking
  <2>. QED
    BY <2>1 DEF Promise!vars, Asking
<1>. QED
  BY <1>1, <1>2, <1>3, <1>4, <1>5, <1>6, <1>7 DEF Next, Caller, Promise!Next

(* get_fundamentals implements Answers: every symbol is answered once and  *)
(* no answer is taken back, an answer is what was fetched today or what    *)
(* was on record when it was given, and only what was fetched is saved.    *)
THEOREM Implements == Spec => KeepsPromise
<1>1. Init => Promise!Init
  BY PromiseInit
<1>2. IInv /\ IInv' /\ [Next]_vars => [Promise!Next]_Promise!vars
  BY PromiseStep
<1>. QED
  BY <1>1, <1>2, Invariance, PTL DEF Spec, KeepsPromise, Promise!Spec
=============================================================================
