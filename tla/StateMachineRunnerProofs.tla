---------------------- MODULE StateMachineRunnerProofs ----------------------
(***************************************************************************)
(* Theorems about the runner's loop, for every pipeline, every set of      *)
(* standalone, cached and timed functions and every number of retries.     *)
(* The later ones, from "The runner implements Dataflow" on, are about     *)
(* every setting in which no standalone function has both a timeout and    *)
(* retries.  With both, a job of an attempt that timed out may end after   *)
(* the next attempt has begun, and they are false: the run late_worker     *)
(* shows it.                                                               *)
(***************************************************************************)
EXTENDS StateMachineRunner, FiniteSetTheorems, SequenceTheorems, TLAPS

Futures == [Ids -> FutureObject]
Rows    == [Ids -> FutureState \cup {"NONE"}]

-----------------------------------------------------------------------------
(* What the helpers return. *)

LEMMA RootInIds == Root \in Ids /\ NoFuture \notin Ids
  BY ConstantsAssumption DEF Ids, Root, NoFuture

\* A set of futures is finite.
LEMMA NumberOfFutures ==
  \A S \in SUBSET Ids : IsFiniteSet(S) /\ Cardinality(S) \in Nat
  <1>1. IsFiniteSet(Ids)
    BY FS_Interval, ConstantsAssumption DEF Ids
  <1> QED
    BY <1>1, FS_Subset, FS_CardinalityType

\* Setting a state gives a future object again.
LEMMA SetStateType ==
  ASSUME NEW F \in Futures, NEW f \in Ids, NEW s \in FutureState
  PROVE  SetState(F, f, s) \in Futures
  <1> DEFINE clock == IF IsTerminal(s) \/ s = "RETRYING" THEN "off"
                      ELSE IF s = "SCHEDULED" /\ f \in Timed /\ F[f].clock = "off"
                           THEN "on" ELSE F[f].clock
  <1>1. F[f] \in FutureObject
    BY DEF Futures
  <1>2. clock \in {"off", "on", "expired"}
    BY <1>1 DEF FutureObject
  <1>3. [F[f] EXCEPT !.state = s, !.clock = clock] \in FutureObject
    <2> HIDE DEF clock
    <2> QED
      BY <1>1, <1>2 DEF FutureObject
  <1>4. SetState(F, f, s) = [F EXCEPT ![f] = [F[f] EXCEPT !.state = s, !.clock = clock]]
    BY <1>1 DEF SetState, Futures
  <1> QED
    <2> HIDE DEF clock
    <2> QED
      BY <1>3, <1>4 DEF Futures

\* Setting the value, or the clock, of a future gives a future object again.
LEMMA SetValueType ==
  ASSUME NEW F \in Futures, NEW f \in Ids, NEW v \in BOOLEAN
  PROVE  [F EXCEPT ![f].value = v] \in Futures
  <1>1. F[f] \in FutureObject
    BY DEF Futures
  <1>2. [F[f] EXCEPT !.value = v] \in FutureObject
    BY <1>1 DEF FutureObject
  <1>3. [F EXCEPT ![f].value = v] = [F EXCEPT ![f] = [F[f] EXCEPT !.value = v]]
    BY DEF Futures
  <1> QED
    BY <1>2, <1>3 DEF Futures

LEMMA SetClockType ==
  ASSUME NEW F \in Futures, NEW f \in Ids, NEW c \in {"off", "on", "expired"}
  PROVE  [F EXCEPT ![f].clock = c] \in Futures
  <1>1. F[f] \in FutureObject
    BY DEF Futures
  <1>2. [F[f] EXCEPT !.clock = c] \in FutureObject
    BY <1>1 DEF FutureObject
  <1>3. [F EXCEPT ![f].clock = c] = [F EXCEPT ![f] = [F[f] EXCEPT !.clock = c]]
    BY DEF Futures
  <1> QED
    BY <1>2, <1>3 DEF Futures

\* Setting the state of one future leaves the others alone.
LEMMA SetStateOthers ==
  ASSUME NEW F \in Futures, NEW f \in Ids, NEW s \in FutureState
  PROVE  /\ SetState(F, f, s)[f].state = s
         /\ \A g \in Ids \ {f} : SetState(F, f, s)[g] = F[g]
         /\ \A g \in Ids : /\ SetState(F, f, s)[g].kwargs = F[g].kwargs
                           /\ SetState(F, f, s)[g].nested = F[g].nested
  BY DEF Futures, FutureObject, SetState

\* Marking a future for retry gives a future object in state RETRYING.
LEMMA MarkForRetryType ==
  ASSUME NEW F \in Futures, NEW f \in Ids
  PROVE  MarkForRetry(F, f) \in Futures
  <1>1. SetState(F, f, "RETRYING") \in Futures
    BY SetStateType DEF FutureState
  <1> QED
    BY <1>1 DEF MarkForRetry, Futures, FutureObject

\* Failing a future and its parents gives future objects.
LEMMA FailFutureAndParentsType ==
  ASSUME NEW F \in Futures, NEW f \in Ids
  PROVE  FailFutureAndParents(F, f) \in Futures
  <1>1. SetState(F, f, "FAILED") \in Futures
    BY SetStateType DEF FutureState
  <1>2. \A g \in Ids : SetState(SetState(F, f, "FAILED"), g, "NESTED_FAILED") \in Futures
    BY <1>1, SetStateType DEF FutureState
  <1> QED
    BY <1>1, <1>2 DEF FailFutureAndParents, Futures

\* The rows saved for a failed future and its parents.
LEMMA FailRunAndParentsType ==
  ASSUME NEW F, NEW R \in Rows, NEW f \in Ids
  PROVE  FailRunAndParents(F, R, f) \in Rows
  BY DEF FailRunAndParents, Rows, FutureState

LEMMA TerminalRowsType ==
  ASSUME NEW R \in Rows
  PROVE  MoveRunsToTerminalState(R) \in Rows /\ CancelNonTerminal(R) \in Rows
  BY DEF MoveRunsToTerminalState, CancelNonTerminal, Rows, FutureState

\* Saving rows keeps the types of rows and jobs.
LEMMA SaveRunsType ==
  ASSUME TypeOK, NEW R \in Rows, SaveRuns(R)
  PROVE  run' \in [Ids -> FutureState \cup {"NONE"}] /\ jobs' \in [Ids -> [live : Nat, doomed : Nat]]
  BY DEF TypeOK, SaveRuns, Rows

LEMMA UpdateStatusType ==
  ASSUME NEW s \in PipelineStatus, NEW t \in PipelineStatus
  PROVE  UpdateStatus(s, t) \in PipelineStatus
  BY DEF UpdateStatus

\* A run that fails keeps every type.
LEMMA DidFailType ==
  ASSUME TypeOK, NEW F \in Futures, NEW R \in Rows, NEW e \in Errors,
         PipelineRunDidFail(F, R, e)
  PROVE  TypeOK'
  <1>1. run' \in [Ids -> FutureState \cup {"NONE"}] /\ jobs' \in [Ids -> [live : Nat, doomed : Nat]]
    BY SaveRunsType, TerminalRowsType DEF PipelineRunDidFail
  <1>2. status' \in PipelineStatus
    BY UpdateStatusType DEF PipelineRunDidFail, TypeOK, PipelineStatus
  <1> QED
    BY <1>1, <1>2 DEF TypeOK, PipelineRunDidFail, Ends, Futures, Ended, NoFuture, env

\* The parts of TypeOK that a handler of a failure, and what it goes on with,
\* leave behind.
DataOK ==
  /\ fut \in Futures
  /\ futures \in Seq(Ids)
  /\ run \in Rows
  /\ jobs \in [Ids -> [live : Nat, doomed : Nat]]
  /\ status \in PipelineStatus
  /\ canceling \in BOOLEAN
  /\ evictions \in Nat

ControlOK ==
  /\ pc \in {"starting", "down"} \cup Active \cup Ended
  /\ error \in Errors
  /\ cursor \in Nat \ {0}
  /\ changed \in BOOLEAN
  /\ work \subseteq Ids
  /\ current \in Ids \cup {NoFuture}
  /\ armed \in Ids \cup {NoFuture}

LEMMA TypeParts == TypeOK <=> DataOK /\ ControlOK
  BY DEF TypeOK, DataOK, ControlOK, Futures, Rows

LEMMA TypePartsNext == TypeOK' <=> DataOK' /\ ControlOK'
  BY DEF TypeOK, DataOK, ControlOK, Futures, Rows

\* What the loop goes on with after a step keeps the types of the control state.
LEMMA ContinueType ==
  ASSUME ControlOK
  PROVE  /\ \A did \in BOOLEAN : Advance(did) => ControlOK'
         /\ BackToLoop => ControlOK'
         /\ \A how \in Ended : Ends(how) /\ UNCHANGED error => ControlOK'
  <1>1. ASSUME NEW did \in BOOLEAN, Advance(did) PROVE ControlOK'
    BY <1>1 DEF ControlOK, Advance, Active
  <1>2. ASSUME BackToLoop PROVE ControlOK'
    BY <1>2 DEF ControlOK, BackToLoop, Active
  <1>3. ASSUME NEW how \in Ended, Ends(how), UNCHANGED error PROVE ControlOK'
    BY <1>3 DEF ControlOK, Ends
  <1> QED
    BY <1>1, <1>2, <1>3

\* The two ways a failure is handled keep every type: the future is retried, if
\* what follows keeps the types of the control state, or the run fails.
LEMMA RetryType ==
  ASSUME TypeOK, NEW F \in Futures, NEW R \in Rows, NEW f \in Ids,
         fut' = MarkForRetry(F, f), SaveRuns([R EXCEPT ![f] = "RETRYING"]),
         ControlOK', UNCHANGED <<futures, status, env>>
  PROVE  TypeOK'
  <1>1. [R EXCEPT ![f] = "RETRYING"] \in Rows
    BY DEF Rows, FutureState
  <1>2. DataOK'
    BY <1>1, MarkForRetryType, SaveRunsType, TypeParts DEF DataOK, env, Rows
  <1> QED
    BY <1>2, TypePartsNext

LEMMA FailureType ==
  ASSUME TypeOK, NEW F \in Futures, NEW R \in Rows, NEW f \in Ids,
         PipelineRunDidFail(FailFutureAndParents(F, f), FailRunAndParents(F, R, f),
                            "PipelineRunError")
  PROVE  TypeOK'
  BY DidFailType, FailFutureAndParentsType, FailRunAndParentsType DEF Errors

-----------------------------------------------------------------------------
(* Type correctness. *)

LEMMA InitType == Init => TypeOK
  <1> SUFFICES ASSUME Init PROVE TypeOK
    OBVIOUS
  <1>1. NewFuture \in FutureObject /\ NotMade \in FutureObject
    BY DEF NewFuture, NotMade, FutureObject, FutureState
  <1>2. fut \in Futures
    BY <1>1 DEF Init, Futures
  <1>3. run \in Rows /\ futures \in Seq(Ids)
    BY RootInIds DEF Init, Rows, FutureState
  <1>4. jobs \in [Ids -> [live : Nat, doomed : Nat]] /\ evictions \in Nat
    BY DEF Init
  <1>5. DataOK
    BY <1>2, <1>3, <1>4 DEF Init, DataOK, PipelineStatus
  <1>6. changed \in BOOLEAN
    BY Zenon DEF Init
  <1>7. cursor \in Nat \ {0} /\ error \in Errors
    BY DEF Init, Errors
  <1>8. ControlOK
    BY <1>6, <1>7 DEF Init, ControlOK
  <1> QED
    BY <1>5, <1>8, TypeParts

LEMMA StartType == TypeOK /\ Start => TypeOK'
  <1> SUFFICES ASSUME TypeOK, Start PROVE TypeOK'
    OBVIOUS
  <1>1. CASE PipelineRunDidFail(fut, run, "RunnerRestartError")
    BY <1>1, DidFailType, TypeParts DEF DataOK, Errors
  <1>2. CASE status' = "RUNNING" /\ pc' = "loop"
             /\ UNCHANGED <<memory, run, jobs, cursor, changed, work, current, armed, error, env>>
    BY <1>2 DEF TypeOK, memory, env, Active, PipelineStatus
  <1> QED
    BY <1>1, <1>2 DEF Start

LEMMA LoopHeadType == TypeOK /\ LoopHead => TypeOK'
  <1> SUFFICES ASSUME TypeOK, LoopHead PROVE TypeOK'
    OBVIOUS
  <1>1. CASE pc' = "pass" /\ cursor' = 1 /\ changed' = FALSE
             /\ UNCHANGED <<memory, server, work, current, armed, error, env>>
    <2>1. DataOK'
      BY <1>1, TypeParts DEF DataOK, memory, server, env
    <2>2. cursor' \in Nat \ {0} /\ pc' \in Active
      BY <1>1 DEF Active
    <2>3. changed' \in BOOLEAN
      BY <1>1, Zenon
    <2>4. ControlOK'
      BY <1>1, <2>2, <2>3, TypeParts DEF ControlOK
    <2> QED
      BY <2>1, <2>4, TypePartsNext
  <1>2. CASE /\ status' = "COMPLETE"
             /\ SaveRuns(CancelNonTerminal(run))
             /\ Ends("succeeded")
             /\ UNCHANGED <<memory, error, env>>
    <2>1. CancelNonTerminal(run) \in Rows
      BY TerminalRowsType, TypeParts DEF DataOK
    <2>2. ControlOK'
      BY <1>2, ContinueType, TypeParts DEF Ended
    <2>3. DataOK'
      BY <1>2, <2>1, SaveRunsType, TypeParts DEF DataOK, Rows, memory, env, PipelineStatus
    <2> QED
      BY <2>2, <2>3, TypePartsNext
  <1>3. CASE \E e \in {"BadRequest", "NoKnownValue"} : PipelineRunDidFail(fut, run, e)
    BY <1>3, DidFailType, TypeParts DEF DataOK, Errors
  <1>4. CASE Ends("canceled") /\ UNCHANGED <<memory, server, error, env>>
    <2>1. ControlOK'
      BY <1>4, ContinueType, TypeParts DEF Ended
    <2> QED
      BY <1>4, <2>1, TypeParts, TypePartsNext DEF DataOK, memory, server, env
  <1> QED
    BY <1>1, <1>2, <1>3, <1>4 DEF LoopHead

LEMMA VisitType == \A f \in Ids : TypeOK /\ Visit(f) => TypeOK'
  <1> SUFFICES ASSUME NEW f \in Ids, TypeOK, Visit(f) PROVE TypeOK'
    OBVIOUS
  <1> USE TypeParts, TypePartsNext
  <1>1. fut \in Futures /\ run \in Rows
    BY DEF DataOK
  <1>2. \A s \in FutureState : [run EXCEPT ![f] = s] \in Rows
    BY <1>1 DEF Rows
  <1>3. CASE VisitIdle(f)
    BY <1>3, ContinueType DEF VisitIdle, DataOK, memory, server, env
  <1>4. CASE RunNestedFuture(f)
    <2>1. CASE PipelineRunDidFail(fut, run, "NoNestedFuture")
      BY <2>1, <1>1, DidFailType DEF Errors
    <2>2. CASE /\ fut[f].nested # NoFuture
               /\ fut' = Bubble(f)
               /\ SaveRuns([run EXCEPT ![f] = "RESOLVED"])
               /\ Advance(TRUE)
               /\ UNCHANGED <<futures, status, env>>
      <3>1. SetState(fut, f, "RESOLVED") \in Futures
        BY <1>1, SetStateType DEF FutureState
      <3>2. fut[f].nested \in Ids
        BY <2>2, <1>1 DEF Futures, FutureObject
      <3>3. fut[fut[f].nested].value \in BOOLEAN
        BY <3>2, <1>1 DEF Futures, FutureObject
      <3>4. Bubble(f) \in Futures
        BY <3>1, <3>3, SetValueType DEF Bubble
      <3> QED
        BY <2>2, <3>4, <1>2, ContinueType, SaveRunsType DEF DataOK, Rows, env, FutureState
    <2> QED
      BY <1>4, <2>1, <2>2 DEF RunNestedFuture
  <1>5. CASE ExecuteWithoutRun(f)
    BY <1>5, <1>1, DidFailType DEF ExecuteWithoutRun, Errors
  <1>6. CASE CacheHit(f)
    <2>1. SetState(fut, f, "RESOLVED") \in Futures
      BY <1>1, SetStateType DEF FutureState
    <2>2. fut' \in Futures
      BY <1>6, <2>1, SetValueType DEF CacheHit
    <2> QED
      BY <1>6, <2>2, <1>2, ContinueType, SaveRunsType DEF CacheHit, DataOK, Rows, env, FutureState
  <1>7. CASE RunInline(f)
    <2> DEFINE F == SetState(fut, f, "SCHEDULED")
               R == [run EXCEPT ![f] = "SCHEDULED"]
    <2>1. F \in Futures /\ R \in Rows
      BY <1>1, <1>2, SetStateType DEF FutureState
    <2>2. Advance(TRUE) => ControlOK'
      BY ContinueType
    <2> HIDE DEF F, R
    <2>3. CASE /\ fut' = F /\ SaveRuns(R)
               /\ pc' = "executing" /\ current' = f
               /\ UNCHANGED <<futures, status, cursor, changed, work, armed, error, env>>
      <3>1. DataOK'
        BY <2>3, <2>1, SaveRunsType DEF DataOK, Rows, env
      <3>2. ControlOK'
        BY <2>3 DEF ControlOK, Active
      <3> QED
        BY <3>1, <3>2
    <2>4. ASSUME NEW r \in Ids, PipelineRunDidFail(FailFutureAndParents(F, r),
                                     FailRunAndParents(F, R, r), "PipelineRunError")
          PROVE  TypeOK'
      BY <2>4, <2>1, DidFailType, FailFutureAndParentsType, FailRunAndParentsType DEF Errors
    <2>5. ASSUME NEW r \in Ids, NEW again,
                 HandleFutureFailure(MarkForRetry(F, r), [R EXCEPT ![r] = "RETRYING"],
                                     f, again, Advance(TRUE))
          PROVE  TypeOK'
      <3>1. MarkForRetry(F, r) \in Futures /\ [R EXCEPT ![r] = "RETRYING"] \in Rows
        BY <2>1, MarkForRetryType DEF Rows, FutureState
      <3> QED
        BY <2>5, <2>2, <3>1, RetryType, FailureType DEF HandleFutureFailure
    <2>6. CASE PipelineRunDidFail(F, R, "NotImplementedError")
      BY <2>6, <2>1, DidFailType DEF Errors
    <2>7. ASSUME NEW retriable, HandleFutureFailure(F, R, f, retriable, Advance(TRUE))
          PROVE  TypeOK'
      BY <2>7, <2>2, <2>1, RetryType, FailureType DEF HandleFutureFailure
    <2>8. \A r \in {f} \cup Ancestors(F, f) : Expired(F, r) => r \in Ids
      BY DEF Ancestors
    <2> QED
      BY <1>7, <2>3, <2>4, <2>5, <2>6, <2>7, <2>8 DEF RunInline, F, R
  <1>8. CASE ScheduleFuture(f)
    <2>1. SetState(fut, f, "SCHEDULED") \in Futures
      BY <1>1, SetStateType DEF FutureState
    <2>2. CASE /\ fut' = SetState(fut, f, "SCHEDULED")
               /\ run' = [run EXCEPT ![f] = "SCHEDULED"]
               /\ jobs' = [jobs EXCEPT ![f].live = @ + 1]
               /\ Advance(TRUE)
               /\ UNCHANGED <<futures, status, env>>
      <3> DEFINE live == jobs[f].live + 1
      <3>1. jobs[f] \in [live : Nat, doomed : Nat] /\ live \in Nat
        BY DEF DataOK
      <3>3. [jobs[f] EXCEPT !.live = live] \in [live : Nat, doomed : Nat]
        <4> HIDE DEF live
        <4> QED
          BY <3>1
      <3>2. jobs' \in [Ids -> [live : Nat, doomed : Nat]]
        BY <2>2, <3>3 DEF DataOK
      <3> QED
        BY <2>2, <3>2, <2>1, <1>2, ContinueType DEF DataOK, env, FutureState
    <2>3. CASE PipelineRunDidFail(fut, run, "BadRequest")
      BY <2>3, <1>1, DidFailType DEF Errors
    <2>4. ASSUME run[f] # "NONE" PROVE SetState(fut, f, run[f]) \in Futures
      BY <2>4, <1>1, SetStateType DEF Rows
    <2>5. CASE /\ run[f] # "NONE"
               /\ fut' = SetState(fut, f, run[f])
               /\ Advance(TRUE)
               /\ UNCHANGED <<futures, server, env>>
      BY <2>5, <2>4, ContinueType DEF DataOK, env, server
    <2>6. CASE PipelineRunDidFail(SetState(fut, f, "RAN"), run, "NoNestedFuture")
      <3>1. SetState(fut, f, "RAN") \in Futures
        BY <1>1, SetStateType DEF FutureState
      <3> QED
        BY <2>6, <3>1, <1>1, DidFailType DEF Errors
    <2> QED
      BY <1>8, <2>2, <2>3, <2>5, <2>6 DEF ScheduleFuture
  <1> QED
    BY <1>3, <1>4, <1>5, <1>6, <1>7, <1>8 DEF Visit

LEMMA EndPassType == TypeOK /\ EndPass => TypeOK'
  <1> SUFFICES ASSUME TypeOK, EndPass PROVE TypeOK'
    OBVIOUS
  <1>1. DataOK'
    BY TypeParts DEF EndPass, DataOK, memory, server, env
  <1>2. pc' \in Active
    BY DEF EndPass, Active
  <1>3. ControlOK'
    BY <1>2, TypeParts DEF EndPass, ControlOK
  <1> QED
    BY <1>1, <1>3, TypePartsNext

\* Enqueueing what a function returned.
LEMMA SetNestedType ==
  ASSUME TypeOK, NEW f \in Ids, SetNestedFuture(f)
  PROVE  TypeOK'
  <1> USE TypeParts, TypePartsNext
  <1>1. PICK top \in Unmade :
          \E kw \in [Made(top) -> SUBSET Made(top)],
             order \in [1..Cardinality(Made(top)) -> Made(top)] : Enqueue(f, top, kw, order)
    BY Zenon DEF SetNestedFuture
  <1> DEFINE S == Made(top)
  <1>2. PICK kw \in [S -> SUBSET S], order \in [1..Cardinality(S) -> S] :
          Enqueue(f, top, kw, order)
    BY <1>1
  <1>3. S \subseteq Ids /\ top \in Ids /\ Cardinality(S) \in Nat
    BY NumberOfFutures DEF Made, Unmade
  <1>4. order \in Seq(Ids)
    <2> HIDE DEF S
    <2>1. order \in [1..Cardinality(S) -> Ids]
      BY <1>2, <1>3
    <2> QED
      BY <1>3, <2>1, SeqDef
  <1>5. futures' \in Seq(Ids)
    BY <1>2, <1>4, ConcatProperties DEF DataOK, Enqueue
  <1>6. ASSUME NEW g \in S PROVE [NewFuture EXCEPT !.kwargs = kw[g], !.parent = f] \in FutureObject
    <2>1. kw[g] \in SUBSET Ids
      <3> HIDE DEF S
      <3> QED
        BY <1>2, <1>3
    <2>2. NewFuture \in FutureObject
      BY DEF NewFuture, FutureObject, FutureState
    <2> QED
      BY <2>1, <2>2 DEF FutureObject
  <1>7. [fut[f] EXCEPT !.nested = top] \in FutureObject
    <2>1. fut[f] \in FutureObject
      BY DEF DataOK, Futures
    <2> QED
      BY <1>3, <2>1 DEF FutureObject
  <1>8. fut' \in Futures
    BY <1>2, <1>6, <1>7 DEF DataOK, Futures, Enqueue
  <1>9. /\ pc' = "nesting" /\ current' = f
        /\ UNCHANGED <<server, cursor, changed, work, armed, error, env>>
    BY DEF SetNestedFuture
  <1>10. DataOK'
    BY <1>5, <1>8, <1>9 DEF DataOK, server, env
  <1>11. ControlOK'
    BY <1>9 DEF ControlOK, Active
  <1> QED
    BY <1>10, <1>11

\* While a function runs, and while what it returned is enqueued, current is
\* the future it is called for.
CurrentKnown == pc \in {"executing", "nesting"} => current \in Ids

LEMMA ExecuteType == TypeOK /\ CurrentKnown /\ Execute => TypeOK'
  <1> SUFFICES ASSUME TypeOK, CurrentKnown, Execute PROVE TypeOK'
    OBVIOUS
  <1> USE TypeParts, TypePartsNext
  <1>1. current \in Ids
    BY DEF CurrentKnown, Execute, FunctionReturnsValue, FunctionReturnsFuture,
           FunctionRaises, FunctionTimesOut
  <1>2. fut \in Futures /\ run \in Rows
    BY DEF DataOK
  <1>3. Advance(TRUE) => ControlOK'
    BY ContinueType
  <1>4. CASE FunctionReturnsValue
    <2>1. SetState(fut, current, "RESOLVED") \in Futures
      BY <1>1, <1>2, SetStateType DEF FutureState
    <2>2. fut' \in Futures
      BY <1>1, <1>4, <2>1, SetValueType DEF FunctionReturnsValue
    <2>3. [run EXCEPT ![current] = "RESOLVED"] \in Rows
      BY <1>2 DEF Rows, FutureState
    <2>4. DataOK'
      BY <1>4, <2>2, <2>3, SaveRunsType DEF FunctionReturnsValue, DataOK, Rows, env
    <2> QED
      BY <1>3, <1>4, <2>4 DEF FunctionReturnsValue
  <1>5. CASE FunctionReturnsFuture
    BY <1>1, <1>5, SetNestedType DEF FunctionReturnsFuture
  <1>6. CASE FunctionRaises
    BY <1>1, <1>2, <1>3, <1>6, RetryType, FailureType DEF FunctionRaises, HandleFutureFailure
  <1>7. CASE FunctionTimesOut
    <2>1. CASE \E retriable \in BOOLEAN :
                 /\ ~ ShouldRetry(fut, current, retriable)
                 /\ HandleFutureFailure(fut, run, current, retriable, FALSE)
      BY <1>1, <1>2, <2>1, FailureType DEF HandleFutureFailure
    <2>2. ASSUME NEW again, HandleFutureFailure(MarkForRetry(fut, current),
                   [run EXCEPT ![current] = "RETRYING"], current, again, Advance(TRUE))
          PROVE  TypeOK'
      <3>1. /\ MarkForRetry(fut, current) \in Futures
            /\ [run EXCEPT ![current] = "RETRYING"] \in Rows
        BY <1>1, <1>2, MarkForRetryType DEF Rows, FutureState
      <3> QED
        BY <1>1, <1>3, <2>2, <3>1, RetryType, FailureType DEF HandleFutureFailure
    <2> QED
      BY <1>7, <2>1, <2>2 DEF FunctionTimesOut
  <1> QED
    BY <1>4, <1>5, <1>6, <1>7 DEF Execute

LEMMA FutureDidRunType == TypeOK /\ CurrentKnown /\ FutureDidRun => TypeOK'
  <1> SUFFICES ASSUME TypeOK, CurrentKnown, FutureDidRun PROVE TypeOK'
    OBVIOUS
  <1> USE TypeParts, TypePartsNext
  <1>1. current \in Ids
    BY DEF CurrentKnown, FutureDidRun
  <1>2. fut' \in Futures
    BY <1>1, SetStateType DEF FutureDidRun, DataOK, FutureState
  <1>3. NestedRuns(current) \in Rows
    BY <1>1 DEF NestedRuns, DataOK, Rows, FutureState
  <1>4. DataOK'
    BY <1>2, <1>3, SaveRunsType DEF FutureDidRun, DataOK, Rows, env
  <1>5. ControlOK'
    <2>1. CASE work = {}
      BY <2>1, ContinueType DEF FutureDidRun
    <2>2. CASE work # {}
      BY <2>2 DEF FutureDidRun, ControlOK, Active
    <2> QED
      BY <2>1, <2>2
  <1> QED
    BY <1>4, <1>5

LEMMA WaitType == TypeOK /\ CurrentKnown /\ Wait => TypeOK'
  <1> SUFFICES ASSUME TypeOK, CurrentKnown, Wait PROVE TypeOK'
    OBVIOUS
  <1> USE TypeParts, TypePartsNext
  <1>1. fut \in Futures /\ run \in Rows
    BY DEF DataOK
  <1>2. BackToLoop => ControlOK'
    BY ContinueType
  <1>3. CASE WaitTimesOut
    BY <1>1, <1>2, <1>3, RetryType, FailureType DEF WaitTimesOut, HandleFutureFailure
  <1>4. CASE NothingToWaitFor \/ EndProcessing
    BY <1>2, <1>4 DEF NothingToWaitFor, EndProcessing, DataOK, memory, server, env
  <1>5. CASE PollRuns
    <2>1. DataOK'
      BY <1>5 DEF PollRuns, DataOK, memory, server, env
    <2>2. ChangedRuns \subseteq Ids
      BY ConstantsAssumption DEF ChangedRuns, InlineOut, OutJobs
    <2>3. armed' \in Ids \cup {NoFuture}
      BY <1>5 DEF PollRuns
    <2>4. pc' \in Active
      BY <1>5 DEF PollRuns, Active
    <2>5. ControlOK'
      BY <1>5, <2>2, <2>3, <2>4 DEF PollRuns, ControlOK
    <2> QED
      BY <2>1, <2>5
  <1>6. CASE ProcessRunOutput
    <2>1. PICK f \in work :
            \/ /\ run[f] = "RESOLVED"
               /\ fut' = [SetState(fut, f, "RESOLVED") EXCEPT ![f].value = TRUE]
               /\ work' = work \ {f}
               /\ UNCHANGED <<futures, server, pc, cursor, changed, current, armed, error, env>>
            \/ SetNestedFuture(f)
            \/ \E retriable \in BOOLEAN :
                 HandleFutureFailure(fut, run, f, retriable,
                   /\ work' = work \ {f}
                   /\ UNCHANGED <<pc, cursor, changed, current, armed, error>>)
      BY <1>6 DEF ProcessRunOutput
    <2>2. f \in Ids
      BY DEF ControlOK
    <2>3. CASE /\ run[f] = "RESOLVED"
               /\ fut' = [SetState(fut, f, "RESOLVED") EXCEPT ![f].value = TRUE]
               /\ work' = work \ {f}
               /\ UNCHANGED <<futures, server, pc, cursor, changed, current, armed, error, env>>
      <3>1. SetState(fut, f, "RESOLVED") \in Futures
        BY <1>1, <2>2, SetStateType DEF FutureState
      <3>2. fut' \in Futures
        BY <2>2, <2>3, <3>1, SetValueType
      <3>3. DataOK'
        BY <2>3, <3>2 DEF DataOK, server, env
      <3>4. ControlOK'
        BY <2>3 DEF ControlOK
      <3> QED
        BY <3>3, <3>4
    <2>4. CASE SetNestedFuture(f)
      BY <2>2, <2>4, SetNestedType
    <2>5. CASE \E retriable \in BOOLEAN :
                 HandleFutureFailure(fut, run, f, retriable,
                   /\ work' = work \ {f}
                   /\ UNCHANGED <<pc, cursor, changed, current, armed, error>>)
      <3>1. work' = work \ {f} /\ UNCHANGED <<pc, cursor, changed, current, armed, error>>
              => ControlOK'
        BY DEF ControlOK
      <3> QED
        BY <1>1, <2>2, <2>5, <3>1, RetryType, FailureType DEF HandleFutureFailure
    <2> QED
      BY <2>1, <2>3, <2>4, <2>5
  <1>7. CASE AlarmInterrupts
    <2>1. armed \in Ids
      BY <1>7 DEF AlarmInterrupts, ControlOK
    <2>2. CASE \E retriable \in BOOLEAN :
                 HandleFutureFailure(fut, run, armed, retriable, BackToLoop)
      BY <1>1, <1>2, <2>1, <2>2, RetryType, FailureType DEF HandleFutureFailure
    <2>3. CASE BackToLoop /\ UNCHANGED <<memory, server, env>>
      BY <1>2, <2>3 DEF DataOK, memory, server, env
    <2> QED
      BY <1>7, <2>2, <2>3 DEF AlarmInterrupts
  <1> QED
    BY <1>3, <1>4, <1>5, <1>6, <1>7 DEF Wait

\* Canceling what is not terminal gives future objects.
LEMMA CanceledFuturesType ==
  ASSUME fut \in Futures
  PROVE  CanceledFutures \in Futures
  <1>1. \A f \in Ids : SetState(fut, f, "CANCELED")[f] \in FutureObject
    <2> SUFFICES ASSUME NEW f \in Ids PROVE SetState(fut, f, "CANCELED")[f] \in FutureObject
      OBVIOUS
    <2>1. SetState(fut, f, "CANCELED") \in Futures
      BY SetStateType DEF FutureState
    <2> QED
      BY <2>1 DEF Futures
  <1> QED
    BY <1>1 DEF CanceledFutures, Futures

LEMMA SignalType == TypeOK /\ CurrentKnown /\ (CancelSignal \/ CancelSignalFails) => TypeOK'
  <1> SUFFICES ASSUME TypeOK, CurrentKnown, CancelSignal \/ CancelSignalFails PROVE TypeOK'
    OBVIOUS
  <1> USE TypeParts, TypePartsNext
  <1>1. fut \in Futures /\ run \in Rows
    BY DEF DataOK
  <1>2. CanceledFutures \in Futures
    BY <1>1, CanceledFuturesType
  <1>3. CancelNonTerminal(run) \in Rows
    BY <1>1, TerminalRowsType
  <1>4. CASE CancelSignal
    <2>1. StatusAfterCleanUp(CancelNonTerminal(run)) \in PipelineStatus
      BY DEF StatusAfterCleanUp, PipelineStatus
    <2>2. status' \in PipelineStatus
      BY <1>4, <2>1, UpdateStatusType DEF CancelSignal, DataOK
    <2>3. canceling' \in BOOLEAN
      BY <1>4, Zenon DEF CancelSignal
    <2>4. DataOK'
      BY <1>2, <1>3, <1>4, <2>2, <2>3, SaveRunsType DEF CancelSignal, DataOK, Rows
    <2>5. Ends("canceled") /\ error' = "CancellationError"
      BY <1>4 DEF CancelSignal
    <2>6. ControlOK'
      BY <2>5 DEF ControlOK, Ends, Ended, Errors
    <2> QED
      BY <2>4, <2>6
  <1>5. CASE CancelSignalFails
    <2>1. CASE PipelineRunDidFail(CanceledFutures, CancelNonTerminal(run),
                                  "ResourceNotFoundError")
      BY <1>2, <1>3, <2>1, DidFailType DEF Errors
    <2>2. CASE /\ pc \in {"executing", "nesting"}
               /\ \E retriable \in BOOLEAN :
                    HandleFutureFailure(CanceledFutures, CancelNonTerminal(run), current,
                                        retriable, Advance(TRUE))
      <3>1. current \in Ids
        BY <2>2 DEF CurrentKnown
      <3>2. Advance(TRUE) => ControlOK'
        BY ContinueType
      <3> QED
        BY <1>2, <1>3, <2>2, <3>1, <3>2, RetryType, FailureType DEF HandleFutureFailure
    <2> QED
      BY <1>5, <2>1, <2>2 DEF CancelSignalFails
  <1> QED
    BY <1>4, <1>5

LEMMA EvictType == TypeOK /\ Evict => TypeOK'
  <1> SUFFICES ASSUME TypeOK, Evict PROVE TypeOK'
    OBVIOUS
  <1>1. evictions' \in Nat
    BY TypeParts DEF Evict, DataOK
  <1>2. canceling' \in BOOLEAN
    BY Zenon DEF Evict
  <1>3. DataOK'
    BY <1>1, <1>2, TypeParts DEF Evict, DataOK, memory, server
  <1>4. ControlOK'
    BY TypeParts DEF Evict, ControlOK
  <1> QED
    BY <1>3, <1>4, TypePartsNext

\* A future rebuilt from its row is a future object.
LEMMA RebuiltType ==
  ASSUME TypeOK, NEW f \in Ids
  PROVE  Rebuilt(f) \in FutureObject
  <1> DEFINE reentered == f \notin Standalone /\ run[f] = "SCHEDULED"
             st == IF reentered THEN "RETRYING" ELSE run[f]
             ne == IF fut[f].nested # NoFuture /\ run[fut[f].nested] # "NONE"
                   THEN fut[f].nested ELSE NoFuture
             va == (run[f] = "RESOLVED")
             cl == IF reentered \/ IsTerminal(run[f]) \/ run[f] = "CREATED" \/ f \notin Timed
                   THEN "off" ELSE IF fut[f].clock = "off" THEN "on" ELSE fut[f].clock
  <1>1. fut[f] \in FutureObject /\ run[f] \in FutureState \cup {"NONE"}
    BY DEF TypeOK
  <1>2. st \in FutureState \cup {"NONE"}
    BY <1>1 DEF FutureState
  <1>3. ne \in Ids \cup {NoFuture} /\ cl \in {"off", "on", "expired"}
    BY <1>1 DEF FutureObject
  <1>4. va \in BOOLEAN
    OBVIOUS
  <1>5. Rebuilt(f) \in {NotMade, [fut[f] EXCEPT !.state = st, !.nested = ne, !.value = va,
                                              !.retry_count = 0, !.clock = cl]}
    BY DEF Rebuilt
  <1>6. NotMade \in FutureObject
    BY DEF NotMade, NewFuture, FutureObject, FutureState
  <1>7. ASSUME NEW s \in FutureState \cup {"NONE"}, NEW n \in Ids \cup {NoFuture},
               NEW v \in BOOLEAN, NEW c \in {"off", "on", "expired"}
        PROVE  [fut[f] EXCEPT !.state = s, !.nested = n, !.value = v,
                              !.retry_count = 0, !.clock = c] \in FutureObject
    BY <1>1 DEF FutureObject
  <1> HIDE DEF st, ne, va, cl
  <1>8. [fut[f] EXCEPT !.state = st, !.nested = ne, !.value = va,
                       !.retry_count = 0, !.clock = cl] \in FutureObject
    BY <1>2, <1>3, <1>4, <1>7, Zenon
  <1> QED
    BY <1>5, <1>6, <1>8

LEMMA RestartType == TypeOK /\ Restart => TypeOK'
  <1> SUFFICES ASSUME TypeOK, Restart PROVE TypeOK'
    OBVIOUS
  <1> USE TypeParts, TypePartsNext
  <1>1. ControlOK'
    BY DEF Restart, ControlOK, Active
  <1>2. CASE UNCHANGED <<memory, run>>
    BY <1>1, <1>2 DEF Restart, DataOK, memory, env
  <1>3. CASE /\ fut' = [f \in Ids |-> Rebuilt(f)]
             /\ LET S == {f \in Ids : run[f] # "NONE"}
                IN  \E order \in [1..Cardinality(S) -> S] :
                      IsReentryOrder(order) /\ futures' = order
             /\ run' = [f \in Ids |->
                          IF f \notin Standalone /\ run[f] = "SCHEDULED" THEN "RETRYING"
                          ELSE run[f]]
    <2>1. fut' \in Futures
      BY <1>3, RebuiltType DEF Futures
    <2>2. run' \in Rows
      BY <1>3 DEF DataOK, Rows, FutureState
    <2> DEFINE S == {f \in Ids : run[f] # "NONE"}
    <2>3. S \subseteq Ids /\ Cardinality(S) \in Nat
      BY NumberOfFutures
    <2>4. futures' \in [1..Cardinality(S) -> S]
      BY <1>3
    <2>5. futures' \in Seq(Ids)
      <3> HIDE DEF S
      <3>1. futures' \in [1..Cardinality(S) -> Ids]
        BY <2>3, <2>4
      <3> QED
        BY <2>3, <3>1, SeqDef
    <2> QED
      BY <1>1, <2>1, <2>2, <2>5 DEF Restart, DataOK, env
  <1> QED
    BY <1>2, <1>3 DEF Restart

LEMMA WorkerType == \A f \in Ids : TypeOK /\ (WorkerEnds(f) \/ PodKilled(f)) => TypeOK'
  <1> SUFFICES ASSUME NEW f \in Ids, TypeOK, WorkerEnds(f) \/ PodKilled(f) PROVE TypeOK'
    OBVIOUS
  <1> USE TypeParts, TypePartsNext
  <1>1. jobs[f] \in [live : Nat, doomed : Nat] /\ jobs[f].live \in Nat /\ jobs[f].doomed \in Nat
    BY DEF DataOK
  <1>2. jobs[f].doomed > 0 => [jobs[f] EXCEPT !.doomed = @ - 1] \in [live : Nat, doomed : Nat]
    <2> DEFINE d == jobs[f].doomed - 1
    <2>1. jobs[f].doomed > 0 => d \in Nat
      BY <1>1
    <2> HIDE DEF d
    <2>2. jobs[f].doomed > 0 => [jobs[f] EXCEPT !.doomed = d] \in [live : Nat, doomed : Nat]
      BY <1>1, <2>1
    <2> QED
      BY <2>2 DEF d
  <1>3. jobs[f].live > 0 => [jobs[f] EXCEPT !.live = @ - 1] \in [live : Nat, doomed : Nat]
    <2> DEFINE d == jobs[f].live - 1
    <2>1. jobs[f].live > 0 => d \in Nat
      BY <1>1
    <2> HIDE DEF d
    <2>2. jobs[f].live > 0 => [jobs[f] EXCEPT !.live = d] \in [live : Nat, doomed : Nat]
      BY <1>1, <2>1
    <2> QED
      BY <2>2 DEF d
  <1>4. CASE PodKilled(f)
    <2>1. jobs' \in [Ids -> [live : Nat, doomed : Nat]]
      BY <1>2, <1>4 DEF PodKilled, DataOK
    <2> QED
      BY <1>4, <2>1 DEF PodKilled, DataOK, ControlOK, memory, control, env
  <1>5. CASE WorkerEnds(f)
    <2>1. PICK outcome \in {"RESOLVED", "RAN", "FAILED"}, left \in [live : Nat, doomed : Nat] :
            /\ run' = [run EXCEPT ![f] = outcome]
            /\ jobs' = [jobs EXCEPT ![f] =
                          IF outcome = "RAN" THEN left
                          ELSE [live |-> 0, doomed |-> left.live + left.doomed]]
      BY <1>2, <1>3, <1>5 DEF WorkerEnds
    <2>2. [live |-> 0, doomed |-> left.live + left.doomed] \in [live : Nat, doomed : Nat]
      OBVIOUS
    <2>3. jobs' \in [Ids -> [live : Nat, doomed : Nat]]
      BY <2>1, <2>2 DEF DataOK
    <2>4. run' \in Rows
      BY <2>1 DEF DataOK, Rows, FutureState
    <2> QED
      BY <1>5, <2>3, <2>4 DEF WorkerEnds, DataOK, ControlOK, memory, control, env
  <1> QED
    BY <1>4, <1>5

LEMMA ServerCancelsType == TypeOK /\ ServerCancels => TypeOK'
  <1> SUFFICES ASSUME TypeOK, ServerCancels PROVE TypeOK'
    OBVIOUS
  <1> USE TypeParts, TypePartsNext
  <1>1. CancelNonTerminal(run) \in Rows
    BY TerminalRowsType DEF DataOK
  <1>2. canceling' \in BOOLEAN
    BY Zenon DEF ServerCancels
  <1>3. DataOK'
    BY <1>1, <1>2, SaveRunsType DEF ServerCancels, DataOK, Rows, memory, PipelineStatus
  <1>4. ControlOK'
    BY DEF ServerCancels, ControlOK, control
  <1> QED
    BY <1>3, <1>4

LEMMA TimePassesType == \A f \in Ids : TypeOK /\ TimePasses(f) => TypeOK'
  <1> SUFFICES ASSUME NEW f \in Ids, TypeOK, TimePasses(f) PROVE TypeOK'
    OBVIOUS
  <1>1. fut \in Futures /\ fut' = [fut EXCEPT ![f].clock = "expired"]
    BY TypeParts DEF TimePasses, DataOK
  <1>2. fut' \in Futures
    BY <1>1, SetClockType
  <1> QED
    BY <1>2, TypeParts, TypePartsNext DEF TimePasses, DataOK, ControlOK, server, control, env

\* Between the call of a function and the save of what it returned, current
\* stays the future of the call.
LEMMA CurrentStep == TypeOK /\ CurrentKnown /\ [Next]_vars => CurrentKnown'
  <1> SUFFICES ASSUME TypeOK, CurrentKnown, [Next]_vars PROVE CurrentKnown'
    OBVIOUS
  <1>1. \A F, R, e : PipelineRunDidFail(F, R, e) => CurrentKnown'
    BY DEF PipelineRunDidFail, Ends, CurrentKnown
  <1>2. \A did : Advance(did) => CurrentKnown'
    BY DEF Advance, CurrentKnown
  <1>3. BackToLoop => CurrentKnown'
    BY DEF BackToLoop, CurrentKnown
  <1>4. UNCHANGED <<pc, current>> => CurrentKnown'
    BY DEF CurrentKnown
  <1>5. \A f \in Ids : SetNestedFuture(f) => CurrentKnown'
    BY DEF SetNestedFuture, CurrentKnown
  <1>6. work \subseteq Ids
    BY DEF TypeOK
  <1>7. CASE Start \/ LoopHead \/ EndPass \/ Evict \/ Restart
    BY <1>1, <1>7 DEF Start, LoopHead, EndPass, Evict, Restart, Ends, CurrentKnown
  <1>8. ASSUME NEW f \in Ids, Visit(f) PROVE CurrentKnown'
    <2>1. CASE RunInline(f)
      BY <1>1, <1>2, <2>1 DEF RunInline, HandleFutureFailure, CurrentKnown
    <2>2. CASE VisitIdle(f) \/ RunNestedFuture(f) \/ ExecuteWithoutRun(f) \/ CacheHit(f)
               \/ ScheduleFuture(f)
      BY <1>1, <1>2, <2>2
         DEF VisitIdle, RunNestedFuture, ExecuteWithoutRun, CacheHit, ScheduleFuture
    <2> QED
      BY <1>8, <2>1, <2>2 DEF Visit
  <1>9. CASE Execute
    <2>1. CASE FunctionReturnsFuture
      BY <1>5, <2>1 DEF FunctionReturnsFuture, CurrentKnown
    <2>2. CASE FunctionReturnsValue \/ FunctionRaises \/ FunctionTimesOut
      BY <1>1, <1>2, <2>2
         DEF FunctionReturnsValue, FunctionRaises, FunctionTimesOut, HandleFutureFailure
    <2> QED
      BY <1>9, <2>1, <2>2 DEF Execute
  <1>10. CASE FutureDidRun
    BY <1>2, <1>10 DEF FutureDidRun, CurrentKnown
  <1>11. CASE Wait
    <2>1. CASE ProcessRunOutput
      BY <1>1, <1>4, <1>5, <1>6, <2>1 DEF ProcessRunOutput, HandleFutureFailure
    <2>2. CASE WaitTimesOut \/ NothingToWaitFor \/ PollRuns \/ EndProcessing \/ AlarmInterrupts
      BY <1>1, <1>3, <2>2
         DEF WaitTimesOut, NothingToWaitFor, PollRuns, EndProcessing, AlarmInterrupts,
             HandleFutureFailure, CurrentKnown
    <2> QED
      BY <1>11, <2>1, <2>2 DEF Wait
  <1>12. CASE CancelSignal \/ CancelSignalFails
    BY <1>1, <1>2, <1>12
       DEF CancelSignal, CancelSignalFails, HandleFutureFailure, Ends, CurrentKnown
  <1>13. CASE UNCHANGED control
    BY <1>4, <1>13 DEF control
  <1> QED
    BY <1>7, <1>8, <1>9, <1>10, <1>11, <1>12, <1>13
       DEF Next, Runner, WorkerEnds, PodKilled, ServerCancels, TimePasses, Finished, vars

LEMMA TypeStep == TypeOK /\ CurrentKnown /\ [Next]_vars => TypeOK'
  <1> SUFFICES ASSUME TypeOK, CurrentKnown, [Next]_vars PROVE TypeOK'
    OBVIOUS
  <1>1. CASE Runner
    BY <1>1, StartType, LoopHeadType, VisitType, EndPassType, ExecuteType, FutureDidRunType,
       WaitType DEF Runner
  <1>2. CASE UNCHANGED vars
    BY <1>2, TypeParts, TypePartsNext
       DEF vars, memory, server, control, env, DataOK, ControlOK
  <1> QED
    BY <1>1, <1>2, SignalType, EvictType, RestartType, ServerCancelsType, WorkerType,
       TimePassesType DEF Next, Finished

\* The variables of the runner, of the rows of the server and of the jobs keep
\* their types through every pass, failure, cancellation, eviction and re-entry:
\* in particular a retry is only counted up, and a nested future, a parent and
\* the future an alarm stands for are futures that exist.
THEOREM TypeCorrect == Spec => []TypeOK
  <1>1. Init => TypeOK /\ CurrentKnown
    BY InitType DEF Init, CurrentKnown
  <1>2. TypeOK /\ CurrentKnown /\ [Next]_vars => (TypeOK /\ CurrentKnown)'
    BY TypeStep, CurrentStep
  <1> QED
    BY <1>1, <1>2, PTL DEF Spec

-----------------------------------------------------------------------------
(* max_parallelism. *)

\* The strengthening: the runner knows of every job that is out.  Where the row
\* of a run is SCHEDULED its future is too, in every state, also when run() has
\* ended or the pod is down.
RowKnown(F, R) == \A f \in Standalone : R[f] = "SCHEDULED" => F[f].state = "SCHEDULED"

ScheduledRowsKnown == RowKnown(fut, run)

\* After the rows were moved to a terminal state none of them is SCHEDULED.
LEMMA TerminalRowsKnown ==
  ASSUME NEW F, NEW R \in Rows, NEW T \in {MoveRunsToTerminalState(R), CancelNonTerminal(R)}
  PROVE  RowKnown(F, T)
  BY ConstantsAssumption
     DEF RowKnown, MoveRunsToTerminalState, CancelNonTerminal, IsTerminal, TerminalStates

LEMMA DidFailKnown ==
  ASSUME NEW F, NEW R \in Rows, NEW e, PipelineRunDidFail(F, R, e)
  PROVE  ScheduledRowsKnown'
  BY TerminalRowsKnown DEF PipelineRunDidFail, SaveRuns, ScheduledRowsKnown, RowKnown

\* Setting the state of a future and that of its row keeps them in step.
LEMMA SetBothKnown ==
  ASSUME NEW F \in Futures, NEW R \in Rows, RowKnown(F, R), NEW f \in Ids,
         NEW s \in FutureState, NEW t \in FutureState, t = "SCHEDULED" => s = "SCHEDULED"
  PROVE  RowKnown(SetState(F, f, s), [R EXCEPT ![f] = t])
  <1> SUFFICES ASSUME NEW g \in Standalone, [R EXCEPT ![f] = t][g] = "SCHEDULED"
               PROVE  SetState(F, f, s)[g].state = "SCHEDULED"
    BY DEF RowKnown
  <1>1. g \in Ids
    BY ConstantsAssumption
  <1>2. CASE g = f
    BY <1>1, <1>2, SetStateOthers DEF Rows
  <1>3. CASE g # f
    BY <1>1, <1>3, SetStateOthers DEF Rows, RowKnown
  <1> QED
    BY <1>2, <1>3

LEMMA RetryKnown ==
  ASSUME NEW F \in Futures, NEW R \in Rows, RowKnown(F, R), NEW f \in Ids
  PROVE  RowKnown(MarkForRetry(F, f), [R EXCEPT ![f] = "RETRYING"])
  <1>1. SetState(F, f, "RETRYING") \in Futures
    BY SetStateType DEF FutureState
  <1>2. \A g \in Ids : MarkForRetry(F, f)[g].state = SetState(F, f, "RETRYING")[g].state
    BY <1>1 DEF MarkForRetry, Futures, FutureObject
  <1>3. RowKnown(SetState(F, f, "RETRYING"), [R EXCEPT ![f] = "RETRYING"])
    BY SetBothKnown DEF FutureState
  <1> QED
    BY <1>2, <1>3, ConstantsAssumption DEF RowKnown

LEMMA HandleKnown ==
  ASSUME NEW F \in Futures, NEW R \in Rows, RowKnown(F, R), NEW f \in Ids,
         \/ fut' = MarkForRetry(F, f) /\ SaveRuns([R EXCEPT ![f] = "RETRYING"])
         \/ PipelineRunDidFail(FailFutureAndParents(F, f), FailRunAndParents(F, R, f),
                               "PipelineRunError")
  PROVE  ScheduledRowsKnown'
  <1>1. CASE fut' = MarkForRetry(F, f) /\ SaveRuns([R EXCEPT ![f] = "RETRYING"])
    BY <1>1, RetryKnown DEF SaveRuns, ScheduledRowsKnown
  <1>2. CASE PipelineRunDidFail(FailFutureAndParents(F, f), FailRunAndParents(F, R, f),
                                "PipelineRunError")
    BY <1>2, FailRunAndParentsType, DidFailKnown
  <1> QED
    BY <1>1, <1>2

LEMMA KnownStep == TypeOK /\ CurrentKnown /\ ScheduledRowsKnown /\ [Next]_vars => ScheduledRowsKnown'
  <1> SUFFICES ASSUME TypeOK, CurrentKnown, ScheduledRowsKnown, [Next]_vars
               PROVE  ScheduledRowsKnown'
    OBVIOUS
  <1>1. fut \in Futures /\ run \in Rows /\ RowKnown(fut, run)
    BY DEF TypeOK, Futures, Rows, ScheduledRowsKnown
  <1>2. UNCHANGED <<fut, run>> => ScheduledRowsKnown'
    BY DEF ScheduledRowsKnown, RowKnown
  <1>3. \A e : PipelineRunDidFail(fut, run, e) => ScheduledRowsKnown'
    BY <1>1, DidFailKnown
  <1>4. \A R : SaveRuns(R) => run' = R
    BY DEF SaveRuns
  <1>5. \A f \in Ids : \A retriable :
          \/ HandleFutureFailure(fut, run, f, retriable, Advance(TRUE))
          \/ HandleFutureFailure(fut, run, f, retriable, BackToLoop)
          \/ HandleFutureFailure(fut, run, f, retriable, FALSE)
          \/ HandleFutureFailure(fut, run, f, retriable,
               work' = work \ {f} /\ UNCHANGED <<pc, cursor, changed, current, armed, error>>)
          => ScheduledRowsKnown'
    BY <1>1, HandleKnown DEF HandleFutureFailure
  <1>6. \A f \in Ids : fut' = [SetState(fut, f, "RESOLVED") EXCEPT ![f].value = TRUE]
                         /\ SaveRuns([run EXCEPT ![f] = "RESOLVED"]) => ScheduledRowsKnown'
    <2> SUFFICES ASSUME NEW f \in Ids,
                        fut' = [SetState(fut, f, "RESOLVED") EXCEPT ![f].value = TRUE],
                        run' = [run EXCEPT ![f] = "RESOLVED"]
                 PROVE  ScheduledRowsKnown'
      BY <1>4
    <2>1. RowKnown(SetState(fut, f, "RESOLVED"), run')
      BY <1>1, SetBothKnown DEF FutureState
    <2>2. \A g \in Ids : fut'[g].state = SetState(fut, f, "RESOLVED")[g].state
      <3>1. SetState(fut, f, "RESOLVED") \in Futures
        BY <1>1, SetStateType DEF FutureState
      <3> QED
        BY <3>1 DEF Futures, FutureObject
    <2> QED
      BY <2>1, <2>2, ConstantsAssumption DEF ScheduledRowsKnown, RowKnown
  <1>7. \A f \in Ids : SetNestedFuture(f) => ScheduledRowsKnown'
    <2> SUFFICES ASSUME NEW f \in Ids, SetNestedFuture(f), NEW g \in Standalone,
                        run'[g] = "SCHEDULED"
                 PROVE  fut'[g].state = "SCHEDULED"
      BY DEF ScheduledRowsKnown, RowKnown
    <2>1. run' = run
      BY DEF SetNestedFuture, server
    <2>2. g \in Ids /\ fut[g].state = "SCHEDULED"
      BY <1>1, <2>1, ConstantsAssumption DEF RowKnown
    <2>3. PICK top \in Unmade :
            \E kw \in [Made(top) -> SUBSET Made(top)],
               order \in [1..Cardinality(Made(top)) -> Made(top)] : Enqueue(f, top, kw, order)
      BY Zenon DEF SetNestedFuture
    <2>4. g \notin Made(top)
      BY <2>2 DEF Made, Unmade
    <2>5. fut'[g] = IF g = f THEN [fut[f] EXCEPT !.nested = top] ELSE fut[g]
      BY <2>2, <2>3, <2>4 DEF Enqueue
    <2>6. fut[g] \in FutureObject
      BY <1>1, <2>2 DEF Futures
    <2> QED
      BY <2>2, <2>5, <2>6 DEF FutureObject
  <1>8. work \subseteq Ids /\ (armed # NoFuture => armed \in Ids)
    BY DEF TypeOK
  <1>9. pc \in {"executing", "nesting"} => current \in Ids
    BY DEF CurrentKnown
  <1>10. CASE Start \/ LoopHead \/ EndPass
    <2>1. CASE SaveRuns(CancelNonTerminal(run))
      BY <1>1, <2>1, <1>4, TerminalRowsKnown DEF ScheduledRowsKnown, RowKnown
    <2> QED
      BY <1>2, <1>3, <1>10, <2>1 DEF Start, LoopHead, EndPass, memory, server
  <1>11. ASSUME NEW f \in Ids, Visit(f) PROVE ScheduledRowsKnown'
    <2>1. CASE VisitIdle(f) \/ ExecuteWithoutRun(f)
      BY <1>2, <1>3, <2>1 DEF VisitIdle, ExecuteWithoutRun, memory, server
    <2>2. CASE RunNestedFuture(f)
      <3>1. CASE PipelineRunDidFail(fut, run, "NoNestedFuture")
        BY <1>3, <3>1
      <3>2. CASE fut' = Bubble(f) /\ run' = [run EXCEPT ![f] = "RESOLVED"]
        <4>1. SetState(fut, f, "RESOLVED") \in Futures
          BY <1>1, SetStateType DEF FutureState
        <4>2. RowKnown(SetState(fut, f, "RESOLVED"), run')
          BY <1>1, <3>2, SetBothKnown DEF FutureState
        <4>3. \A g \in Ids : fut'[g].state = SetState(fut, f, "RESOLVED")[g].state
          BY <3>2, <4>1 DEF Bubble, Futures, FutureObject
        <4> QED
          BY <4>2, <4>3, ConstantsAssumption DEF ScheduledRowsKnown, RowKnown
      <3> QED
        BY <1>4, <2>2, <3>1, <3>2 DEF RunNestedFuture
    <2>3. CASE CacheHit(f)
      BY <1>6, <2>3 DEF CacheHit
    <2>4. CASE RunInline(f)
      <3> DEFINE F == SetState(fut, f, "SCHEDULED")
                 R == [run EXCEPT ![f] = "SCHEDULED"]
      <3>1. F \in Futures /\ R \in Rows /\ RowKnown(F, R)
        BY <1>1, SetStateType, SetBothKnown DEF FutureState, Rows
      <3>2. \A r \in {f} \cup Ancestors(F, f) : r \in Ids
        BY DEF Ancestors
      <3> HIDE DEF F, R
      <3>3. CASE fut' = F /\ SaveRuns(R)
        BY <1>4, <3>1, <3>3 DEF ScheduledRowsKnown
      <3>4. ASSUME NEW r \in Ids, PipelineRunDidFail(FailFutureAndParents(F, r),
                                       FailRunAndParents(F, R, r), "PipelineRunError")
            PROVE  ScheduledRowsKnown'
        BY <3>1, <3>4, HandleKnown
      <3>5. ASSUME NEW r \in Ids, NEW again,
                   HandleFutureFailure(MarkForRetry(F, r), [R EXCEPT ![r] = "RETRYING"],
                                       f, again, Advance(TRUE))
            PROVE  ScheduledRowsKnown'
        <4>1. /\ MarkForRetry(F, r) \in Futures
              /\ [R EXCEPT ![r] = "RETRYING"] \in Rows
              /\ RowKnown(MarkForRetry(F, r), [R EXCEPT ![r] = "RETRYING"])
          BY <3>1, MarkForRetryType, RetryKnown DEF Rows, FutureState
        <4> QED
          BY <3>5, <4>1, HandleKnown DEF HandleFutureFailure
      <3>6. CASE PipelineRunDidFail(F, R, "NotImplementedError")
        BY <3>1, <3>6, DidFailKnown
      <3>7. ASSUME NEW retriable, HandleFutureFailure(F, R, f, retriable, Advance(TRUE))
            PROVE  ScheduledRowsKnown'
        BY <3>1, <3>7, HandleKnown DEF HandleFutureFailure
      <3> QED
        BY <2>4, <3>2, <3>3, <3>4, <3>5, <3>6, <3>7 DEF RunInline, F, R
    <2>5. CASE ScheduleFuture(f)
      <3>1. CASE fut' = SetState(fut, f, "SCHEDULED") /\ run' = [run EXCEPT ![f] = "SCHEDULED"]
        BY <1>1, <3>1, SetBothKnown DEF ScheduledRowsKnown, FutureState
      <3>2. CASE PipelineRunDidFail(fut, run, "BadRequest")
        BY <1>3, <3>2
      <3>3. CASE run[f] # "NONE" /\ fut' = SetState(fut, f, run[f]) /\ run' = run
        <4>1. run[f] \in FutureState /\ [run EXCEPT ![f] = run[f]] = run
          BY <1>1, <3>3 DEF Rows
        <4>2. RowKnown(SetState(fut, f, run[f]), [run EXCEPT ![f] = run[f]])
          BY <1>1, <4>1, SetBothKnown
        <4> QED
          BY <3>3, <4>1, <4>2 DEF ScheduledRowsKnown
      <3>4. CASE PipelineRunDidFail(SetState(fut, f, "RAN"), run, "NoNestedFuture")
        BY <1>1, <3>4, DidFailKnown
      <3> QED
        BY <2>5, <3>1, <3>2, <3>3, <3>4 DEF ScheduleFuture, server
    <2> QED
      BY <1>11, <2>1, <2>2, <2>3, <2>4, <2>5 DEF Visit
  <1>12. CASE Execute
    <2>1. current \in Ids
      BY <1>9, <1>12 DEF Execute, FunctionReturnsValue, FunctionReturnsFuture,
                         FunctionRaises, FunctionTimesOut
    <2>2. CASE FunctionReturnsValue \/ FunctionReturnsFuture
      BY <1>6, <1>7, <2>1, <2>2 DEF FunctionReturnsValue, FunctionReturnsFuture
    <2>3. CASE FunctionRaises
      BY <1>5, <2>1, <2>3 DEF FunctionRaises
    <2>4. CASE FunctionTimesOut
      <3>1. ASSUME NEW again, HandleFutureFailure(MarkForRetry(fut, current),
                     [run EXCEPT ![current] = "RETRYING"], current, again, Advance(TRUE))
            PROVE  ScheduledRowsKnown'
        <4>1. /\ MarkForRetry(fut, current) \in Futures
              /\ [run EXCEPT ![current] = "RETRYING"] \in Rows
              /\ RowKnown(MarkForRetry(fut, current), [run EXCEPT ![current] = "RETRYING"])
          BY <1>1, <2>1, MarkForRetryType, RetryKnown DEF Rows, FutureState
        <4> QED
          BY <2>1, <3>1, <4>1, HandleKnown DEF HandleFutureFailure
      <3> QED
        BY <1>5, <2>1, <2>4, <3>1 DEF FunctionTimesOut
    <2> QED
      BY <1>12, <2>2, <2>3, <2>4 DEF Execute
  <1>13. CASE FutureDidRun
    <2>1. current \in Ids /\ fut' = SetState(fut, current, "RAN") /\ run' = NestedRuns(current)
      BY <1>4, <1>9, <1>13 DEF FutureDidRun
    <2> SUFFICES ASSUME NEW g \in Standalone, run'[g] = "SCHEDULED"
                 PROVE  fut'[g].state = "SCHEDULED"
      BY DEF ScheduledRowsKnown, RowKnown
    <2>2. g \in Ids /\ g # current /\ run[g] = "SCHEDULED"
      BY <2>1, ConstantsAssumption DEF NestedRuns
    <2> QED
      BY <1>1, <2>1, <2>2, SetStateOthers DEF RowKnown, FutureState
  <1>14. CASE Wait
    <2>1. CASE ProcessRunOutput
      <3>1. PICK f \in work :
              \/ /\ run[f] = "RESOLVED"
                 /\ fut' = [SetState(fut, f, "RESOLVED") EXCEPT ![f].value = TRUE]
                 /\ run' = run
              \/ SetNestedFuture(f)
              \/ \E retriable \in BOOLEAN :
                   HandleFutureFailure(fut, run, f, retriable,
                     /\ work' = work \ {f}
                     /\ UNCHANGED <<pc, cursor, changed, current, armed, error>>)
        BY <2>1 DEF ProcessRunOutput, server
      <3>2. f \in Ids
        BY <1>8
      <3>3. CASE /\ run[f] = "RESOLVED"
                 /\ fut' = [SetState(fut, f, "RESOLVED") EXCEPT ![f].value = TRUE]
                 /\ run' = run
        <4>1. SetState(fut, f, "RESOLVED") \in Futures
          BY <1>1, <3>2, SetStateType DEF FutureState
        <4>2. \A g \in Ids \ {f} : fut'[g] = fut[g]
          BY <1>1, <3>2, <3>3, <4>1, SetStateOthers DEF Futures, FutureState
        <4> QED
          BY <1>1, <3>3, <4>2, ConstantsAssumption DEF ScheduledRowsKnown, RowKnown
      <3> QED
        BY <1>5, <1>7, <3>1, <3>2, <3>3
    <2>2. CASE WaitTimesOut
      BY <1>5, <2>2 DEF WaitTimesOut
    <2>3. CASE NothingToWaitFor \/ PollRuns \/ EndProcessing
      BY <1>2, <2>3 DEF NothingToWaitFor, PollRuns, EndProcessing, memory, server
    <2>4. CASE AlarmInterrupts
      BY <1>2, <1>5, <1>8, <2>4 DEF AlarmInterrupts, memory, server
    <2> QED
      BY <1>14, <2>1, <2>2, <2>3, <2>4 DEF Wait
  <1>15. CASE CancelSignal
    BY <1>1, <1>4, <1>15, TerminalRowsKnown DEF CancelSignal, ScheduledRowsKnown, RowKnown
  <1>16. CASE CancelSignalFails
    <2>1. CancelNonTerminal(run) \in Rows /\ RowKnown(CanceledFutures, CancelNonTerminal(run))
      BY <1>1, TerminalRowsType, TerminalRowsKnown
    <2>2. CASE PipelineRunDidFail(CanceledFutures, CancelNonTerminal(run), "ResourceNotFoundError")
      BY <2>1, <2>2, DidFailKnown
    <2>3. CASE /\ pc \in {"executing", "nesting"}
               /\ \E retriable \in BOOLEAN :
                    HandleFutureFailure(CanceledFutures, CancelNonTerminal(run), current,
                                        retriable, Advance(TRUE))
      BY <1>1, <1>9, <2>1, <2>3, CanceledFuturesType, HandleKnown DEF HandleFutureFailure
    <2> QED
      BY <1>16, <2>2, <2>3 DEF CancelSignalFails
  <1>17. CASE Evict
    BY <1>2, <1>17 DEF Evict, memory, server
  <1>18. CASE Restart
    <2>1. CASE UNCHANGED <<memory, run>>
      BY <1>2, <2>1 DEF memory
    <2>2. CASE /\ fut' = [f \in Ids |-> Rebuilt(f)]
               /\ run' = [f \in Ids |-> IF f \notin Standalone /\ run[f] = "SCHEDULED"
                                       THEN "RETRYING" ELSE run[f]]
      <3> SUFFICES ASSUME NEW g \in Standalone, run'[g] = "SCHEDULED"
                   PROVE  fut'[g].state = "SCHEDULED"
        BY DEF ScheduledRowsKnown, RowKnown
      <3>1. g \in Ids /\ run[g] = "SCHEDULED" /\ fut[g] \in FutureObject
        BY <1>1, <2>2, ConstantsAssumption DEF Futures
      <3>2. Rebuilt(g).state = "SCHEDULED"
        BY <3>1 DEF Rebuilt, FutureObject
      <3> QED
        BY <2>2, <3>1, <3>2
    <2> QED
      BY <1>18, <2>1, <2>2 DEF Restart
  <1>19. ASSUME NEW f \in Ids, WorkerEnds(f) \/ PodKilled(f) \/ TimePasses(f)
         PROVE  ScheduledRowsKnown'
    <2>1. CASE WorkerEnds(f)
      <3>1. PICK outcome \in {"RESOLVED", "RAN", "FAILED"} : run' = [run EXCEPT ![f] = outcome]
        BY <2>1 DEF WorkerEnds
      <3>2. fut' = fut
        BY <2>1 DEF WorkerEnds, memory
      <3> QED
        BY <1>1, <3>1, <3>2, ConstantsAssumption DEF ScheduledRowsKnown, RowKnown, Rows
    <2>2. CASE PodKilled(f)
      BY <1>2, <2>2 DEF PodKilled, memory
    <2>3. CASE TimePasses(f)
      <3>1. run' = run /\ \A g \in Ids : fut'[g].state = fut[g].state
        BY <1>1, <2>3 DEF TimePasses, server, Futures, FutureObject
      <3> QED
        BY <1>1, <3>1, ConstantsAssumption DEF ScheduledRowsKnown, RowKnown
    <2> QED
      BY <1>19, <2>1, <2>2, <2>3
  <1>20. CASE ServerCancels
    BY <1>1, <1>4, <1>20, TerminalRowsKnown DEF ServerCancels, ScheduledRowsKnown, RowKnown
  <1>21. CASE UNCHANGED vars
    BY <1>2, <1>21 DEF vars, memory, server
  <1> QED
    BY <1>10, <1>11, <1>12, <1>13, <1>14, <1>15, <1>16, <1>17, <1>18, <1>19, <1>20, <1>21
       DEF Next, Runner, Finished
\* No run of a standalone function becomes SCHEDULED by this step.
NoneScheduled == \A g \in Standalone : run'[g] = "SCHEDULED" => run[g] = "SCHEDULED"

LEMMA TerminalRowsQuiet ==
  ASSUME NEW R \in Rows, run' \in {MoveRunsToTerminalState(R), CancelNonTerminal(R)}
  PROVE  NoneScheduled
  BY ConstantsAssumption
     DEF NoneScheduled, MoveRunsToTerminalState, CancelNonTerminal, IsTerminal, TerminalStates

LEMMA DidFailQuiet ==
  ASSUME NEW F, NEW R \in Rows, NEW e, PipelineRunDidFail(F, R, e)
  PROVE  NoneScheduled
  BY TerminalRowsQuiet DEF PipelineRunDidFail, SaveRuns

\* Neither a retry nor a failure of f schedules a job, whatever of run was
\* changed before, as long as that did not.
LEMMA HandleQuiet ==
  ASSUME NEW F, NEW R \in Rows, NEW f \in Ids,
         \A g \in Standalone : R[g] = "SCHEDULED" => run[g] = "SCHEDULED",
         \/ SaveRuns([R EXCEPT ![f] = "RETRYING"])
         \/ PipelineRunDidFail(FailFutureAndParents(F, f), FailRunAndParents(F, R, f),
                               "PipelineRunError")
  PROVE  NoneScheduled
  <1>1. CASE SaveRuns([R EXCEPT ![f] = "RETRYING"])
    BY <1>1, ConstantsAssumption DEF SaveRuns, NoneScheduled, Rows
  <1>2. CASE PipelineRunDidFail(FailFutureAndParents(F, f), FailRunAndParents(F, R, f),
                                "PipelineRunError")
    BY <1>2, FailRunAndParentsType, DidFailQuiet
  <1> QED
    BY <1>1, <1>2

\* Only ScheduleFuture starts a job.
LEMMA QuietStep ==
  TypeOK /\ CurrentKnown /\ [Next]_vars =>
    \/ NoneScheduled
    \/ \E f \in Standalone : CanSchedule(f) /\ run' = [run EXCEPT ![f] = "SCHEDULED"]
  <1> SUFFICES ASSUME TypeOK, CurrentKnown, [Next]_vars,
                      \A f \in Standalone :
                        ~ (CanSchedule(f) /\ run' = [run EXCEPT ![f] = "SCHEDULED"])
               PROVE  NoneScheduled
    OBVIOUS
  <1>1. run \in Rows
    BY DEF TypeOK, Rows
  <1>2. run' = run => NoneScheduled
    BY DEF NoneScheduled
  <1>3. \A F, e : PipelineRunDidFail(F, run, e) => NoneScheduled
    BY <1>1, DidFailQuiet
  <1>4. \A R : SaveRuns(R) => run' = R
    BY DEF SaveRuns
  <1>5. \A f \in Ids : \A retriable :
          \/ HandleFutureFailure(fut, run, f, retriable, Advance(TRUE))
          \/ HandleFutureFailure(fut, run, f, retriable, BackToLoop)
          \/ HandleFutureFailure(fut, run, f, retriable, FALSE)
          \/ HandleFutureFailure(fut, run, f, retriable,
               work' = work \ {f} /\ UNCHANGED <<pc, cursor, changed, current, armed, error>>)
          => NoneScheduled
    BY <1>1, HandleQuiet DEF HandleFutureFailure
  <1>6. \A f \in Ids : \A s : s # "SCHEDULED" /\ run' = [run EXCEPT ![f] = s] => NoneScheduled
    BY <1>1, ConstantsAssumption DEF NoneScheduled, Rows
  <1>7. work \subseteq Ids /\ (armed # NoFuture => armed \in Ids)
    BY DEF TypeOK
  <1>8. \A f \in Ids : SetNestedFuture(f) => NoneScheduled
    BY <1>2 DEF SetNestedFuture, server
  <1>9. run' = CancelNonTerminal(run) => NoneScheduled
    BY <1>1, TerminalRowsQuiet
  <1>10. CASE Start \/ LoopHead \/ EndPass
    BY <1>2, <1>3, <1>4, <1>9, <1>10 DEF Start, LoopHead, EndPass, server
  <1>11. ASSUME NEW f \in Ids, Visit(f) PROVE NoneScheduled
    <2>1. CASE VisitIdle(f) \/ ExecuteWithoutRun(f) \/ RunNestedFuture(f) \/ CacheHit(f)
      BY <1>2, <1>3, <1>4, <1>6, <2>1
         DEF VisitIdle, ExecuteWithoutRun, RunNestedFuture, CacheHit, server
    <2>2. CASE RunInline(f)
      <3> DEFINE F == SetState(fut, f, "SCHEDULED")
                 R == [run EXCEPT ![f] = "SCHEDULED"]
      <3>1. /\ R \in Rows
            /\ \A g \in Standalone : R[g] = "SCHEDULED" => run[g] = "SCHEDULED"
        BY <1>1, <2>2, ConstantsAssumption DEF RunInline, FutureState, Rows
      <3>2. \A r \in {f} \cup Ancestors(F, f) : r \in Ids
        BY DEF Ancestors
      <3> HIDE DEF F, R
      <3>3. CASE SaveRuns(R)
        BY <1>4, <3>1, <3>3 DEF NoneScheduled
      <3>4. ASSUME NEW r \in Ids, PipelineRunDidFail(FailFutureAndParents(F, r),
                                       FailRunAndParents(F, R, r), "PipelineRunError")
            PROVE  NoneScheduled
        BY <3>1, <3>4, HandleQuiet
      <3>5. ASSUME NEW r \in Ids, NEW again,
                   HandleFutureFailure(MarkForRetry(F, r), [R EXCEPT ![r] = "RETRYING"],
                                       f, again, Advance(TRUE))
            PROVE  NoneScheduled
        <4>1. /\ [R EXCEPT ![r] = "RETRYING"] \in Rows
              /\ \A g \in Standalone :
                   [R EXCEPT ![r] = "RETRYING"][g] = "SCHEDULED" => run[g] = "SCHEDULED"
          BY <3>1, ConstantsAssumption DEF Rows, FutureState
        <4> QED
          BY <3>5, <4>1, HandleQuiet DEF HandleFutureFailure
      <3>6. CASE PipelineRunDidFail(F, R, "NotImplementedError")
        BY <3>1, <3>6, DidFailQuiet
      <3>7. ASSUME NEW retriable, HandleFutureFailure(F, R, f, retriable, Advance(TRUE))
            PROVE  NoneScheduled
        BY <3>1, <3>7, HandleQuiet DEF HandleFutureFailure
      <3> QED
        BY <2>2, <3>2, <3>3, <3>4, <3>5, <3>6, <3>7 DEF RunInline, F, R
    <2>3. CASE ScheduleFuture(f)
      BY <1>2, <1>3, <2>3 DEF ScheduleFuture, server
    <2> QED
      BY <1>11, <2>1, <2>2, <2>3 DEF Visit
  <1>12. CASE Execute
    <2>1. current \in Ids
      BY <1>12 DEF CurrentKnown, Execute, FunctionReturnsValue, FunctionReturnsFuture,
                   FunctionRaises, FunctionTimesOut
    <2>2. CASE FunctionReturnsValue \/ FunctionReturnsFuture \/ FunctionRaises
      BY <1>4, <1>5, <1>6, <1>8, <2>1, <2>2
         DEF FunctionReturnsValue, FunctionReturnsFuture, FunctionRaises
    <2>3. CASE FunctionTimesOut
      <3>1. ASSUME NEW again, HandleFutureFailure(MarkForRetry(fut, current),
                     [run EXCEPT ![current] = "RETRYING"], current, again, Advance(TRUE))
            PROVE  NoneScheduled
        <4>1. /\ [run EXCEPT ![current] = "RETRYING"] \in Rows
              /\ \A g \in Standalone :
                   [run EXCEPT ![current] = "RETRYING"][g] = "SCHEDULED" => run[g] = "SCHEDULED"
          BY <1>1, <2>1, ConstantsAssumption DEF Rows, FutureState
        <4> QED
          BY <2>1, <3>1, <4>1, HandleQuiet DEF HandleFutureFailure
      <3> QED
        BY <1>5, <2>1, <2>3, <3>1 DEF FunctionTimesOut
    <2> QED
      BY <1>12, <2>2, <2>3 DEF Execute
  <1>13. CASE FutureDidRun
    BY <1>4, <1>13, ConstantsAssumption DEF FutureDidRun, NestedRuns, NoneScheduled
  <1>14. CASE Wait
    <2>1. CASE ProcessRunOutput
      BY <1>2, <1>5, <1>7, <1>8, <2>1 DEF ProcessRunOutput, server
    <2>2. CASE WaitTimesOut \/ NothingToWaitFor \/ PollRuns \/ EndProcessing \/ AlarmInterrupts
      BY <1>2, <1>5, <1>7, <2>2
         DEF WaitTimesOut, NothingToWaitFor, PollRuns, EndProcessing, AlarmInterrupts, server
    <2> QED
      BY <1>14, <2>1, <2>2 DEF Wait
  <1>15. CASE CancelSignal \/ ServerCancels
    BY <1>4, <1>9, <1>15 DEF CancelSignal, ServerCancels
  <1>16. CASE CancelSignalFails
    <2>1. /\ CancelNonTerminal(run) \in Rows
          /\ \A g \in Standalone : CancelNonTerminal(run)[g] = "SCHEDULED" => run[g] = "SCHEDULED"
      BY <1>1, TerminalRowsType, ConstantsAssumption
         DEF CancelNonTerminal, IsTerminal, TerminalStates
    <2>2. CASE PipelineRunDidFail(CanceledFutures, CancelNonTerminal(run), "ResourceNotFoundError")
      BY <2>1, <2>2, DidFailQuiet
    <2>3. CASE /\ pc \in {"executing", "nesting"}
               /\ \E retriable \in BOOLEAN :
                    HandleFutureFailure(CanceledFutures, CancelNonTerminal(run), current,
                                        retriable, Advance(TRUE))
      BY <2>1, <2>3, HandleQuiet DEF HandleFutureFailure, CurrentKnown
    <2> QED
      BY <1>16, <2>2, <2>3 DEF CancelSignalFails
  <1>17. CASE Evict \/ Restart
    BY <1>2, <1>17, ConstantsAssumption DEF Evict, Restart, memory, server, NoneScheduled
  <1>18. ASSUME NEW f \in Ids, WorkerEnds(f) \/ PodKilled(f) \/ TimePasses(f)
         PROVE  NoneScheduled
    BY <1>2, <1>6, <1>18 DEF WorkerEnds, PodKilled, TimePasses, server
  <1>19. CASE UNCHANGED vars
    BY <1>2, <1>19 DEF vars, server
  <1> QED
    BY <1>10, <1>11, <1>12, <1>13, <1>14, <1>15, <1>16, <1>17, <1>18, <1>19
       DEF Next, Runner, Finished

LEMMA BoundStep ==
  TypeOK /\ CurrentKnown /\ ScheduledRowsKnown /\ ParallelismBound /\ [Next]_vars
    => ParallelismBound'
  <1> DEFINE Out == {g \in Standalone : run[g] = "SCHEDULED"}
             OutNext == {g \in Standalone : run'[g] = "SCHEDULED"}
             Known == {g \in Ids : fut[g].state = "SCHEDULED"}
  <1> SUFFICES ASSUME TypeOK, CurrentKnown, ScheduledRowsKnown, ParallelismBound, [Next]_vars,
                      MaxParallelism # 0
               PROVE  Cardinality(OutNext) <= MaxParallelism
    BY DEF ParallelismBound
  <1>1. Out \subseteq Known /\ Out \subseteq Ids /\ OutNext \subseteq Ids /\ Known \subseteq Ids
    BY ConstantsAssumption DEF ScheduledRowsKnown, RowKnown
  <1>2. IsFiniteSet(Out) /\ IsFiniteSet(Known) /\ Cardinality(Out) <= MaxParallelism
    BY <1>1, NumberOfFutures DEF ParallelismBound
  <1>3. MaxParallelism \in Nat /\ Cardinality(Out) \in Nat /\ Cardinality(Known) \in Nat
        /\ Cardinality(OutNext) \in Nat
    BY <1>1, NumberOfFutures, ConstantsAssumption
  <1>4. CASE NoneScheduled
    <2>1. OutNext \subseteq Out
      BY <1>4 DEF NoneScheduled
    <2>2. Cardinality(OutNext) <= Cardinality(Out)
      BY <1>2, <2>1, FS_Subset
    <2> QED
      BY <1>2, <1>3, <2>2
  <1>5. ASSUME NEW f \in Standalone, CanSchedule(f), run' = [run EXCEPT ![f] = "SCHEDULED"]
        PROVE  Cardinality(OutNext) <= MaxParallelism
    <2>1. Cardinality(Known) < MaxParallelism
      BY <1>5 DEF CanSchedule
    <2>2. OutNext \subseteq Known \cup {f}
      BY <1>1, <1>5, ConstantsAssumption DEF TypeOK
    <2>3. IsFiniteSet(Known \cup {f}) /\ Cardinality(Known \cup {f}) \in Nat
          /\ Cardinality(Known \cup {f}) <= Cardinality(Known) + 1
      <3> HIDE DEF Known
      <3>1. IsFiniteSet(Known \cup {f})
        BY <1>2, FS_AddElement
      <3>2. Cardinality(Known \cup {f}) \in Nat
        BY <3>1, FS_CardinalityType
      <3>3. CASE f \in Known
        <4>1. Known \cup {f} = Known
          BY <3>3
        <4> QED
          BY <1>3, <3>1, <4>1
      <3>4. CASE f \notin Known
        <4>1. Cardinality(Known \cup {f}) = Cardinality(Known) + 1
          BY <1>2, <3>4, FS_AddElement
        <4> QED
          BY <1>3, <3>1, <3>2, <4>1
      <3> QED
        BY <3>3, <3>4
    <2>4. Cardinality(OutNext) <= Cardinality(Known \cup {f})
      BY <2>2, <2>3, FS_Subset
    <2> QED
      BY <1>3, <2>1, <2>3, <2>4
  <1> QED
    BY <1>4, <1>5, QuietStep

\* max_parallelism holds on the server, for every number of futures and every
\* interleaving of the runner with workers, cancellation and restarts.
THEOREM ParallelismBounded == Spec => []ParallelismBound
  <1> DEFINE Inv == TypeOK /\ CurrentKnown /\ ScheduledRowsKnown /\ ParallelismBound
  <1>1. Init => Inv
    <2> SUFFICES ASSUME Init PROVE Inv
      OBVIOUS
    <2>1. TypeOK /\ CurrentKnown
      BY InitType DEF Init, CurrentKnown
    <2>2. {g \in Standalone : run[g] = "SCHEDULED"} = {}
      <3>1. \A g \in Ids : run[g] # "SCHEDULED"
        BY DEF Init
      <3> QED
        BY <3>1, ConstantsAssumption
    <2>3. ScheduledRowsKnown
      BY <2>2 DEF ScheduledRowsKnown, RowKnown
    <2>4. ParallelismBound
      BY <2>2, FS_EmptySet, ConstantsAssumption DEF ParallelismBound
    <2> QED
      BY <2>1, <2>3, <2>4
  <1>2. Inv /\ [Next]_vars => Inv'
    BY TypeStep, CurrentStep, KnownStep, BoundStep
  <1> QED
    BY <1>1, <1>2, PTL DEF Spec
-----------------------------------------------------------------------------
(* The wait. *)

\* The strengthening: a pass that has changed nothing so far leaves behind it
\* only futures that have nothing to do.
PassedIdle ==
  pc = "pass" /\ ~ changed => \A i \in DOMAIN futures : i < cursor => ~ Ready(futures[i])

\* Only the state, the arguments and the nested future decide about Ready.
SameFutures ==
  \A g \in Ids : /\ fut'[g].state = fut[g].state
                 /\ fut'[g].kwargs = fut[g].kwargs
                 /\ fut'[g].nested = fut[g].nested

LEMMA ReadyKept ==
  ASSUME TypeOK, SameFutures
  PROVE  \A f \in Ids : Ready(f)' <=> Ready(f)
  <1> SUFFICES ASSUME NEW f \in Ids PROVE Ready(f)' <=> Ready(f)
    OBVIOUS
  <1>1. fut[f].kwargs \subseteq Ids /\ (fut[f].nested # NoFuture => fut[f].nested \in Ids)
    BY DEF TypeOK, FutureObject
  <1>2. Executable(f)' <=> Executable(f)
    BY <1>1 DEF SameFutures, Executable, ConcreteKwargs
  <1>3. {g \in Ids : fut'[g].state = "SCHEDULED"} = {g \in Ids : fut[g].state = "SCHEDULED"}
    BY DEF SameFutures
  <1>4. CanSchedule(f)' <=> CanSchedule(f)
    BY <1>3 DEF CanSchedule
  <1>5. /\ fut'[f].state = fut[f].state
        /\ fut'[f].nested = fut[f].nested
        /\ fut[f].nested # NoFuture => fut'[fut[f].nested].state = fut[fut[f].nested].state
    BY <1>1 DEF SameFutures
  <1> QED
    BY <1>2, <1>4, <1>5 DEF Ready

\* A future that a pass leaves as it is has nothing to do.
LEMMA IdleNotReady == \A f : VisitIdle(f) => ~ Ready(f)
  BY DEF VisitIdle, Ready, Executable, IsTerminal, TerminalStates

\* A step away from the pass and the wait, one that changes a state, one that
\* starts a pass, an idle visit, the end of a pass, or a step of the world.
LEMMA PassStep ==
  TypeOK /\ [Next]_vars =>
    \/ pc' \notin {"pass", "waiting"}
    \/ pc' = "pass" /\ (changed' \/ cursor' = 1)
    \/ \E f \in Ids : VisitIdle(f)
    \/ EndPass
    \/ UNCHANGED <<pc, changed, cursor, futures>> /\ SameFutures
  <1> DEFINE Away == pc' \notin {"pass", "waiting"} \/ (pc' = "pass" /\ changed')
             Quiet == UNCHANGED <<pc, changed, cursor, futures>> /\ SameFutures
  <1> SUFFICES ASSUME TypeOK, [Next]_vars, ~ EndPass, \A f \in Ids : ~ VisitIdle(f)
               PROVE  Away \/ (pc' = "pass" /\ cursor' = 1) \/ Quiet
    OBVIOUS
  <1>1. \A F, R, e : PipelineRunDidFail(F, R, e) => Away
    BY DEF PipelineRunDidFail, Ends
  <1>2. Advance(TRUE) \/ BackToLoop \/ (\E how \in Ended : Ends(how)) => Away
    BY DEF Advance, BackToLoop, Ends, Ended
  <1>3. \A F, R, f, retriable :
          \/ HandleFutureFailure(F, R, f, retriable, Advance(TRUE))
          \/ HandleFutureFailure(F, R, f, retriable, BackToLoop)
          \/ HandleFutureFailure(F, R, f, retriable, FALSE)
          => Away
    <2> SUFFICES ASSUME NEW F, NEW R, NEW f, NEW retriable,
                        \/ HandleFutureFailure(F, R, f, retriable, Advance(TRUE))
                        \/ HandleFutureFailure(F, R, f, retriable, BackToLoop)
                        \/ HandleFutureFailure(F, R, f, retriable, FALSE)
                 PROVE  Away
      OBVIOUS
    <2> HIDE DEF Away
    <2>1. \/ PipelineRunDidFail(FailFutureAndParents(F, f), FailRunAndParents(F, R, f),
                                "PipelineRunError")
          \/ Advance(TRUE) \/ BackToLoop
      BY DEF HandleFutureFailure
    <2> QED
      BY <1>1, <1>2, <2>1
  <1>4. UNCHANGED <<memory, control>> => Quiet
    BY DEF memory, control, SameFutures
  <1>5. \A f : SetNestedFuture(f) => Away
    BY DEF SetNestedFuture
  <1>6. CASE Start \/ LoopHead
    BY <1>1, <1>2, <1>6 DEF Start, LoopHead, Ended
  <1>7. ASSUME NEW f \in Ids, Visit(f) PROVE Away
    BY <1>1, <1>2, <1>3, <1>7
       DEF Visit, RunNestedFuture, ExecuteWithoutRun, CacheHit, RunInline, ScheduleFuture
  <1>8. CASE Execute \/ FutureDidRun
    BY <1>2, <1>3, <1>5, <1>8
       DEF Execute, FunctionReturnsValue, FunctionReturnsFuture, FunctionRaises,
           FunctionTimesOut, FutureDidRun
  <1>9. CASE Wait
    <2>1. CASE ProcessRunOutput
      <3>1. ASSUME NEW f, NEW retriable,
                   HandleFutureFailure(fut, run, f, retriable,
                     /\ work' = work \ {f}
                     /\ UNCHANGED <<pc, cursor, changed, current, armed, error>>)
            PROVE  Away
        BY <1>1, <2>1, <3>1 DEF HandleFutureFailure, ProcessRunOutput
      <3> QED
        BY <1>5, <2>1, <3>1 DEF ProcessRunOutput
    <2> QED
      BY <1>2, <1>3, <1>9, <2>1
         DEF Wait, WaitTimesOut, NothingToWaitFor, PollRuns, EndProcessing, AlarmInterrupts
  <1>10. CASE CancelSignal \/ CancelSignalFails
    BY <1>1, <1>2, <1>3, <1>10 DEF CancelSignal, CancelSignalFails, Ended
  <1>11. CASE Evict \/ Restart
    BY <1>11 DEF Evict, Restart
  <1>12. CASE ServerCancels
    BY <1>4, <1>12 DEF ServerCancels
  <1>13. ASSUME NEW f \in Ids, WorkerEnds(f) \/ PodKilled(f) PROVE Quiet
    BY <1>4, <1>13 DEF WorkerEnds, PodKilled
  <1>14. ASSUME NEW f \in Ids, TimePasses(f) PROVE Quiet
    <2>1. UNCHANGED <<pc, changed, cursor, futures>>
      BY <1>14 DEF TimePasses, control
    <2>2. SameFutures
      BY <1>14 DEF TypeOK, FutureObject, TimePasses, SameFutures
    <2> QED
      BY <2>1, <2>2
  <1>15. CASE UNCHANGED vars
    BY <1>4, <1>15 DEF vars
  <1> QED
    BY <1>6, <1>7, <1>8, <1>9, <1>10, <1>11, <1>12, <1>13, <1>14, <1>15
       DEF Next, Runner, Finished

LEMMA IdleStep ==
  TypeOK /\ TypeOK' /\ PassedIdle /\ WaitsOnlyWhenStuck /\ [Next]_vars
    => (PassedIdle /\ WaitsOnlyWhenStuck)'
  <1> SUFFICES ASSUME TypeOK, TypeOK', PassedIdle, WaitsOnlyWhenStuck, [Next]_vars
               PROVE  (PassedIdle /\ WaitsOnlyWhenStuck)'
    OBVIOUS
  <1>1. \A i \in DOMAIN futures : i \in Nat /\ futures[i] \in Ids /\ i <= Len(futures)
    <2>1. futures \in Seq(Ids)
      BY DEF TypeOK
    <2>2. /\ Len(futures) \in Nat /\ DOMAIN futures = 1..Len(futures)
          /\ futures \in [1..Len(futures) -> Ids]
      BY <2>1, LenProperties
    <2> QED
      BY <2>2
  <1>2. CASE pc' \notin {"pass", "waiting"}
    BY <1>2 DEF PassedIdle, WaitsOnlyWhenStuck
  <1>3. CASE pc' = "pass" /\ changed'
    BY <1>3 DEF PassedIdle, WaitsOnlyWhenStuck
  <1>4. CASE pc' = "pass" /\ cursor' = 1
    <2>1. \A i \in DOMAIN futures' : i \in Nat /\ i >= 1
      <3>1. futures' \in Seq(Ids)
        BY DEF TypeOK
      <3> QED
        BY <3>1, SeqDef
    <2> QED
      BY <1>4, <2>1 DEF PassedIdle, WaitsOnlyWhenStuck
  <1>5. ASSUME NEW f \in Ids, VisitIdle(f) PROVE (PassedIdle /\ WaitsOnlyWhenStuck)'
    <2>1. /\ pc = "pass" /\ pc' = "pass" /\ futures' = futures /\ f = futures[cursor]
          /\ cursor' = cursor + 1 /\ (changed' <=> changed) /\ fut' = fut
      BY <1>5 DEF VisitIdle, AtFuture, Advance, memory
    <2>2. ~ Ready(f) /\ \A g \in Ids : Ready(g)' <=> Ready(g)
      BY <1>5, <2>1, IdleNotReady, ReadyKept DEF SameFutures
    <2>3. \A i \in DOMAIN futures : ~ changed /\ i < cursor + 1 => ~ Ready(futures[i])
      BY <1>1, <2>1, <2>2 DEF PassedIdle, TypeOK
    <2> QED
      BY <1>1, <2>1, <2>2, <2>3 DEF PassedIdle, WaitsOnlyWhenStuck
  <1>6. CASE EndPass
    <2>1. /\ pc = "pass" /\ cursor > Len(futures) /\ futures' = futures /\ fut' = fut
          /\ pc' = IF changed THEN "loop" ELSE "waiting"
      BY <1>6 DEF EndPass, memory
    <2>2. \A g \in Ids : Ready(g)' <=> Ready(g)
      BY <2>1, ReadyKept DEF SameFutures
    <2>3. Len(futures) \in Nat /\ cursor \in Nat
      BY LenProperties DEF TypeOK
    <2>4. ~ changed => \A i \in DOMAIN futures : ~ Ready(futures[i])
      BY <1>1, <2>1, <2>3 DEF PassedIdle
    <2> QED
      BY <1>1, <2>1, <2>2, <2>4 DEF PassedIdle, WaitsOnlyWhenStuck
  <1>7. CASE UNCHANGED <<pc, changed, cursor, futures>> /\ SameFutures
    <2>1. \A g \in Ids : Ready(g)' <=> Ready(g)
      BY <1>7, ReadyKept
    <2> QED
      BY <1>1, <1>7, <2>1 DEF PassedIdle, WaitsOnlyWhenStuck
  <1> QED
    BY <1>2, <1>3, <1>4, <1>5, <1>6, <1>7, PassStep

\* Nothing that could run is left lying during a wait, for every shape of the
\* graph of futures and every interleaving.
THEOREM WaitsOnlyWhenStuckAlways == Spec => []WaitsOnlyWhenStuck
  <1> DEFINE Inv == TypeOK /\ CurrentKnown /\ PassedIdle /\ WaitsOnlyWhenStuck
  <1>1. Init => Inv
    BY InitType DEF Init, CurrentKnown, PassedIdle, WaitsOnlyWhenStuck
  <1>2. Inv /\ [Next]_vars => Inv'
    BY TypeStep, CurrentStep, IdleStep
  <1> QED
    BY <1>1, <1>2, PTL DEF Spec
-----------------------------------------------------------------------------
(* Inline functions. *)

InlineScheduled(F) == {g \in Ids \ Standalone : F[g].state = "SCHEDULED"}

\* The strengthening: no inline future is SCHEDULED before run() starts, or
\* when the alarm can interrupt a nesting that came out of the wait.
InlineInv ==
  /\ InlineOnlyWhileExecuting
  /\ pc = "starting" \/ status = "SCHEDULED" => InlineOut = {}
  /\ pc \in Active => status # "SCHEDULED"
  /\ pc \notin {"nesting", "processing", "down"} => work = {}
  /\ pc = "nesting" /\ work # {} => InlineOut = {}

\* A state other than SCHEDULED takes a future out of that set.
LEMMA SetStateInline ==
  ASSUME NEW F \in Futures, NEW f \in Ids, NEW s \in FutureState, s # "SCHEDULED"
  PROVE  InlineScheduled(SetState(F, f, s)) = InlineScheduled(F) \ {f}
  BY SetStateOthers DEF InlineScheduled

LEMMA RetryInline ==
  ASSUME NEW F \in Futures, NEW f \in Ids
  PROVE  InlineScheduled(MarkForRetry(F, f)) = InlineScheduled(F) \ {f}
  <1>1. SetState(F, f, "RETRYING") \in Futures
    BY SetStateType DEF FutureState
  <1>2. \A g \in Ids : MarkForRetry(F, f)[g].state = SetState(F, f, "RETRYING")[g].state
    BY <1>1 DEF MarkForRetry, Futures, FutureObject
  <1> QED
    BY <1>2, SetStateInline DEF InlineScheduled, FutureState

\* How run() ends, as far as InlineInv can tell.
Stopped == pc' \in Ended /\ work' = {} /\ status' # "SCHEDULED"

LEMMA StoppedInline == Stopped => InlineInv'
  BY DEF Stopped, InlineInv, InlineOnlyWhileExecuting, Ended, Active

LEMMA DidFailStopped ==
  ASSUME TypeOK, NEW F, NEW R, NEW e, PipelineRunDidFail(F, R, e)
  PROVE  Stopped
  BY DEF TypeOK, PipelineRunDidFail, Ends, Ended, Stopped, UpdateStatus, StatusTransitions

\* A step to a place without an inline function, with none left SCHEDULED.
LEMMA QuietInline ==
  ASSUME InlineInv, InlineOut' = {}, status' = status, pc \in Active,
         pc' \in {"nesting", "processing"} \/ work' = {}
  PROVE  InlineInv'
  BY DEF InlineInv, InlineOnlyWhileExecuting, Active

LEMMA InlineStep == TypeOK /\ CurrentKnown /\ InlineInv /\ [Next]_vars => InlineInv'
  <1> SUFFICES ASSUME TypeOK, CurrentKnown, InlineInv, [Next]_vars PROVE InlineInv'
    OBVIOUS
  <1>1. fut \in Futures /\ InlineOut = InlineScheduled(fut) /\ InlineOut' = InlineScheduled(fut')
    BY DEF TypeOK, Futures, InlineOut, InlineScheduled
  <1>2. \A F, R, e : PipelineRunDidFail(F, R, e) => InlineInv'
    BY DidFailStopped, StoppedInline
  <1>3. pc \in Active /\ pc \notin {"executing", "nesting"} => InlineOut = {}
    BY DEF InlineInv, InlineOnlyWhileExecuting
  <1>4. pc = "executing" \/ (pc = "nesting" /\ work = {}) => InlineOut \subseteq {current}
    BY DEF InlineInv, InlineOnlyWhileExecuting, Active
  <1>5. pc \in Active \ {"nesting", "processing"} => work = {}
    BY DEF InlineInv, Active
  <1>6. Advance(TRUE) => pc' = "pass" /\ work' = work
    BY DEF Advance
  <1>7. BackToLoop => pc' = "loop" /\ work' = {}
    BY DEF BackToLoop
  <1>8. UNCHANGED <<fut, pc, status, work, current>> => InlineInv'
    BY DEF InlineInv, InlineOnlyWhileExecuting, InlineOut
  \* a failure of the only inline future that may be out
  <1>9. ASSUME NEW F \in Futures, NEW R, NEW f \in Ids, NEW retriable,
               InlineScheduled(F) \subseteq {f}, pc \in Active,
               \/ work = {} /\ HandleFutureFailure(F, R, f, retriable, Advance(TRUE))
               \/ HandleFutureFailure(F, R, f, retriable, BackToLoop)
               \/ HandleFutureFailure(F, R, f, retriable, FALSE)
        PROVE  InlineInv'
    <2>1. \/ /\ fut' = MarkForRetry(F, f) /\ status' = status
             /\ BackToLoop \/ (Advance(TRUE) /\ work = {})
          \/ PipelineRunDidFail(FailFutureAndParents(F, f), FailRunAndParents(F, R, f),
                                "PipelineRunError")
      BY <1>9 DEF HandleFutureFailure
    <2>2. fut' = MarkForRetry(F, f) => InlineOut' = {}
      BY <1>1, <1>9, RetryInline
    <2> QED
      BY <1>2, <1>6, <1>7, <1>9, <2>1, <2>2, QuietInline
  <1>10. ASSUME NEW f \in Ids, SetNestedFuture(f),
                (pc = "executing" /\ f = current) \/ pc = "processing"
         PROVE  InlineInv'
    <2>1. PICK top \in Unmade :
            \E kw \in [Made(top) -> SUBSET Made(top)],
               order \in [1..Cardinality(Made(top)) -> Made(top)] : Enqueue(f, top, kw, order)
      BY <1>10, Zenon DEF SetNestedFuture
    <2>2. PICK kw \in [Made(top) -> SUBSET Made(top)] :
            fut' = [g \in Ids |->
                      IF g \in Made(top) THEN [NewFuture EXCEPT !.kwargs = kw[g], !.parent = f]
                      ELSE IF g = f THEN [fut[f] EXCEPT !.nested = top] ELSE fut[g]]
      BY <2>1, Zenon DEF Enqueue
    <2>3. \A g \in Ids : fut'[g].state = "SCHEDULED" => fut[g].state = "SCHEDULED"
      <3> SUFFICES ASSUME NEW g \in Ids, fut'[g].state = "SCHEDULED"
                   PROVE  fut[g].state = "SCHEDULED"
        OBVIOUS
      <3>1. fut[g] \in FutureObject /\ fut[f] \in FutureObject
        BY <1>1 DEF Futures
      <3>2. CASE g \in Made(top)
        <4>1. fut'[g] = [NewFuture EXCEPT !.kwargs = kw[g], !.parent = f]
          BY <2>2, <3>2
        <4> QED
          BY <4>1 DEF NewFuture
      <3>3. CASE g \notin Made(top) /\ g = f
        <4>1. fut'[g] = [fut[f] EXCEPT !.nested = top]
          BY <2>2, <3>3
        <4> QED
          BY <3>1, <3>3, <4>1 DEF FutureObject
      <3>4. CASE g \notin Made(top) /\ g # f
        BY <2>2, <3>4
      <3> QED
        BY <3>2, <3>3, <3>4
    <2>4. InlineOut' \subseteq InlineOut
      BY <1>1, <2>3 DEF InlineScheduled
    <2>5. pc' = "nesting" /\ current' = f /\ status' = status /\ work' = work
      BY <1>10 DEF SetNestedFuture, server
    <2>6. CASE pc = "executing" /\ f = current
      BY <1>4, <1>5, <2>4, <2>5, <2>6 DEF InlineInv, InlineOnlyWhileExecuting, Active
    <2>7. CASE pc = "processing"
      BY <1>3, <2>4, <2>5, <2>7, QuietInline DEF Active
    <2> QED
      BY <1>10, <2>6, <2>7
  <1>11. \A f \in Ids : fut' = [SetState(fut, f, "RESOLVED") EXCEPT ![f].value = TRUE]
                        => InlineOut' = InlineOut \ {f}
    <2> SUFFICES ASSUME NEW f \in Ids,
                        fut' = [SetState(fut, f, "RESOLVED") EXCEPT ![f].value = TRUE]
                 PROVE  InlineOut' = InlineOut \ {f}
      OBVIOUS
    <2>1. SetState(fut, f, "RESOLVED") \in Futures
      BY <1>1, SetStateType DEF FutureState
    <2>2. \A g \in Ids : fut'[g].state = SetState(fut, f, "RESOLVED")[g].state
      BY <2>1 DEF Futures, FutureObject
    <2> QED
      BY <1>1, <2>2, SetStateInline DEF InlineScheduled, FutureState
  <1>12. CASE Start
    BY <1>2, <1>12 DEF Start, InlineInv, InlineOnlyWhileExecuting, InlineOut, Active, memory
  <1>13. CASE LoopHead
    <2>1. CASE pc = "loop" /\ pc' = "pass" /\ UNCHANGED <<memory, server, work>>
      BY <1>1, <1>3, <1>5, <2>1, QuietInline DEF memory, server, Active
    <2>2. CASE pc = "loop" /\ (\E how \in Ended : Ends(how)) /\ status' \in {"COMPLETE", status}
      BY <2>2, StoppedInline DEF Ends, Stopped, InlineInv, Active
    <2> QED
      BY <1>2, <1>13, <2>1, <2>2 DEF LoopHead, Ended, server
  <1>14. ASSUME NEW f \in Ids, Visit(f) PROVE InlineInv'
    <2>0. pc = "pass" /\ InlineOut = {} /\ work = {}
      BY <1>3, <1>5, <1>14
         DEF Visit, VisitIdle, RunNestedFuture, ExecuteWithoutRun, CacheHit, RunInline,
             ScheduleFuture, AtFuture, Active
    <2>1. InlineOut' = {} /\ Advance(TRUE) /\ status' = status => InlineInv'
      BY <1>6, <2>0, QuietInline DEF Active
    <2>2. CASE VisitIdle(f)
      BY <1>1, <2>0, <2>2, QuietInline DEF VisitIdle, Advance, memory, server, Active
    <2>3. CASE RunNestedFuture(f)
      <3>1. CASE fut' = Bubble(f) /\ Advance(TRUE) /\ status' = status
        <4>1. SetState(fut, f, "RESOLVED") \in Futures
          BY <1>1, SetStateType DEF FutureState
        <4>2. \A g \in Ids : fut'[g].state = SetState(fut, f, "RESOLVED")[g].state
          BY <3>1, <4>1 DEF Bubble, Futures, FutureObject
        <4>3. InlineOut' = InlineOut \ {f}
          BY <1>1, <4>2, SetStateInline DEF InlineScheduled, FutureState
        <4> QED
          BY <2>0, <2>1, <3>1, <4>3
      <3> QED
        BY <1>2, <2>3, <3>1 DEF RunNestedFuture
    <2>4. CASE ExecuteWithoutRun(f)
      BY <1>2, <2>4 DEF ExecuteWithoutRun
    <2>5. CASE CacheHit(f)
      BY <1>11, <2>0, <2>1, <2>5 DEF CacheHit
    <2>6. CASE RunInline(f)
      <3> DEFINE F == SetState(fut, f, "SCHEDULED")
                 R == [run EXCEPT ![f] = "SCHEDULED"]
      <3>1. F \in Futures /\ InlineScheduled(F) \subseteq {f}
        <4>1. F \in Futures /\ \A g \in Ids \ {f} : F[g] = fut[g]
          BY <1>1, SetStateType, SetStateOthers DEF FutureState
        <4> HIDE DEF F
        <4> QED
          BY <1>1, <2>0, <4>1 DEF InlineScheduled
      <3>2. \A r \in {f} \cup Ancestors(F, f) : r \in Ids
        BY DEF Ancestors
      <3> HIDE DEF F, R
      <3>3. CASE fut' = F /\ pc' = "executing" /\ current' = f /\ UNCHANGED <<status, work>>
        <4>1. InlineOut' \subseteq {f}
          BY <1>1, <3>1, <3>3
        <4> QED
          BY <2>0, <3>3, <4>1 DEF InlineInv, InlineOnlyWhileExecuting, Active
      <3>4. ASSUME NEW r \in Ids, NEW again,
                   HandleFutureFailure(MarkForRetry(F, r), [R EXCEPT ![r] = "RETRYING"],
                                       f, again, Advance(TRUE))
            PROVE  InlineInv'
        <4>1. MarkForRetry(F, r) \in Futures /\ InlineScheduled(MarkForRetry(F, r)) \subseteq {f}
          BY <3>1, MarkForRetryType, RetryInline
        <4> QED
          BY <1>9, <2>0, <3>4, <4>1 DEF Active
      <3>5. ASSUME NEW retriable, HandleFutureFailure(F, R, f, retriable, Advance(TRUE))
            PROVE  InlineInv'
        BY <1>9, <2>0, <3>1, <3>5 DEF Active
      <3> QED
        BY <1>2, <2>6, <3>2, <3>3, <3>4, <3>5 DEF RunInline, F, R
    <2>7. CASE ScheduleFuture(f)
      <3>1. \A s \in FutureState : fut' = SetState(fut, f, s) => InlineOut' = {}
        BY <1>1, <2>0, <2>7, SetStateOthers DEF ScheduleFuture, InlineScheduled
      <3>2. "SCHEDULED" \in FutureState /\ (run[f] # "NONE" => run[f] \in FutureState)
        BY DEF TypeOK, FutureState
      <3> QED
        BY <1>2, <2>1, <2>7, <3>1, <3>2 DEF ScheduleFuture, server
    <2> QED
      BY <1>14, <2>2, <2>3, <2>4, <2>5, <2>6, <2>7 DEF Visit
  <1>15. CASE EndPass
    BY <1>1, <1>3, <1>5, <1>15, QuietInline DEF EndPass, memory, server, Active
  <1>16. CASE Execute
    <2>0. pc = "executing" /\ current \in Ids /\ InlineOut \subseteq {current} /\ work = {}
      BY <1>4, <1>5, <1>16 DEF CurrentKnown, Execute, FunctionReturnsValue,
           FunctionReturnsFuture, FunctionRaises, FunctionTimesOut, Active
    <2>1. CASE FunctionReturnsValue
      BY <1>6, <1>11, <2>0, <2>1, QuietInline DEF FunctionReturnsValue, Active
    <2>2. CASE FunctionReturnsFuture
      BY <1>10, <2>0, <2>2 DEF FunctionReturnsFuture
    <2>3. CASE FunctionRaises
      BY <1>1, <1>9, <2>0, <2>3 DEF FunctionRaises, Active
    <2>4. CASE FunctionTimesOut
      <3>1. /\ MarkForRetry(fut, current) \in Futures
            /\ InlineScheduled(MarkForRetry(fut, current)) \subseteq {current}
        BY <1>1, <2>0, MarkForRetryType, RetryInline
      <3>2. ASSUME NEW again, HandleFutureFailure(MarkForRetry(fut, current),
                     [run EXCEPT ![current] = "RETRYING"], current, again, Advance(TRUE))
            PROVE  InlineInv'
        BY <1>9, <2>0, <3>1, <3>2 DEF Active
      <3>3. ASSUME NEW retriable, HandleFutureFailure(fut, run, current, retriable, FALSE)
            PROVE  InlineInv'
        BY <1>1, <1>9, <2>0, <3>3 DEF Active
      <3> QED
        BY <2>4, <3>2, <3>3 DEF FunctionTimesOut
    <2> QED
      BY <1>16, <2>1, <2>2, <2>3, <2>4 DEF Execute
  <1>17. CASE FutureDidRun
    <2>1. /\ pc = "nesting" /\ current \in Ids /\ fut' = SetState(fut, current, "RAN")
          /\ status' = status
          /\ pc' = "processing" \/ (pc' = "pass" /\ work' = {})
      BY <1>17 DEF FutureDidRun, CurrentKnown, Advance
    <2>2. InlineOut' = InlineOut \ {current}
      BY <1>1, <2>1, SetStateInline DEF FutureState
    <2>3. InlineOut' = {}
      BY <1>4, <2>1, <2>2 DEF InlineInv
    <2> QED
      BY <2>1, <2>3, QuietInline DEF Active
  <1>18. CASE Wait
    <2>0. work \subseteq Ids /\ (armed # NoFuture => armed \in Ids)
      BY DEF TypeOK
    <2>1. CASE ProcessRunOutput
      <3>1. pc = "processing" /\ InlineOut = {}
        BY <1>3, <2>1 DEF ProcessRunOutput, Active
      <3>2. PICK f \in work :
              \/ /\ fut' = [SetState(fut, f, "RESOLVED") EXCEPT ![f].value = TRUE]
                 /\ UNCHANGED <<pc, status>>
              \/ SetNestedFuture(f)
              \/ \E retriable \in BOOLEAN :
                   HandleFutureFailure(fut, run, f, retriable,
                     /\ work' = work \ {f}
                     /\ UNCHANGED <<pc, cursor, changed, current, armed, error>>)
        BY <2>1 DEF ProcessRunOutput, server
      <3>3. f \in Ids
        BY <2>0
      <3>4. CASE /\ fut' = [SetState(fut, f, "RESOLVED") EXCEPT ![f].value = TRUE]
                 /\ UNCHANGED <<pc, status>>
        BY <1>11, <3>1, <3>3, <3>4, QuietInline DEF Active
      <3>5. ASSUME NEW retriable,
                   HandleFutureFailure(fut, run, f, retriable,
                     /\ work' = work \ {f}
                     /\ UNCHANGED <<pc, cursor, changed, current, armed, error>>)
            PROVE  InlineInv'
        <4>1. \/ fut' = MarkForRetry(fut, f) /\ UNCHANGED <<pc, status>>
              \/ PipelineRunDidFail(FailFutureAndParents(fut, f), FailRunAndParents(fut, run, f),
                                    "PipelineRunError")
          BY <3>5 DEF HandleFutureFailure
        <4>2. fut' = MarkForRetry(fut, f) => InlineOut' = {}
          BY <1>1, <3>1, <3>3, RetryInline
        <4> QED
          BY <1>2, <3>1, <4>1, <4>2, QuietInline DEF Active
      <3> QED
        BY <1>10, <3>1, <3>2, <3>3, <3>4, <3>5
    <2>2. CASE WaitTimesOut
      <3>1. PICK f \in Ids, retriable \in BOOLEAN :
              HandleFutureFailure(fut, run, f, retriable, BackToLoop)
        BY <2>2 DEF WaitTimesOut
      <3>2. pc \in Active /\ InlineScheduled(fut) \subseteq {f}
        BY <1>1, <1>3, <2>2 DEF WaitTimesOut, Active
      <3> QED
        BY <1>1, <1>9, <3>1, <3>2
    <2>3. CASE NothingToWaitFor \/ PollRuns \/ EndProcessing
      BY <1>1, <1>3, <1>7, <2>3, QuietInline
         DEF NothingToWaitFor, PollRuns, EndProcessing, memory, server, Active
    <2>4. CASE AlarmInterrupts
      <3>1. pc \in Active /\ InlineOut = {}
        BY <1>3, <2>4 DEF AlarmInterrupts, InlineInv, Active
      <3>2. CASE BackToLoop /\ UNCHANGED <<memory, server>>
        BY <1>1, <1>7, <3>1, <3>2, QuietInline DEF memory, server
      <3>3. ASSUME NEW retriable, armed \in Ids,
                   HandleFutureFailure(fut, run, armed, retriable, BackToLoop)
            PROVE  InlineInv'
        BY <1>1, <1>9, <3>1, <3>3
      <3> QED
        BY <2>0, <2>4, <3>2, <3>3 DEF AlarmInterrupts
    <2> QED
      BY <1>18, <2>1, <2>2, <2>3, <2>4 DEF Wait
  <1>19. CASE CancelSignal
    <2>1. status # "SCHEDULED" /\ pc' \in Ended /\ work' = {}
      BY <1>19 DEF CancelSignal, Ends, Ended, InlineInv
    <2>2. status' # "SCHEDULED"
      BY <1>19, <2>1 DEF CancelSignal, UpdateStatus, StatusAfterCleanUp
    <2> QED
      BY <2>1, <2>2, StoppedInline DEF Stopped
  <1>20. CASE CancelSignalFails
    <2>1. CanceledFutures \in Futures
      BY <1>1, CanceledFuturesType
    <2>2. InlineScheduled(CanceledFutures) \subseteq InlineOut
      <3>1. \A g \in Ids : CanceledFutures[g].state = "SCHEDULED" => fut[g].state = "SCHEDULED"
        BY <1>1, SetStateOthers DEF CanceledFutures, FutureState
      <3> QED
        BY <1>1, <3>1 DEF InlineScheduled
    <2>3. ASSUME pc = "executing" \/ (pc = "nesting" /\ work = {}), NEW retriable,
                 HandleFutureFailure(CanceledFutures, CancelNonTerminal(run), current,
                                     retriable, Advance(TRUE))
          PROVE  InlineInv'
      <3>1. current \in Ids /\ pc \in Active /\ work = {}
        BY <1>5, <2>3 DEF CurrentKnown, Active
      <3>2. InlineScheduled(CanceledFutures) \subseteq {current}
        BY <1>4, <2>2, <2>3
      <3> QED
        BY <1>9, <2>1, <2>3, <3>1, <3>2
    <2> QED
      BY <1>2, <1>20, <2>3 DEF CancelSignalFails
  <1>21. CASE Evict
    BY <1>1, <1>21 DEF Evict, memory, server, InlineInv, InlineOnlyWhileExecuting, Active
  <1>22. CASE Restart
    <2>1. CASE status = "SCHEDULED" /\ pc' = "starting" /\ UNCHANGED memory
      BY <1>1, <1>22, <2>1 DEF Restart, memory, InlineInv, InlineOnlyWhileExecuting, Active
    <2>2. CASE status = "RUNNING" /\ pc' = "loop" /\ fut' = [f \in Ids |-> Rebuilt(f)]
      <3>1. \A g \in Ids \ Standalone : Rebuilt(g).state # "SCHEDULED"
        <4> SUFFICES ASSUME NEW g \in Ids \ Standalone PROVE Rebuilt(g).state # "SCHEDULED"
          OBVIOUS
        <4>1. fut[g] \in FutureObject
          BY DEF TypeOK
        <4> QED
          BY <4>1 DEF Rebuilt, NotMade, NewFuture, FutureObject
      <3>2. InlineOut' = {}
        BY <1>1, <2>2, <3>1 DEF InlineScheduled
      <3> QED
        BY <1>22, <2>2, <3>2 DEF Restart, InlineInv, InlineOnlyWhileExecuting, Active
    <2> QED
      BY <1>22, <2>1, <2>2 DEF Restart
  <1>23. ASSUME NEW f \in Ids, WorkerEnds(f) \/ PodKilled(f) PROVE InlineInv'
    BY <1>8, <1>23 DEF WorkerEnds, PodKilled, memory, control
  <1>24. ASSUME NEW f \in Ids, TimePasses(f) PROVE InlineInv'
    <2>1. \A g \in Ids : fut'[g].state = fut[g].state
      BY <1>1, <1>24 DEF TimePasses, Futures, FutureObject
    <2>2. InlineOut' = InlineOut /\ UNCHANGED <<pc, status, work, current>>
      BY <1>1, <1>24, <2>1 DEF TimePasses, InlineScheduled, server, control
    <2> QED
      BY <2>2 DEF InlineInv, InlineOnlyWhileExecuting
  <1>25. CASE ServerCancels
    BY <1>1, <1>25 DEF ServerCancels, memory, control, InlineInv, InlineOnlyWhileExecuting
  <1>26. CASE UNCHANGED vars
    BY <1>8, <1>26 DEF vars, memory, server, control
  <1> QED
    BY <1>12, <1>13, <1>14, <1>15, <1>16, <1>17, <1>18, <1>19, <1>20, <1>21, <1>22, <1>23,
       <1>24, <1>25, <1>26
       DEF Next, Runner, Finished

LEMMA InlineInit == Init => InlineInv
  <1> SUFFICES ASSUME Init PROVE InlineInv
    OBVIOUS
  <1>1. InlineOut = {}
    BY DEF Init, InlineOut, NewFuture, NotMade
  <1> QED
    BY <1>1 DEF Init, InlineInv, InlineOnlyWhileExecuting, Active

\* Outside of the call of its function no inline future is SCHEDULED, also
\* after timeouts, signals in the middle of a nesting, evictions and
\* re-entries.
THEOREM InlineOnlyWhileExecutingAlways == Spec => []InlineOnlyWhileExecuting
  <1> DEFINE Inv == TypeOK /\ CurrentKnown /\ InlineInv
  <1>1. Init => Inv
    BY InitType, InlineInit DEF Init, CurrentKnown
  <1>2. Inv /\ [Next]_vars => Inv'
    BY TypeStep, CurrentStep, InlineStep
  <1>3. Inv => InlineOnlyWhileExecuting
    BY DEF InlineInv
  <1> QED
    BY <1>1, <1>2, <1>3, PTL DEF Spec

-----------------------------------------------------------------------------
(* The runner implements Dataflow: the setting.                               *)

\* A job of a standalone function is over before its function is retried.
JobsEndBeforeRetries == \A f \in Standalone \cap Timed : Retries[f] = 0

-----------------------------------------------------------------------------
(* What the helpers change, field by field. *)

LEMMA SetStateFields ==
  ASSUME NEW F \in Futures, NEW f \in Ids, NEW s \in FutureState,
         NEW G, G = SetState(F, f, s)
  PROVE  /\ G \in Futures
         /\ G[f].state = s /\ G[f].value = F[f].value
         /\ G[f].kwargs = F[f].kwargs /\ G[f].parent = F[f].parent /\ G[f].nested = F[f].nested
         /\ G[f].retry_count = F[f].retry_count
         /\ G[f].clock # "off" =>
              /\ s \notin {"RETRYING", "RESOLVED", "CANCELED"}
              /\ F[f].clock # "off" \/ (s = "SCHEDULED" /\ f \in Timed)
         /\ \A g \in Ids \ {f} : G[g] = F[g]
  <1>1. G \in Futures
    BY SetStateType
  <1>2. G[f] = [F[f] EXCEPT !.state = s,
                            !.clock = IF IsTerminal(s) \/ s = "RETRYING" THEN "off"
                                      ELSE IF s = "SCHEDULED" /\ f \in Timed /\ F[f].clock = "off"
                                           THEN "on" ELSE F[f].clock]
    BY DEF Futures, SetState
  <1>3. \A g \in Ids \ {f} : G[g] = F[g]
    BY DEF Futures, SetState
  <1>4. F[f] \in FutureObject
    BY DEF Futures
  <1> QED
    BY <1>1, <1>2, <1>3, <1>4 DEF FutureObject, IsTerminal, TerminalStates

LEMMA MarkForRetryFields ==
  ASSUME NEW F \in Futures, NEW f \in Ids, NEW G, G = MarkForRetry(F, f)
  PROVE  /\ G \in Futures
         /\ G[f].state = "RETRYING" /\ G[f].value = F[f].value /\ G[f].clock = "off"
         /\ G[f].kwargs = F[f].kwargs /\ G[f].parent = F[f].parent /\ G[f].nested = F[f].nested
         /\ \A g \in Ids \ {f} : G[g] = F[g]
  <1>1. G \in Futures
    BY MarkForRetryType
  <1> DEFINE S == SetState(F, f, "RETRYING")
  <1>2. /\ S \in Futures
        /\ S[f].state = "RETRYING" /\ S[f].value = F[f].value
        /\ S[f].kwargs = F[f].kwargs /\ S[f].parent = F[f].parent /\ S[f].nested = F[f].nested
        /\ S[f].clock # "off" => FALSE
        /\ \A g \in Ids \ {f} : S[g] = F[g]
    BY SetStateFields DEF FutureState
  <1>3. G = [S EXCEPT ![f].retry_count = @ + 1]
    BY DEF MarkForRetry
  <1> HIDE DEF S
  <1>4. S[f] \in FutureObject
    BY <1>2 DEF Futures
  <1>5. G[f] = [S[f] EXCEPT !.retry_count = @ + 1] /\ \A g \in Ids \ {f} : G[g] = S[g]
    BY <1>2, <1>3 DEF Futures
  <1> QED
    BY <1>1, <1>2, <1>4, <1>5 DEF FutureObject

\* A future that gets its value.
Resolved(F, f) == [SetState(F, f, "RESOLVED") EXCEPT ![f].value = TRUE]

LEMMA ResolveFields ==
  ASSUME NEW F \in Futures, NEW f \in Ids, NEW G, G = Resolved(F, f)
  PROVE  /\ G \in Futures
         /\ G[f].state = "RESOLVED" /\ G[f].value /\ G[f].clock = "off"
         /\ G[f].kwargs = F[f].kwargs /\ G[f].parent = F[f].parent /\ G[f].nested = F[f].nested
         /\ \A g \in Ids \ {f} : G[g] = F[g]
  <1> DEFINE S == SetState(F, f, "RESOLVED")
  <1>1. S = SetState(F, f, "RESOLVED") /\ G = [S EXCEPT ![f].value = TRUE]
    BY DEF Resolved
  <1> HIDE DEF S
  <1>2. /\ S \in Futures
        /\ S[f].state = "RESOLVED"
        /\ S[f].kwargs = F[f].kwargs /\ S[f].parent = F[f].parent /\ S[f].nested = F[f].nested
        /\ S[f].clock # "off" => FALSE
        /\ \A g \in Ids \ {f} : S[g] = F[g]
    <2>1. "RESOLVED" \in FutureState
      BY DEF FutureState
    <2> QED
      BY <1>1, <2>1, SetStateFields
  <1>3. G \in Futures
    BY <1>1, <1>2, SetValueType, ZenonT(30)
  <1>4. S[f] \in FutureObject
    BY <1>2 DEF Futures
  <1>5. G[f] = [S[f] EXCEPT !.value = TRUE] /\ \A g \in Ids \ {f} : G[g] = S[g]
    BY <1>1, <1>2 DEF Futures
  <1> QED
    BY <1>2, <1>3, <1>4, <1>5 DEF FutureObject

-----------------------------------------------------------------------------
(* The inductive invariant. *)

\* The workers of a run, those that are to be killed too.
Out(f) == jobs[f].live + jobs[f].doomed

\* A future and its row agree on whether it exists and whether it is resolved.
Agrees(f) ==
  /\ fut[f].state = "NONE" => run[f] = "NONE" /\ fut[f] = NotMade
  /\ fut[f].value <=> fut[f].state = "RESOLVED"
  /\ fut[f].state = "RESOLVED" => run[f] = "RESOLVED"
  /\ fut[f].state \notin {"NONE", "CREATED"} => run[f] # "NONE"

\* A standalone future that may be scheduled has no run that went on without it.
MayStart(f) ==
  f \in Standalone /\ fut[f].state \in {"CREATED", "RETRYING"} =>
    run[f] \in {"NONE", "CREATED", "RETRYING", "CANCELED"}

\* The one worker that a run may have is that of the future's last call.
OneWorker(f) ==
  Out(f) > 0 =>
    /\ f \in Standalone /\ Out(f) = 1 /\ fut[f].nested = NoFuture
    /\ fut[f].state \in {"SCHEDULED", "CANCELED"} /\ run[f] \in {"SCHEDULED", "CANCELED"}

\* A run that a worker has resolved, and the runner does not know it yet.
ResolvedByWorker(f) ==
  run[f] = "RESOLVED" /\ fut[f].state # "RESOLVED" =>
    f \in Standalone /\ fut[f].nested = NoFuture

\* A standalone function that has returned a future is not called again.
NestsOnce(f) ==
  f \in Standalone /\ fut[f].nested # NoFuture =>
    /\ run[f] \in {"RAN", "RESOLVED", "CANCELED"}
    /\ fut[f].state \in {"SCHEDULED", "RAN", "RESOLVED", "CANCELED"}

\* A clock runs for a future with a timeout that has been called.
ClockRuns(f) ==
  fut[f].clock # "off" => f \in Timed /\ fut[f].state \notin {"NONE", "CREATED"}

\* A function that has been called was called on values.
CalledOnValues(f) ==
  \/ fut[f].state \in {"SCHEDULED", "RAN", "RETRYING"}
  \/ run[f] \in {"SCHEDULED", "RAN", "RETRYING", "RESOLVED"}
  \/ Out(f) > 0
  => \A k \in fut[f].kwargs : fut[k].value

\* The arguments of a future come from the same call, and have a row if it has.
ArgumentsMade(f) ==
  \A k \in fut[f].kwargs :
    /\ fut[k].state # "NONE" /\ fut[k].parent = fut[f].parent
    /\ run[f] # "NONE" => run[k] # "NONE"

\* What stands for a future comes from the call of its function.
NestedMade(f) ==
  fut[f].nested # NoFuture =>
    fut[fut[f].nested].state # "NONE" /\ fut[fut[f].nested].parent = f

\* What stands for f has a row.
NestedSaved(f) == fut[f].nested # NoFuture => run[fut[f].nested] # "NONE"

\* A pod can only lose what stands for a future during the call, until the row
\* says that the function has returned.
SavedInTime(f) == RunsRemotely /\ fut[f].state # "SCHEDULED" => NestedSaved(f)

\* A function that made futures is there, and has a row if one of them has.
ParentMade(f) ==
  fut[f].parent # NoFuture =>
    /\ fut[f].state # "NONE" => fut[fut[f].parent].state # "NONE"
    /\ run[f] # "NONE" => run[fut[f].parent] # "NONE"

FutureInv(f) ==
  /\ Agrees(f) /\ MayStart(f) /\ OneWorker(f) /\ ResolvedByWorker(f) /\ NestsOnce(f)
  /\ ClockRuns(f) /\ CalledOnValues(f) /\ ArgumentsMade(f) /\ NestedMade(f) /\ SavedInTime(f)
  /\ ParentMade(f)

DataInv == run[Root] # "NONE" /\ \A f \in Ids : FutureInv(f)

\* The future that is executed, or nested, is out.
CurrentInv ==
  pc \in {"executing", "nesting"} =>
    /\ fut[current].state = "SCHEDULED"
    /\ pc = "executing" =>
         current \notin Standalone /\ (RunsRemotely => NestedSaved(current))
    /\ pc = "nesting" =>
         /\ fut[current].nested # NoFuture
         /\ IF current \in Standalone THEN current \in work ELSE work = {}

\* The runs of the batch are those of standalone futures that are out.
WorkInv == \A f \in work : f \in Standalone /\ fut[f].state = "SCHEDULED"

\* The alarm is that of a future with a timeout that has been called.
ArmedInv == armed # NoFuture => armed \in Timed /\ fut[armed].state \notin {"NONE", "CREATED"}

\* Only a pod goes down.
DownInv == pc = "down" => RunsRemotely

RunInv == pc \notin Ended => DataInv /\ CurrentInv /\ WorkInv /\ ArmedInv /\ DownInv

-----------------------------------------------------------------------------
(* What a step can do to one future, its row and its worker.  Every step   *)
(* that neither makes futures nor rebuilds them from the rows nor ends     *)
(* run() is made of these.                                                 *)

SameGraph ==
  \A g \in Ids : /\ fut'[g].kwargs = fut[g].kwargs /\ fut'[g].parent = fut[g].parent
                 /\ fut'[g].nested = fut[g].nested

SameState(g) == fut'[g].state = fut[g].state /\ fut'[g].value = fut[g].value

Stays(g) == SameState(g) /\ run'[g] = run[g] /\ Out(g)' = Out(g)

\* The function is called, or a job is made for it.
IsCalled(g) ==
  /\ Executable(g) /\ run[g] # "NONE"
  /\ g \in Standalone => run[g] \in {"CREATED", "RETRYING"}
  /\ fut'[g].state = "SCHEDULED" /\ fut'[g].value = fut[g].value /\ run'[g] = "SCHEDULED"
  /\ Out(g)' = IF g \in Standalone THEN Out(g) + 1 ELSE Out(g)

\* An inline future that is executed by the step, or has been.
CalledInline(g) ==
  /\ g \notin Standalone
  /\ \/ fut[g].state = "SCHEDULED" /\ (RunsRemotely => NestedSaved(g))
     \/ Executable(g) /\ run[g] # "NONE"

\* The value is found in the cache, returned, or that of the nested future.
GetsValue(g) ==
  /\ \/ CalledInline(g)
     \/ Executable(g) /\ run[g] # "NONE"
     \/ g \in Standalone /\ fut[g].state = "SCHEDULED" /\ run[g] = "RESOLVED"
     \/ /\ fut[g].state = "RAN" /\ fut[g].nested # NoFuture
        /\ fut[fut[g].nested].state = "RESOLVED"
  /\ fut'[g].state = "RESOLVED" /\ fut'[g].value /\ run'[g] = "RESOLVED" /\ Out(g)' = Out(g)

IsRetried(g) ==
  /\ \/ CalledInline(g)
     \/ g \notin Standalone /\ fut[g].state \in {"RAN", "RETRYING"}
     \/ g \in Standalone /\ fut[g].state = "SCHEDULED" /\ run[g] = "FAILED"
  /\ fut'[g].state = "RETRYING" /\ fut'[g].value = fut[g].value /\ run'[g] = "RETRYING"
  /\ Out(g)' = Out(g)

\* The server, or a signal, cancels; or the runner learns of it.
IsCanceled(g) ==
  /\ fut'[g].value = fut[g].value /\ Out(g)' = Out(g)
  /\ run'[g] = IF run[g] = "NONE" \/ IsTerminal(run[g]) THEN run[g] ELSE "CANCELED"
  /\ \/ fut'[g].state = fut[g].state
     \/ /\ fut'[g].state = "CANCELED" /\ run'[g] = "CANCELED"
        /\ fut[g].state \notin {"NONE", "RESOLVED"}
        /\ RunsRemotely => fut[g].state # "SCHEDULED"

\* What the function returned is saved: its own row, and those of its futures.
HasRun(g) ==
  /\ fut[g].state = "SCHEDULED" /\ fut[g].nested # NoFuture
  /\ fut'[g].state = "RAN" /\ fut'[g].value = fut[g].value /\ run'[g] = "RAN"
  /\ Out(g)' = Out(g)
  /\ \A h \in Ids : fut[h].parent = g => run'[h] # "NONE"

\* HasRun holds of the parent, and so of all of its futures.
GetsRow(g) ==
  /\ SameState(g) /\ Out(g)' = Out(g)
  /\ fut[g].state # "NONE" /\ run[g] = "NONE" /\ run'[g] = "CREATED"
  /\ fut[g].parent \in Ids /\ HasRun(fut[g].parent)
  /\ \A h \in Ids : fut[h].parent = fut[g].parent /\ fut[h].state # "NONE" => run'[h] # "NONE"

WorkerLeaves(g) ==
  /\ SameState(g)
  /\ Out(g) > 0 /\ Out(g)' = Out(g) - 1
  /\ run'[g] \in {run[g], "RESOLVED", "RAN", "FAILED"}

Moves(g) ==
  \/ Stays(g) \/ IsCalled(g) \/ GetsValue(g) \/ IsRetried(g) \/ IsCanceled(g) \/ HasRun(g)
  \/ GetsRow(g) \/ WorkerLeaves(g)

\* A clock is started by a call only.
ClocksKept ==
  \A g \in Ids :
    fut'[g].clock # "off" =>
      fut[g].clock # "off" \/ (g \in Timed /\ fut'[g].state = "SCHEDULED")

\* A future that does not exist stays the way it is.
UnmadeKept == \A g \in Ids : fut[g].state = "NONE" => fut'[g] = fut[g]

\* One value at a time.
OneValue ==
  \A f, g \in Ids :
    fut'[f].value # fut[f].value /\ fut'[g].value # fut[g].value => f = g

Kept == SameGraph /\ ClocksKept /\ UnmadeKept /\ OneValue /\ \A g \in Ids : Moves(g)

\* Nothing is forgotten: values, rows and futures stay.
LEMMA NothingForgotten ==
  ASSUME DataInv, Kept, NEW g \in Ids
  PROVE  /\ fut[g].value => fut'[g].value
         /\ run[g] # "NONE" => run'[g] # "NONE"
         /\ fut[g].state # "NONE" <=> fut'[g].state # "NONE"
         /\ fut'[g].state = "CREATED" => fut[g].state = "CREATED"
  BY DEF Kept, Moves, Stays, SameState, IsCalled, CalledInline, GetsValue, IsRetried, IsCanceled,
         HasRun, GetsRow, WorkerLeaves, DataInv, FutureInv, Agrees, Executable

\* These moves preserve the invariant of every future.
LEMMA KeptInv == ASSUME TypeOK, TypeOK', DataInv, Kept PROVE DataInv'
  <1>1. run'[Root] # "NONE"
    BY NothingForgotten, RootInIds DEF DataInv
  <1> SUFFICES ASSUME NEW f \in Ids PROVE FutureInv(f)'
    BY <1>1 DEF DataInv
  <1>2. FutureInv(f) /\ Moves(f)
    BY DEF DataInv, Kept
  <1>3. /\ fut'[f].kwargs = fut[f].kwargs /\ fut'[f].parent = fut[f].parent
        /\ fut'[f].nested = fut[f].nested
    BY DEF Kept, SameGraph
  <1>4. fut[f] \in FutureObject /\ fut'[f] \in FutureObject
    BY DEF TypeOK
  <1>5. Out(f) \in Nat /\ Out(f)' \in Nat
    <2>1. jobs[f] \in [live : Nat, doomed : Nat] /\ jobs'[f] \in [live : Nat, doomed : Nat]
      BY DEF TypeOK
    <2> QED
      BY <2>1 DEF Out
  <1>6. fut[f].kwargs \subseteq Ids /\ fut[f].nested \in Ids \cup {NoFuture}
    BY <1>4 DEF FutureObject
  <1>7. Agrees(f)'
    BY <1>2, <1>5, SMTT(90) DEF Kept, UnmadeKept, Moves, Stays, SameState, IsCalled, CalledInline,
         GetsValue, IsRetried, IsCanceled, HasRun, GetsRow, WorkerLeaves, FutureInv, Agrees, OneWorker,
         Executable, IsTerminal, TerminalStates
  <1>8. MayStart(f)'
    BY <1>2, <1>5 DEF Moves, Stays, SameState, IsCalled, CalledInline, GetsValue,
         IsRetried, IsCanceled, HasRun, GetsRow, WorkerLeaves, FutureInv, MayStart, OneWorker,
         Executable, IsTerminal, TerminalStates
  <1>9. OneWorker(f)'
    BY <1>2, <1>3, <1>5 DEF Moves, Stays, SameState, IsCalled, CalledInline, GetsValue,
         IsRetried, IsCanceled, HasRun, GetsRow, WorkerLeaves, FutureInv, OneWorker, NestsOnce,
         Executable, IsTerminal, TerminalStates
  <1>10. ResolvedByWorker(f)'
    BY <1>2, <1>3, <1>5 DEF Moves, Stays, SameState, IsCalled, CalledInline, GetsValue,
         IsRetried, IsCanceled, HasRun, GetsRow, WorkerLeaves, FutureInv, ResolvedByWorker,
         OneWorker, Agrees, Executable, IsTerminal, TerminalStates
  <1>11. NestsOnce(f)'
    BY <1>2, <1>3, <1>5 DEF Moves, Stays, SameState, IsCalled, CalledInline, GetsValue,
         IsRetried, IsCanceled, HasRun, GetsRow, WorkerLeaves, FutureInv, NestsOnce,
         OneWorker, Agrees, Executable, IsTerminal, TerminalStates
  <1>12. ClockRuns(f)'
    BY <1>2, NothingForgotten DEF Kept, ClocksKept, FutureInv, ClockRuns
  <1>13. CalledOnValues(f)'
    <2>1. \A k \in fut[f].kwargs : fut[k].value => fut'[k].value
      BY <1>6, NothingForgotten
    <2>2. \A k \in fut[f].kwargs : fut[k].state = "RESOLVED" => fut[k].value
      BY <1>6 DEF DataInv, FutureInv, Agrees
    <2> DEFINE called == \/ fut[f].state \in {"SCHEDULED", "RAN", "RETRYING"}
                         \/ run[f] \in {"SCHEDULED", "RAN", "RETRYING", "RESOLVED"}
                         \/ Out(f) > 0
    <2>3. called \/ Executable(f) => CalledOnValues(f)'
      BY <1>2, <1>3, <2>1, <2>2 DEF FutureInv, CalledOnValues, Executable, ConcreteKwargs
    <2>4. ~ (called \/ Executable(f)) => ~ called'
      BY <1>2, <1>5 DEF Moves, Stays, SameState, IsCalled, CalledInline, GetsValue,
         IsRetried, IsCanceled, HasRun, GetsRow, WorkerLeaves
    <2> QED
      BY <2>3, <2>4 DEF CalledOnValues
  <1>14. ArgumentsMade(f)'
    <2> SUFFICES ASSUME NEW k \in fut[f].kwargs
                 PROVE  /\ fut'[k].state # "NONE" /\ fut'[k].parent = fut'[f].parent
                        /\ run'[f] # "NONE" => run'[k] # "NONE"
      BY <1>3 DEF ArgumentsMade
    <2>1. /\ k \in Ids /\ fut[k].state # "NONE" /\ fut[k].parent = fut[f].parent
          /\ run[f] # "NONE" => run[k] # "NONE"
      BY <1>2, <1>6 DEF FutureInv, ArgumentsMade
    <2>2. run[f] = "NONE" /\ run'[f] # "NONE" => GetsRow(f)
      BY <1>2 DEF Moves, Stays, SameState, IsCalled, CalledInline, GetsValue, IsRetried, IsCanceled,
           HasRun, WorkerLeaves, FutureInv, Agrees, OneWorker
    <2> QED
      BY <1>3, <2>1, <2>2, NothingForgotten DEF GetsRow, Kept, SameGraph
  <1>15. NestedMade(f)'
    BY <1>2, <1>3, <1>6, NothingForgotten DEF FutureInv, NestedMade, Kept, SameGraph
  <1>16. SavedInTime(f)'
    <2>1. NestedSaved(f) => NestedSaved(f)'
      BY <1>3, <1>6, NothingForgotten DEF NestedSaved
    <2>2. CASE HasRun(f)
      BY <1>2, <1>3, <1>6, <2>2 DEF HasRun, NestedSaved, SavedInTime, FutureInv, NestedMade
    <2>3. CASE ~ HasRun(f)
      <3> SUFFICES ASSUME RunsRemotely, fut'[f].state # "SCHEDULED", ~ NestedSaved(f)
                   PROVE  FALSE
        BY <2>1 DEF SavedInTime
      <3>1. fut[f].state = "SCHEDULED" /\ fut[f].nested # NoFuture
        BY <1>2 DEF FutureInv, SavedInTime, NestedSaved
      <3> QED
        BY <1>2, <2>3, <3>1 DEF Moves, Stays, SameState, IsCalled, CalledInline, GetsValue,
          IsRetried, IsCanceled, GetsRow, WorkerLeaves, FutureInv, NestsOnce, ResolvedByWorker,
          Executable
    <2> QED
      BY <2>2, <2>3
  <1>17. ParentMade(f)'
    <2>1. fut[f].parent \in Ids \cup {NoFuture}
      BY <1>4 DEF FutureObject
    <2>2. run[f] = "NONE" /\ run'[f] # "NONE" => GetsRow(f)
      BY <1>2 DEF Moves, Stays, SameState, IsCalled, CalledInline, GetsValue, IsRetried, IsCanceled,
           HasRun, WorkerLeaves, FutureInv, Agrees, OneWorker
    <2>3. GetsRow(f) => run'[fut[f].parent] # "NONE"
      BY DEF GetsRow, HasRun
    <2> QED
      BY <1>2, <1>3, <2>1, <2>2, <2>3, NothingForgotten DEF FutureInv, ParentMade
  <1> QED
    BY <1>7, <1>8, <1>9, <1>10, <1>11, <1>12, <1>13, <1>14, <1>15, <1>16, <1>17 DEF FutureInv

-----------------------------------------------------------------------------
(* Steps that change one future. *)

\* Saving rows may doom a worker, and ends none.
LEMMA SavedRows ==
  ASSUME TypeOK, NEW R, SaveRuns(R)
  PROVE  run' = R /\ \A g \in Ids : Out(g)' = Out(g)
  <1> SUFFICES ASSUME NEW g \in Ids PROVE Out(g)' = Out(g)
    BY DEF SaveRuns
  <1>1. jobs[g] \in [live : Nat, doomed : Nat]
    BY DEF TypeOK
  <1>2. jobs'[g] = IF R[g] # run[g] /\ IsTerminal(R[g])
                   THEN [live |-> 0, doomed |-> jobs[g].doomed + jobs[g].live] ELSE jobs[g]
    BY DEF SaveRuns
  <1> QED
    BY <1>1, <1>2 DEF Out

LEMMA OneMoves ==
  ASSUME TypeOK, NEW f \in Ids, fut[f].state # "NONE", Moves(f),
         \A g \in Ids \ {f} : fut'[g] = fut[g] /\ run'[g] = run[g] /\ Out(g)' = Out(g),
         fut'[f].kwargs = fut[f].kwargs, fut'[f].parent = fut[f].parent,
         fut'[f].nested = fut[f].nested,
         fut'[f].clock # "off" =>
           fut[f].clock # "off" \/ (f \in Timed /\ fut'[f].state = "SCHEDULED")
  PROVE  Kept
  <1>1. \A g \in Ids \ {f} : Moves(g)
    BY DEF Moves, Stays, SameState
  <1> QED
    BY <1>1 DEF Kept, SameGraph, ClocksKept, UnmadeKept, OneValue

\* A future gets its value, and its row says so.
LEMMA ValueMoves ==
  ASSUME TypeOK, NEW f \in Ids, fut[f].state # "NONE", fut' = Resolved(fut, f),
         run' = [run EXCEPT ![f] = "RESOLVED"], \A g \in Ids : Out(g)' = Out(g),
         \/ CalledInline(f)
         \/ Executable(f) /\ run[f] # "NONE"
         \/ f \in Standalone /\ fut[f].state = "SCHEDULED" /\ run[f] = "RESOLVED"
         \/ /\ fut[f].state = "RAN" /\ fut[f].nested # NoFuture
            /\ fut[fut[f].nested].state = "RESOLVED"
  PROVE  Kept /\ \A g \in Ids \ {f} : SameState(g)
  <1>1. fut \in Futures /\ run \in Rows
    BY DEF TypeOK, Futures, Rows
  <1>2. /\ fut'[f].state = "RESOLVED" /\ fut'[f].value /\ fut'[f].clock = "off"
        /\ fut'[f].kwargs = fut[f].kwargs /\ fut'[f].parent = fut[f].parent
        /\ fut'[f].nested = fut[f].nested
        /\ \A g \in Ids \ {f} : fut'[g] = fut[g]
    BY <1>1, ResolveFields
  <1>3. run'[f] = "RESOLVED" /\ \A g \in Ids \ {f} : run'[g] = run[g]
    BY <1>1 DEF Rows
  <1>4. Moves(f)
    BY <1>2, <1>3 DEF Moves, GetsValue
  <1> QED
    BY <1>2, <1>3, <1>4, OneMoves DEF SameState

\* A future is retried, and its row says so.
LEMMA RetryMoves ==
  ASSUME TypeOK, NEW f \in Ids, fut[f].state # "NONE",
         fut' = MarkForRetry(fut, f),
         run' = [run EXCEPT ![f] = "RETRYING"], \A g \in Ids : Out(g)' = Out(g),
         \/ CalledInline(f)
         \/ f \notin Standalone /\ fut[f].state \in {"RAN", "RETRYING"}
         \/ f \in Standalone /\ fut[f].state = "SCHEDULED" /\ run[f] = "FAILED"
  PROVE  Kept /\ \A g \in Ids \ {f} : SameState(g)
  <1>1. fut \in Futures /\ run \in Rows
    BY DEF TypeOK, Futures, Rows
  <1>2. /\ fut'[f].state = "RETRYING" /\ fut'[f].value = fut[f].value /\ fut'[f].clock = "off"
        /\ fut'[f].kwargs = fut[f].kwargs /\ fut'[f].parent = fut[f].parent
        /\ fut'[f].nested = fut[f].nested
        /\ \A g \in Ids \ {f} : fut'[g] = fut[g]
    BY <1>1, MarkForRetryFields
  <1>3. run'[f] = "RETRYING" /\ \A g \in Ids \ {f} : run'[g] = run[g]
    BY <1>1 DEF Rows
  <1>4. Moves(f)
    BY <1>2, <1>3 DEF Moves, IsRetried
  <1> QED
    BY <1>2, <1>3, <1>4, OneMoves DEF SameState

\* Only the state of a future changes, to s.
LEMMA StateMoves ==
  ASSUME TypeOK, NEW f \in Ids, fut[f].state # "NONE", NEW s \in FutureState,
         fut' = SetState(fut, f, s),
         \A g \in Ids \ {f} : run'[g] = run[g] /\ Out(g)' = Out(g),
         fut'[f].state = s /\ fut'[f].value = fut[f].value => Moves(f)
  PROVE  Kept /\ fut'[f].state = s /\ \A g \in Ids \ {f} : SameState(g)
  <1>1. fut \in Futures
    BY DEF TypeOK, Futures
  <1>2. /\ fut'[f].state = s /\ fut'[f].value = fut[f].value
        /\ fut'[f].kwargs = fut[f].kwargs /\ fut'[f].parent = fut[f].parent
        /\ fut'[f].nested = fut[f].nested
        /\ fut'[f].clock # "off" => fut[f].clock # "off" \/ (s = "SCHEDULED" /\ f \in Timed)
        /\ \A g \in Ids \ {f} : fut'[g] = fut[g]
    BY <1>1, SetStateFields
  <1> QED
    BY <1>2, OneMoves DEF SameState
-----------------------------------------------------------------------------
(* The ancestors of a future. *)

\* A set of numbers up to a bound has a least one.
LEMMA LeastNumber ==
  ASSUME NEW n \in Nat, NEW S \in SUBSET (0..n), S # {}
  PROVE  \E m \in S : \A k \in S : m <= k
  <1> DEFINE Below == {0..k : k \in S}
  <1>1. IsWellFoundedOn(StrictSubsetOrdering(0..n), FiniteSubsetsOf(0..n))
    BY FS_StrictSubsetOrderingWellFounded
  <1>2. Below \subseteq FiniteSubsetsOf(0..n) /\ Below # {}
    <2>1. \A k \in S : IsFiniteSet(0..k) /\ 0..k \subseteq 0..n
      BY FS_Interval
    <2> QED
      BY <2>1 DEF FiniteSubsetsOf
  <1>3. PICK X \in Below : \A Y \in Below : ~ (<<Y, X>> \in StrictSubsetOrdering(0..n))
    <2> HIDE DEF Below
    <2> QED
      BY <1>1, <1>2, WFMin
  <1>4. PICK m \in S : X = 0..m
    BY <1>3
  <1>5. ASSUME NEW k \in S, k < m PROVE FALSE
    <2>1. 0..k \subseteq 0..m /\ 0..k # 0..m
      BY <1>5
    <2>2. 0..k \in SUBSET (0..n) /\ 0..m \in SUBSET (0..n) /\ 0..k \in Below
      BY <1>2
    <2> QED
      BY <1>3, <1>4, <2>1, <2>2 DEF StrictSubsetOrdering
  <1> QED
    BY <1>5

\* The recursive function of Ancestors, up to n.
Collects(F, n, above) ==
  above = [g \in 0..n |->
             {g} \cup (IF g # NoFuture /\ F[g].parent < g THEN above[F[g].parent] ELSE {})]

\* There is such a function: it is extended number by number, and a least
\* number that it cannot be extended to does not exist.
LEMMA CollectsExists == ASSUME NEW F \in Futures PROVE \E above : Collects(F, MaxFutures, above)
  <1> DEFINE Bad == {n \in 0..MaxFutures : ~ \E h : Collects(F, n, h)}
  <1>1. MaxFutures \in Nat
    BY ConstantsAssumption
  <1>2. SUFFICES ASSUME Bad # {} PROVE FALSE
    BY <1>1
  <1>3. PICK m \in Bad : \A n \in Bad : m <= n
    <2>1. Bad \in SUBSET (0..MaxFutures)
      OBVIOUS
    <2> HIDE DEF Bad
    <2> QED
      BY <1>1, <1>2, <2>1, LeastNumber
  <1>4. m \in 0..MaxFutures /\ ~ \E h : Collects(F, m, h)
    OBVIOUS
  <1>5. \A g \in 1..MaxFutures : F[g].parent \in 0..MaxFutures
    <2>1. \A g \in Ids : F[g].parent \in Ids \cup {NoFuture}
      BY DEF Futures, FutureObject
    <2> QED
      BY <1>1, <2>1 DEF Ids, NoFuture
  <1>6. CASE m = 0
    <2>1. Collects(F, 0, [g \in 0..0 |-> {g}])
      BY DEF Collects, NoFuture
    <2> QED
      BY <1>4, <1>6, <2>1
  <1>7. CASE m # 0
    <2>1. m - 1 \in 0..MaxFutures /\ m - 1 < m
      BY <1>1, <1>4, <1>7
    <2>2. PICK h : Collects(F, m - 1, h)
      BY <1>3, <2>1
    <2> DEFINE k == [g \in 0..m |->
                       {g} \cup (IF g # NoFuture /\ F[g].parent < g THEN h[F[g].parent] ELSE {})]
    <2>3. \A g \in 0..(m-1) : k[g] = h[g]
      <3> SUFFICES ASSUME NEW g \in 0..(m-1) PROVE k[g] = h[g]
        OBVIOUS
      <3>1. g \in 0..m
        BY <1>1, <1>4
      <3>2. h[g] = {g} \cup (IF g # NoFuture /\ F[g].parent < g THEN h[F[g].parent] ELSE {})
        BY <2>2, Zenon DEF Collects
      <3>3. k[g] = {g} \cup (IF g # NoFuture /\ F[g].parent < g THEN h[F[g].parent] ELSE {})
        BY <3>1, Zenon
      <3> QED
        BY <3>2, <3>3
    <2>4. \A g \in 0..m : g # NoFuture /\ F[g].parent < g => F[g].parent \in 0..(m-1)
      BY <1>1, <1>4, <1>5 DEF NoFuture
    <2>5. Collects(F, m, k)
      <3>1. \A g \in 0..m : g # NoFuture /\ F[g].parent < g => k[F[g].parent] = h[F[g].parent]
        BY <2>3, <2>4
      <3> QED
        BY <3>1 DEF Collects
    <2> QED
      BY <1>4, <2>5
  <1> QED
    BY <1>6, <1>7

\* Whatever holds of the parent, and with a future of its parent, holds of all
\* the ancestors.
LEMMA AncestorsIn ==
  ASSUME NEW F \in Futures, NEW f \in Ids, NEW S \in SUBSET (Ids \cup {NoFuture}),
         F[f].parent \in S, \A g \in S \ {NoFuture} : F[g].parent \in S
  PROVE  Ancestors(F, f) \subseteq S
  <1>1. MaxFutures \in Nat /\ S \subseteq 0..MaxFutures
    BY ConstantsAssumption DEF Ids, NoFuture
  <1>2. PICK h : Ancestors(F, f) = Ids \cap h[F[f].parent] /\ Collects(F, MaxFutures, h)
    BY CollectsExists DEF Ancestors, Collects
  <1> DEFINE Bad == {g \in S : ~ (h[g] \subseteq S)}
  <1>3. CASE Bad = {}
    BY <1>2, <1>3
  <1>4. CASE Bad # {}
    <2>1. PICK m \in Bad : \A n \in Bad : m <= n
      <3>1. Bad \in SUBSET (0..MaxFutures)
        BY <1>1
      <3> HIDE DEF Bad
      <3> QED
        BY <1>1, <1>4, <3>1, LeastNumber
    <2>2. m \in 0..MaxFutures /\ m \in S
      BY <1>1, <2>1
    <2>3. h[m] = {m} \cup (IF m # NoFuture /\ F[m].parent < m THEN h[F[m].parent] ELSE {})
      BY <1>2, <2>2 DEF Collects
    <2>4. m # NoFuture /\ F[m].parent < m => h[F[m].parent] \subseteq S
      <3>1. m # NoFuture => F[m].parent \in S /\ F[m].parent \in 0..MaxFutures
        BY <1>1, <2>2
      <3> QED
        BY <2>1, <2>2, <3>1
    <2> QED
      BY <2>1, <2>2, <2>3, <2>4
  <1> QED
    BY <1>3, <1>4

\* The ancestors of a future that exists do.
ParentsMade(F) ==
  \A g \in Ids : F[g].state # "NONE" /\ F[g].parent # NoFuture => F[F[g].parent].state # "NONE"

LEMMA AncestorsMade ==
  ASSUME NEW F \in Futures, ParentsMade(F), NEW f \in Ids, F[f].state # "NONE"
  PROVE  \A g \in Ancestors(F, f) : g \in Ids /\ F[g].state # "NONE"
  <1> DEFINE S == {g \in Ids : F[g].state # "NONE"} \cup {NoFuture}
  <1>1. S \in SUBSET (Ids \cup {NoFuture})
    OBVIOUS
  <1>2. \A g \in Ids : F[g].state # "NONE" => F[g].parent \in S
    BY DEF ParentsMade, Futures, FutureObject
  <1>3. F[f].parent \in S /\ \A g \in S \ {NoFuture} : F[g].parent \in S
    BY <1>2
  <1>4. Ancestors(F, f) \subseteq S
    <2> HIDE DEF S
    <2> QED
      BY <1>1, <1>3, AncestorsIn
  <1> QED
    BY <1>4, RootInIds DEF Ancestors

-----------------------------------------------------------------------------
(* How a run ends without a value: whatever is recorded in the futures, no *)
(* future is made or forgotten, and none gets or loses a value.            *)

SameView(F, G) ==
  \A g \in Ids : /\ G[g].kwargs = F[g].kwargs /\ G[g].nested = F[g].nested
                 /\ G[g].parent = F[g].parent /\ G[g].value = F[g].value
                 /\ G[g].state = "NONE" <=> F[g].state = "NONE"

LEMMA SameViewTwice ==
  ASSUME NEW F, NEW G, NEW H, SameView(F, G), SameView(G, H)
  PROVE  SameView(F, H)
  BY DEF SameView

LEMMA SetStateView ==
  ASSUME NEW F \in Futures, NEW f \in Ids, F[f].state # "NONE", NEW s \in FutureState
  PROVE  SetState(F, f, s) \in Futures /\ SameView(F, SetState(F, f, s))
  <1>1. "NONE" \notin FutureState
    BY DEF FutureState
  <1> QED
    BY <1>1, SetStateFields DEF SameView

LEMMA RetryView ==
  ASSUME NEW F \in Futures, NEW f \in Ids, F[f].state # "NONE"
  PROVE  MarkForRetry(F, f) \in Futures /\ SameView(F, MarkForRetry(F, f))
  BY MarkForRetryFields DEF SameView

LEMMA FailView ==
  ASSUME NEW F \in Futures, ParentsMade(F), NEW f \in Ids, F[f].state # "NONE"
  PROVE  SameView(F, FailFutureAndParents(F, f))
  <1> DEFINE failed == SetState(F, f, "FAILED")
  <1>1. failed \in Futures /\ SameView(F, failed)
    BY SetStateView DEF FutureState
  <1>2. \A g \in Ids : FailFutureAndParents(F, f)[g]
                         = IF g \in Ancestors(F, f) \ {f} THEN SetState(failed, g, "NESTED_FAILED")[g]
                           ELSE failed[g]
    BY DEF FailFutureAndParents
  <1> HIDE DEF failed
  <1>3. ASSUME NEW g \in Ancestors(F, f)
        PROVE  SameView(failed, SetState(failed, g, "NESTED_FAILED"))
    <2>1. g \in Ids /\ failed[g].state # "NONE"
      BY <1>1, AncestorsMade DEF SameView
    <2> QED
      BY <1>1, <2>1, SetStateView DEF FutureState
  <1> QED
    BY <1>1, <1>2, <1>3 DEF SameView

LEMMA CanceledView ==
  ASSUME TypeOK, DataInv
  PROVE  CanceledFutures \in Futures /\ SameView(fut, CanceledFutures)
  <1>1. fut \in Futures
    BY DEF TypeOK, Futures
  <1>2. CanceledFutures \in Futures
    BY <1>1, CanceledFuturesType
  <1>3. ASSUME NEW g \in Ids, run[g] # "NONE"
        PROVE  SameView(fut, SetState(fut, g, "CANCELED"))
    <2>1. fut[g].state # "NONE"
      BY <1>3 DEF DataInv, FutureInv, Agrees
    <2> QED
      BY <1>1, <2>1, SetStateView DEF FutureState
  <1> QED
    BY <1>2, <1>3 DEF CanceledFutures, SameView

\* The run fails, or is canceled.
GivesUp == pc' \in {"failed", "canceled"} /\ SameView(fut, fut')

LEMMA DidFailGivesUp ==
  ASSUME NEW F, NEW R, NEW e, SameView(fut, F), PipelineRunDidFail(F, R, e)
  PROVE  GivesUp
  BY DEF PipelineRunDidFail, Ends, GivesUp

LEMMA FailureGivesUp ==
  ASSUME TypeOK, DataInv, NEW F \in Futures, SameView(fut, F), NEW f \in Ids,
         fut[f].state # "NONE", NEW R, NEW e,
         PipelineRunDidFail(FailFutureAndParents(F, f), R, e)
  PROVE  GivesUp
  <1>1. ParentsMade(F)
    <2>1. \A g \in Ids : fut[g].parent \in Ids \cup {NoFuture}
      BY DEF TypeOK, FutureObject
    <2> QED
      BY <2>1 DEF SameView, DataInv, FutureInv, ParentMade, ParentsMade
  <1>2. SameView(F, FailFutureAndParents(F, f))
    BY <1>1, FailView DEF SameView
  <1> QED
    BY <1>2, SameViewTwice, DidFailGivesUp

-----------------------------------------------------------------------------
(* The steps, one by one: run() goes on, with moves of the kinds above, or *)
(* gives up.                                                               *)

Goes == pc' \notin Ended /\ Kept /\ CurrentInv' /\ WorkInv' /\ ArmedInv' /\ DownInv'

\* What every step starts from.
Now ==
  /\ pc \notin Ended /\ TypeOK /\ CurrentKnown /\ InlineInv
  /\ DataInv /\ CurrentInv /\ WorkInv /\ ArmedInv /\ DownInv

LEMMA ArmedKept ==
  ASSUME TypeOK, DataInv, Kept, ArmedInv, armed' \in {armed, NoFuture}
  PROVE  ArmedInv'
  <1>1. armed # NoFuture => armed \in Ids
    BY DEF TypeOK
  <1> QED
    BY <1>1, NothingForgotten DEF ArmedInv

\* Nothing is called, or on its way.
LEMMA RestGoes ==
  ASSUME Now, Kept, pc' \in {"starting", "loop", "pass", "waiting"}, work' = {},
         armed' \in {armed, NoFuture}
  PROVE  Goes
  BY ArmedKept DEF Now, Goes, CurrentInv, WorkInv, DownInv, Ended

\* The runner does not take part in the step.
LEMMA WorldGoes ==
  ASSUME Now, Kept, \A g \in Ids : SameState(g), UNCHANGED <<work, current, armed>>,
         pc' = pc \/ (pc' = "down" /\ RunsRemotely)
  PROVE  Goes
  <1>1. current \in Ids \cup {NoFuture} /\ work \subseteq Ids /\ fut \in Futures
    BY Zenon DEF Now, TypeOK, Futures
  <1>2. WorkInv'
    BY <1>1 DEF Now, WorkInv, SameState
  <1>3. CurrentInv'
    <2> SUFFICES ASSUME pc' \in {"executing", "nesting"} PROVE CurrentInv'
      BY DEF CurrentInv
    <2>1. pc' = pc /\ current \in Ids
      BY DEF Now, CurrentKnown
    <2>2. fut'[current].state = fut[current].state /\ fut'[current].nested = fut[current].nested
      BY <2>1 DEF SameState, Kept, SameGraph
    <2>3. NestedSaved(current) => NestedSaved(current)'
      <3>1. fut[current].nested \in Ids \cup {NoFuture}
        BY <1>1, <2>1 DEF Futures, FutureObject
      <3> QED
        BY <2>2, <3>1, NothingForgotten DEF NestedSaved, Now
    <2> QED
      BY <2>1, <2>2, <2>3 DEF Now, CurrentInv
  <1> QED
    BY <1>2, <1>3, ArmedKept DEF Now, Goes, DownInv, Ended

LEMMA NothingMoves ==
  ASSUME UNCHANGED <<fut, run, jobs>>
  PROVE  Kept /\ \A g \in Ids : SameState(g)
  BY DEF Kept, SameGraph, ClocksKept, UnmadeKept, OneValue, Moves, Stays, SameState, Out

\* Some futures are retried, the others stay.
LEMMA RetriesMove ==
  ASSUME NEW S \in SUBSET Ids, \A g \in Ids : Out(g)' = Out(g),
         \A g \in Ids \ S : fut'[g] = fut[g] /\ run'[g] = run[g],
         \A g \in S :
           /\ fut'[g].state = "RETRYING" /\ fut'[g].value = fut[g].value /\ fut'[g].clock = "off"
           /\ fut'[g].kwargs = fut[g].kwargs /\ fut'[g].parent = fut[g].parent
           /\ fut'[g].nested = fut[g].nested /\ run'[g] = "RETRYING"
           /\ fut[g].state # "NONE"
           /\ \/ CalledInline(g)
              \/ g \notin Standalone /\ fut[g].state \in {"RAN", "RETRYING"}
              \/ g \in Standalone /\ fut[g].state = "SCHEDULED" /\ run[g] = "FAILED"
  PROVE  Kept
  <1>1. \A g \in Ids : Moves(g)
    BY DEF Moves, Stays, SameState, IsRetried
  <1> QED
    BY <1>1 DEF Kept, SameGraph, ClocksKept, UnmadeKept, OneValue

LEMMA StartGoes == ASSUME Now, Start PROVE Goes \/ GivesUp
  <1>1. CASE pc' = "loop" /\ pc = "starting" /\ UNCHANGED <<memory, run, jobs, work, armed>>
    BY <1>1, NothingMoves, RestGoes DEF Now, InlineInv, memory
  <1>2. CASE PipelineRunDidFail(fut, run, "RunnerRestartError")
    BY <1>2, DidFailGivesUp DEF SameView
  <1> QED
    BY <1>1, <1>2 DEF Start

\* run() returns the root's value.
Succeeds == pc' = "succeeded" /\ fut' = fut /\ fut[Root].state = "RESOLVED"

LEMMA LoopHeadGoes == ASSUME Now, LoopHead PROVE Goes \/ GivesUp \/ Succeeds
  <1>1. CASE pc' = "pass" /\ pc = "loop" /\ UNCHANGED <<memory, server, work, armed>>
    BY <1>1, NothingMoves, RestGoes DEF Now, InlineInv, memory, server
  <1>2. CASE fut[Root].state = "RESOLVED" /\ Ends("succeeded") /\ UNCHANGED memory
    BY <1>2 DEF Succeeds, Ends, memory
  <1>3. CASE Ends("canceled") /\ UNCHANGED memory
    BY <1>3 DEF GivesUp, Ends, SameView, memory
  <1>4. CASE \E e : PipelineRunDidFail(fut, run, e)
    BY <1>4, DidFailGivesUp DEF SameView
  <1> QED
    BY <1>1, <1>2, <1>3, <1>4 DEF LoopHead

LEMMA QuietGoes ==
  ASSUME Now, EndPass \/ NothingToWaitFor \/ EndProcessing \/ PollRuns PROVE Goes
  <1>1. Kept /\ UNCHANGED fut
    BY NothingMoves DEF EndPass, NothingToWaitFor, EndProcessing, PollRuns, memory, server
  <1>2. CASE EndPass \/ NothingToWaitFor \/ EndProcessing
    BY <1>1, <1>2, RestGoes
       DEF EndPass, NothingToWaitFor, EndProcessing, BackToLoop, Now, InlineInv
  <1>3. CASE PollRuns
    <2>1. pc = "waiting" /\ pc' = "processing"
      BY <1>3 DEF PollRuns
    <2>2. InlineOut = {}
      BY <2>1 DEF Now, InlineInv, InlineOnlyWhileExecuting, Active
    <2>3. \A g \in work' : g \in Standalone /\ fut[g].state = "SCHEDULED"
      BY <1>3, <2>2 DEF PollRuns, ChangedRuns, OutJobs
    <2>4. armed' # NoFuture => armed' \in Ids /\ fut[armed'].clock # "off"
      BY <1>3 DEF PollRuns, Limited
    <2>5. ArmedInv'
      BY <1>1, <2>4 DEF ArmedInv, Now, DataInv, FutureInv, ClockRuns
    <2> QED
      BY <1>1, <2>1, <2>3, <2>5 DEF Goes, CurrentInv, WorkInv, DownInv, Ended
  <1> QED
    BY <1>2, <1>3

\* A future gets its value in a step of the loop that leaves nothing on its way.
LEMMA ValueGoes ==
  ASSUME Now, NEW f \in Ids, fut[f].state # "NONE", fut' = Resolved(fut, f),
         SaveRuns([run EXCEPT ![f] = "RESOLVED"]), Advance(TRUE), work = {},
         \/ CalledInline(f)
         \/ Executable(f) /\ run[f] # "NONE"
         \/ /\ fut[f].state = "RAN" /\ fut[f].nested # NoFuture
            /\ fut[fut[f].nested].state = "RESOLVED"
  PROVE  Goes
  <1>1. Kept
    BY SavedRows, ValueMoves DEF Now
  <1> QED
    BY <1>1, RestGoes DEF Advance

LEMMA VisitIdleGoes == ASSUME Now, NEW f \in Ids, VisitIdle(f) PROVE Goes
  BY NothingMoves, RestGoes DEF VisitIdle, AtFuture, Advance, memory, server, Now, InlineInv

LEMMA RunNestedGoes == ASSUME Now, NEW f \in Ids, RunNestedFuture(f) PROVE Goes \/ GivesUp
  <1>1. CASE PipelineRunDidFail(fut, run, "NoNestedFuture")
    BY <1>1, DidFailGivesUp DEF SameView
  <1>2. CASE /\ fut[f].nested # NoFuture /\ fut[fut[f].nested].state = "RESOLVED"
             /\ fut' = Bubble(f) /\ SaveRuns([run EXCEPT ![f] = "RESOLVED"]) /\ Advance(TRUE)
    <2>1. pc = "pass" /\ fut[f].state = "RAN" /\ work = {}
      BY DEF RunNestedFuture, AtFuture, Now, InlineInv
    <2>2. fut[f] \in FutureObject
      BY DEF Now, TypeOK
    <2>3. fut[f].nested \in Ids
      BY <1>2, <2>2 DEF FutureObject
    <2>4. fut[fut[f].nested].value = TRUE
      BY <1>2, <2>3 DEF Now, TypeOK, FutureObject, DataInv, FutureInv, Agrees
    <2>5. fut' = Resolved(fut, f)
      BY <1>2, <2>4 DEF Bubble, Resolved
    <2> QED
      BY <1>2, <2>1, <2>5, ValueGoes
  <1> QED
    BY <1>1, <1>2 DEF RunNestedFuture

LEMMA WithoutRunGoes == ASSUME Now, NEW f \in Ids, ExecuteWithoutRun(f) PROVE GivesUp
  BY DidFailGivesUp DEF ExecuteWithoutRun, SameView

LEMMA CacheHitGoes == ASSUME Now, NEW f \in Ids, CacheHit(f) PROVE Goes
  <1>1. pc = "pass" /\ fut[f].state # "NONE" /\ work = {}
    BY DEF CacheHit, AtFuture, Executable, Now, InlineInv
  <1>2. fut' = Resolved(fut, f)
    BY DEF CacheHit, Resolved
  <1> QED
    BY <1>1, <1>2, ValueGoes DEF CacheHit

LEMMA ScheduleGoes == ASSUME Now, NEW f \in Ids, ScheduleFuture(f) PROVE Goes \/ GivesUp
  <1>1. /\ pc = "pass" /\ work = {} /\ Executable(f) /\ run[f] # "NONE" /\ f \in Standalone
        /\ fut[f].state \in {"CREATED", "RETRYING"}
    BY DEF ScheduleFuture, AtFuture, Executable, Now, InlineInv
  <1>2. run[f] \in {"CREATED", "RETRYING", "CANCELED"} /\ fut \in Futures /\ run \in Rows
    BY <1>1 DEF Now, DataInv, FutureInv, MayStart, TypeOK, Futures, Rows
  <1>3. Kept /\ Advance(TRUE) => Goes
    BY <1>1, RestGoes DEF Advance
  <1>4. CASE PipelineRunDidFail(fut, run, "BadRequest")
    BY <1>4, DidFailGivesUp DEF SameView
  <1>5. CASE /\ run[f] \in {"CREATED", "RETRYING"} /\ fut' = SetState(fut, f, "SCHEDULED")
             /\ run' = [run EXCEPT ![f] = "SCHEDULED"]
             /\ jobs' = [jobs EXCEPT ![f].live = @ + 1] /\ Advance(TRUE)
    <2>1. jobs \in [Ids -> [live : Nat, doomed : Nat]]
      BY DEF Now, TypeOK
    <2>2. jobs[f] \in [live : Nat, doomed : Nat] /\ jobs'[f] = [jobs[f] EXCEPT !.live = @ + 1]
      BY <1>5, <2>1
    <2>3. Out(f)' = Out(f) + 1
      BY <2>2 DEF Out
    <2>4. run'[f] = "SCHEDULED" /\ \A g \in Ids \ {f} : run'[g] = run[g] /\ Out(g)' = Out(g)
      BY <1>2, <1>5, <2>1 DEF Rows, Out
    <2>5. fut'[f].state = "SCHEDULED" /\ fut'[f].value = fut[f].value => Moves(f)
      BY <1>1, <1>5, <2>3, <2>4 DEF Moves, IsCalled
    <2>6. Kept
      <3>1. "SCHEDULED" \in FutureState
        BY DEF FutureState
      <3> QED
        BY <1>1, <1>5, <2>4, <2>5, <3>1, StateMoves DEF Now
    <2> QED
      BY <1>3, <1>5, <2>6
  <1>6. CASE run[f] = "CANCELED" /\ fut' = SetState(fut, f, run[f]) /\ Advance(TRUE)
             /\ UNCHANGED server
    <2>1. run' = run /\ \A g \in Ids : Out(g)' = Out(g)
      BY <1>6 DEF server, Out
    <2>2. fut'[f].state = "CANCELED" /\ fut'[f].value = fut[f].value => Moves(f)
      BY <1>1, <1>6, <2>1 DEF Moves, IsCanceled, IsTerminal, TerminalStates
    <2>3. Kept
      <3>1. "CANCELED" \in FutureState
        BY DEF FutureState
      <3> QED
        BY <1>1, <1>6, <2>1, <2>2, <3>1, StateMoves DEF Now
    <2> QED
      BY <1>3, <1>6, <2>3
  <1> QED
    BY <1>2, <1>4, <1>5, <1>6 DEF ScheduleFuture

LEMMA CallInlineGoes ==
  ASSUME Now, NEW f \in Ids, AtFuture(f), Executable(f), run[f] # "NONE", f \notin Standalone,
         fut' = SetState(fut, f, "SCHEDULED"), SaveRuns([run EXCEPT ![f] = "SCHEDULED"]),
         pc' = "executing", current' = f, UNCHANGED <<work, armed>>
  PROVE  Goes
  <1>1. run' = [run EXCEPT ![f] = "SCHEDULED"] /\ \A g \in Ids : Out(g)' = Out(g)
    BY SavedRows DEF Now
  <1>2. run'[f] = "SCHEDULED" /\ \A g \in Ids \ {f} : run'[g] = run[g]
    BY <1>1 DEF Now, TypeOK
  <1>3. fut[f].state \in {"CREATED", "RETRYING"} /\ work = {}
    BY DEF Executable, AtFuture, Now, InlineInv
  <1>4. fut'[f].state = "SCHEDULED" /\ fut'[f].value = fut[f].value => Moves(f)
    BY <1>1, <1>2 DEF Moves, IsCalled
  <1>5. Kept /\ fut'[f].state = "SCHEDULED"
    <2>1. "SCHEDULED" \in FutureState
      BY DEF FutureState
    <2> QED
      BY <1>1, <1>2, <1>3, <1>4, <2>1, StateMoves DEF Now
  <1>6. RunsRemotely => NestedSaved(f)'
    <2>1. RunsRemotely => NestedSaved(f)
      BY <1>3 DEF Now, DataInv, FutureInv, SavedInTime
    <2>2. fut'[f].nested = fut[f].nested /\ fut[f].nested \in Ids \cup {NoFuture}
      BY <1>5 DEF Kept, SameGraph, Now, TypeOK, FutureObject
    <2> QED
      BY <1>5, <2>1, <2>2, NothingForgotten DEF NestedSaved, Now
  <1>7. CurrentInv' /\ WorkInv'
    BY <1>3, <1>5, <1>6 DEF CurrentInv, WorkInv
  <1> QED
    BY <1>5, <1>7, ArmedKept DEF Goes, Now, DownInv, Ended

\* A retry, on top of what F and R record of f, of f and maybe of r.
LEMMA RetryGoes ==
  ASSUME Now, NEW F \in Futures, NEW R \in Rows, NEW f \in Ids, fut[f].state # "NONE",
         \A g \in Ids \ {f} : F[g] = fut[g] /\ R[g] = run[g],
         /\ F[f].value = fut[f].value /\ F[f].kwargs = fut[f].kwargs
         /\ F[f].parent = fut[f].parent /\ F[f].nested = fut[f].nested,
         \/ CalledInline(f)
         \/ f \notin Standalone /\ fut[f].state \in {"RAN", "RETRYING"}
         \/ f \in Standalone /\ fut[f].state = "SCHEDULED" /\ run[f] = "FAILED",
         fut' = MarkForRetry(F, f), SaveRuns([R EXCEPT ![f] = "RETRYING"])
  PROVE  Kept /\ \A g \in Ids \ {f} : SameState(g)
  <1>1. run' = [R EXCEPT ![f] = "RETRYING"] /\ \A g \in Ids : Out(g)' = Out(g)
    BY SavedRows DEF Now
  <1>2. run'[f] = "RETRYING" /\ \A g \in Ids \ {f} : run'[g] = run[g]
    BY <1>1 DEF Rows
  <1>3. /\ fut'[f].state = "RETRYING" /\ fut'[f].value = fut[f].value /\ fut'[f].clock = "off"
        /\ fut'[f].kwargs = fut[f].kwargs /\ fut'[f].parent = fut[f].parent
        /\ fut'[f].nested = fut[f].nested
        /\ \A g \in Ids \ {f} : fut'[g] = fut[g]
    BY MarkForRetryFields
  <1>4. Moves(f)
    BY <1>1, <1>2, <1>3 DEF Moves, IsRetried
  <1> QED
    BY <1>1, <1>2, <1>3, <1>4, OneMoves DEF SameState, Now

LEMMA TwoRetriesGo ==
  ASSUME Now, NEW F \in Futures, NEW R \in Rows, NEW f \in Ids, NEW r \in Ids,
         NEW G, G = MarkForRetry(F, r),
         \A g \in Ids \ {f} : F[g] = fut[g] /\ R[g] = run[g],
         /\ F[f].value = fut[f].value /\ F[f].kwargs = fut[f].kwargs
         /\ F[f].parent = fut[f].parent /\ F[f].nested = fut[f].nested,
         CalledInline(f), fut[f].state # "NONE",
         r # f => r \notin Standalone /\ fut[r].state \in {"RAN", "RETRYING"},
         fut' = MarkForRetry(G, f),
         SaveRuns([[R EXCEPT ![r] = "RETRYING"] EXCEPT ![f] = "RETRYING"])
  PROVE  Kept
  <1>1. /\ run' = [[R EXCEPT ![r] = "RETRYING"] EXCEPT ![f] = "RETRYING"]
        /\ \A g \in Ids : Out(g)' = Out(g)
    BY SavedRows DEF Now
  <1>2. /\ run'[f] = "RETRYING" /\ run'[r] = "RETRYING"
        /\ \A g \in Ids \ {f, r} : run'[g] = run[g]
    BY <1>1 DEF Rows
  <1>3. /\ G \in Futures
        /\ G[r].state = "RETRYING" /\ G[r].value = F[r].value /\ G[r].clock = "off"
        /\ G[r].kwargs = F[r].kwargs /\ G[r].parent = F[r].parent /\ G[r].nested = F[r].nested
        /\ \A g \in Ids \ {r} : G[g] = F[g]
    BY MarkForRetryFields
  <1>4. /\ fut'[f].state = "RETRYING" /\ fut'[f].value = G[f].value /\ fut'[f].clock = "off"
        /\ fut'[f].kwargs = G[f].kwargs /\ fut'[f].parent = G[f].parent
        /\ fut'[f].nested = G[f].nested
        /\ \A g \in Ids \ {f} : fut'[g] = G[g]
    BY <1>3, MarkForRetryFields, SMTT(30)
  <1>5. \A g \in {f, r} :
          /\ fut'[g].state = "RETRYING" /\ fut'[g].value = fut[g].value /\ fut'[g].clock = "off"
          /\ fut'[g].kwargs = fut[g].kwargs /\ fut'[g].parent = fut[g].parent
          /\ fut'[g].nested = fut[g].nested /\ run'[g] = "RETRYING"
    <2>1. CASE r = f
      BY <1>2, <1>3, <1>4, <2>1
    <2>2. CASE r # f
      BY <1>2, <1>3, <1>4, <2>2
    <2> QED
      BY <2>1, <2>2
  <1> DEFINE S == {f, r}
  <1>6. S \in SUBSET Ids /\ \A g \in Ids \ S : fut'[g] = fut[g] /\ run'[g] = run[g]
    BY <1>2, <1>3, <1>4
  <1>7. \A g \in S :
          /\ fut'[g].state = "RETRYING" /\ fut'[g].value = fut[g].value /\ fut'[g].clock = "off"
          /\ fut'[g].kwargs = fut[g].kwargs /\ fut'[g].parent = fut[g].parent
          /\ fut'[g].nested = fut[g].nested /\ run'[g] = "RETRYING"
          /\ fut[g].state # "NONE"
          /\ \/ CalledInline(g)
             \/ g \notin Standalone /\ fut[g].state \in {"RAN", "RETRYING"}
             \/ g \in Standalone /\ fut[g].state = "SCHEDULED" /\ run[g] = "FAILED"
    BY <1>5
  <1> HIDE DEF S
  <1> QED
    BY <1>1, <1>6, <1>7, RetriesMove

\* A future whose clock runs, and that is retried, is an inline one.
LEMMA LateRetried ==
  ASSUME Now, JobsEndBeforeRetries, NEW f \in Ids, Retries[f] > 0,
         f \in Timed, fut[f].state \notin {"NONE", "CREATED"}, ~ IsTerminal(fut[f].state),
         f \notin InlineOut
  PROVE  f \notin Standalone /\ fut[f].state \in {"RAN", "RETRYING"}
  <1>1. f \notin Standalone
    BY DEF JobsEndBeforeRetries
  <1>2. fut[f].state \in FutureState \cup {"NONE"}
    BY DEF Now, TypeOK, FutureObject
  <1> QED
    BY <1>1, <1>2 DEF FutureState, IsTerminal, TerminalStates, InlineOut

LEMMA RunInlineGoes ==
  ASSUME Now, JobsEndBeforeRetries, NEW f \in Ids, RunInline(f) PROVE Goes \/ GivesUp
  <1> DEFINE F == SetState(fut, f, "SCHEDULED")
             R == [run EXCEPT ![f] = "SCHEDULED"]
  <1>1. /\ AtFuture(f) /\ Executable(f) /\ run[f] # "NONE" /\ f \notin Standalone
        /\ pc = "pass" /\ work = {} /\ InlineOut = {} /\ fut[f].state \in {"CREATED", "RETRYING"}
        /\ CalledInline(f) /\ fut \in Futures
    BY DEF RunInline, AtFuture, Executable, CalledInline, Now, InlineInv,
           InlineOnlyWhileExecuting, Active, TypeOK, Futures
  <1>2. /\ F \in Futures /\ SameView(fut, F) /\ F[f].state = "SCHEDULED"
        /\ F[f].value = fut[f].value /\ F[f].kwargs = fut[f].kwargs
        /\ F[f].parent = fut[f].parent /\ F[f].nested = fut[f].nested
        /\ \A g \in Ids \ {f} : F[g] = fut[g]
    <2>1. "SCHEDULED" \in FutureState
      BY DEF FutureState
    <2> QED
      BY <1>1, <2>1, SetStateFields, SetStateView
  <1>3. R \in Rows /\ \A g \in Ids \ {f} : R[g] = run[g]
    BY DEF Now, TypeOK, Rows, FutureState
  <1>4. \A r \in {f} \cup Ancestors(F, f) : r \in Ids /\ F[r].state # "NONE"
    <2>1. ParentsMade(F)
      <3>1. \A g \in Ids : fut[g].parent \in Ids \cup {NoFuture}
        BY <1>1 DEF Futures, FutureObject
      <3> QED
        BY <1>2, <3>1 DEF SameView, Now, DataInv, FutureInv, ParentMade, ParentsMade
    <2> QED
      BY <1>2, <2>1, AncestorsMade
  <1>5. /\ AtFuture(f) /\ Executable(f) /\ run[f] # "NONE" /\ f \notin Standalone
        /\ \/ /\ fut' = F /\ SaveRuns(R) /\ pc' = "executing" /\ current' = f
              /\ UNCHANGED <<work, armed>>
           \/ \E r \in {f} \cup Ancestors(F, f), retriable, again \in BOOLEAN :
                /\ Expired(F, r)
                /\ \/ PipelineRunDidFail(FailFutureAndParents(F, r), FailRunAndParents(F, R, r),
                                         "PipelineRunError")
                   \/ /\ ShouldRetry(F, r, retriable)
                      /\ HandleFutureFailure(MarkForRetry(F, r), [R EXCEPT ![r] = "RETRYING"],
                                             f, again, Advance(TRUE))
           \/ PipelineRunDidFail(F, R, "NotImplementedError")
           \/ \E retriable \in BOOLEAN :
                HandleFutureFailure(F, R, f, retriable, Advance(TRUE))
    BY DEF RunInline
  <1> HIDE DEF F, R
  <1>6. Kept /\ Advance(TRUE) => Goes
    BY <1>1, RestGoes DEF Advance
  <1>7. CASE /\ fut' = F /\ SaveRuns(R) /\ pc' = "executing" /\ current' = f
             /\ UNCHANGED <<work, armed>>
    BY <1>1, <1>7, CallInlineGoes DEF F, R
  <1>8. ASSUME NEW r \in {f} \cup Ancestors(F, f), NEW retriable, NEW again, Expired(F, r),
               ShouldRetry(F, r, retriable),
               HandleFutureFailure(MarkForRetry(F, r), [R EXCEPT ![r] = "RETRYING"],
                                   f, again, Advance(TRUE))
        PROVE  Goes \/ GivesUp
    <2> DEFINE G == MarkForRetry(F, r)
    <2>1. r \in Ids
      BY <1>4, <1>8
    <2>2. G \in Futures /\ SameView(fut, G)
      BY <1>2, <1>4, <1>8, <2>1, RetryView, SameViewTwice
    <2>3. r # f => r \notin Standalone /\ fut[r].state \in {"RAN", "RETRYING"}
      <3> SUFFICES ASSUME r # f PROVE r \notin Standalone /\ fut[r].state \in {"RAN", "RETRYING"}
        OBVIOUS
      <3>1. F[r] = fut[r] /\ fut[r].clock # "off" /\ ~ IsTerminal(fut[r].state)
        BY <1>2, <1>8, <2>1 DEF Expired, Limited
      <3>2. r \in Timed /\ fut[r].state \notin {"NONE", "CREATED"}
        BY <2>1, <3>1 DEF Now, DataInv, FutureInv, ClockRuns
      <3>3. Retries[r] > 0
        <4>1. Retries[r] \in Nat /\ F[r].retry_count \in Nat
          BY <1>2, <2>1, ConstantsAssumption DEF Futures, FutureObject
        <4> QED
          BY <1>8, <4>1 DEF ShouldRetry
      <3> QED
        BY <1>1, <2>1, <3>1, <3>2, <3>3, LateRetried
    <2>4. \/ /\ fut' = MarkForRetry(G, f) /\ Advance(TRUE)
             /\ SaveRuns([[R EXCEPT ![r] = "RETRYING"] EXCEPT ![f] = "RETRYING"])
          \/ PipelineRunDidFail(FailFutureAndParents(G, f),
               FailRunAndParents(G, [R EXCEPT ![r] = "RETRYING"], f), "PipelineRunError")
      BY <1>8 DEF HandleFutureFailure
    <2>5. CASE PipelineRunDidFail(FailFutureAndParents(G, f),
                 FailRunAndParents(G, [R EXCEPT ![r] = "RETRYING"], f), "PipelineRunError")
      <3> HIDE DEF G
      <3> QED
        BY <1>1, <2>2, <2>5, FailureGivesUp DEF Now
    <2>6. CASE /\ fut' = MarkForRetry(G, f) /\ Advance(TRUE)
               /\ SaveRuns([[R EXCEPT ![r] = "RETRYING"] EXCEPT ![f] = "RETRYING"])
      BY <1>1, <1>2, <1>3, <1>6, <2>1, <2>3, <2>6, TwoRetriesGo
    <2> QED
      BY <2>4, <2>5, <2>6
  <1>9. ASSUME NEW r \in {f} \cup Ancestors(F, f),
               PipelineRunDidFail(FailFutureAndParents(F, r), FailRunAndParents(F, R, r),
                                  "PipelineRunError")
        PROVE  GivesUp
    BY <1>2, <1>4, <1>9, FailureGivesUp DEF Now, SameView
  <1>10. CASE PipelineRunDidFail(F, R, "NotImplementedError")
    BY <1>2, <1>10, DidFailGivesUp
  <1>11. ASSUME NEW retriable, HandleFutureFailure(F, R, f, retriable, Advance(TRUE))
         PROVE  Goes \/ GivesUp
    <2>1. \/ /\ fut' = MarkForRetry(F, f) /\ Advance(TRUE)
             /\ SaveRuns([R EXCEPT ![f] = "RETRYING"])
          \/ PipelineRunDidFail(FailFutureAndParents(F, f), FailRunAndParents(F, R, f),
                                "PipelineRunError")
      BY <1>11 DEF HandleFutureFailure
    <2> QED
      BY <1>1, <1>2, <1>3, <1>6, <1>9, <2>1, RetryGoes
  <1> QED
    BY <1>5, <1>7, <1>8, <1>9, <1>10, <1>11

\* The function that is executed is that of an inline future.
LEMMA Executing ==
  ASSUME Now, pc = "executing"
  PROVE  current \in Ids /\ fut[current].state = "SCHEDULED" /\ CalledInline(current) /\ work = {}
  BY DEF Now, CurrentKnown, CurrentInv, CalledInline, InlineInv

LEMMA ReturnsValueGoes == ASSUME Now, FunctionReturnsValue PROVE Goes
  <1>1. current \in Ids /\ fut[current].state = "SCHEDULED" /\ CalledInline(current) /\ work = {}
    BY Executing DEF FunctionReturnsValue
  <1>2. fut' = Resolved(fut, current)
    BY DEF FunctionReturnsValue, Resolved
  <1> QED
    BY <1>1, <1>2, ValueGoes DEF FunctionReturnsValue

LEMMA RaisesGoes == ASSUME Now, FunctionRaises PROVE Goes \/ GivesUp
  <1>1. current \in Ids /\ fut[current].state = "SCHEDULED" /\ CalledInline(current) /\ work = {}
    BY Executing DEF FunctionRaises
  <1>2. fut \in Futures /\ run \in Rows /\ SameView(fut, fut)
    BY DEF Now, TypeOK, Futures, Rows, SameView
  <1>3. \/ /\ fut' = MarkForRetry(fut, current) /\ SaveRuns([run EXCEPT ![current] = "RETRYING"])
           /\ Advance(TRUE)
        \/ \E R, e : PipelineRunDidFail(FailFutureAndParents(fut, current), R, e)
    BY DEF FunctionRaises, HandleFutureFailure
  <1>4. CASE \E R, e : PipelineRunDidFail(FailFutureAndParents(fut, current), R, e)
    BY <1>1, <1>2, <1>4, FailureGivesUp DEF Now
  <1>5. CASE /\ fut' = MarkForRetry(fut, current) /\ SaveRuns([run EXCEPT ![current] = "RETRYING"])
             /\ Advance(TRUE)
    BY <1>1, <1>2, <1>5, RetryGoes, RestGoes DEF Advance
  <1> QED
    BY <1>3, <1>4, <1>5

LEMMA TimesOutGoes == ASSUME Now, FunctionTimesOut PROVE Goes \/ GivesUp
  <1>1. current \in Ids /\ fut[current].state = "SCHEDULED" /\ CalledInline(current) /\ work = {}
    BY Executing DEF FunctionTimesOut
  <1>2. fut \in Futures /\ run \in Rows /\ SameView(fut, fut)
    BY DEF Now, TypeOK, Futures, Rows, SameView
  <1> DEFINE G == MarkForRetry(fut, current)
  <1>3. G \in Futures /\ SameView(fut, G)
    BY <1>1, <1>2, RetryView
  <1>4. \/ \E R, e : PipelineRunDidFail(FailFutureAndParents(fut, current), R, e)
        \/ \E R, e : PipelineRunDidFail(FailFutureAndParents(G, current), R, e)
        \/ /\ fut' = MarkForRetry(G, current) /\ Advance(TRUE)
           /\ SaveRuns([[run EXCEPT ![current] = "RETRYING"] EXCEPT ![current] = "RETRYING"])
    <2>1. ASSUME NEW retriable, HandleFutureFailure(fut, run, current, retriable, FALSE)
          PROVE  \E R, e : PipelineRunDidFail(FailFutureAndParents(fut, current), R, e)
      BY <2>1 DEF HandleFutureFailure
    <2>2. ASSUME NEW again,
                 HandleFutureFailure(G, [run EXCEPT ![current] = "RETRYING"], current, again,
                                     Advance(TRUE))
          PROVE  \/ \E R, e : PipelineRunDidFail(FailFutureAndParents(G, current), R, e)
                 \/ /\ fut' = MarkForRetry(G, current) /\ Advance(TRUE)
                    /\ SaveRuns([[run EXCEPT ![current] = "RETRYING"] EXCEPT ![current] = "RETRYING"])
      BY <2>2 DEF HandleFutureFailure
    <2> QED
      BY <2>1, <2>2 DEF FunctionTimesOut
  <1>5. ASSUME NEW H \in Futures, SameView(fut, H), NEW R, NEW e,
               PipelineRunDidFail(FailFutureAndParents(H, current), R, e)
        PROVE  GivesUp
    BY <1>1, <1>5, FailureGivesUp DEF Now
  <1>6. CASE /\ fut' = MarkForRetry(G, current) /\ Advance(TRUE)
             /\ SaveRuns([[run EXCEPT ![current] = "RETRYING"] EXCEPT ![current] = "RETRYING"])
    <2>1. Kept
      BY <1>1, <1>2, <1>6, TwoRetriesGo
    <2> QED
      BY <1>1, <1>6, <2>1, RestGoes DEF Advance
  <1> HIDE DEF G
  <1> QED
    BY <1>2, <1>3, <1>4, <1>5, <1>6

\* What the function returned is saved, with the rows of its futures.
LEMMA DidRunGoes == ASSUME Now, FutureDidRun PROVE Goes
  <1>0. PICK c \in Ids : c = current
    BY DEF FutureDidRun, Now, CurrentKnown
  <1>1. /\ fut[c].state = "SCHEDULED" /\ fut[c].nested # NoFuture
        /\ fut \in Futures /\ run \in Rows
    BY <1>0 DEF FutureDidRun, Now, CurrentKnown, CurrentInv, TypeOK, Futures, Rows
  <1>2. /\ fut'[c].state = "RAN" /\ fut'[c].value = fut[c].value
        /\ fut'[c].kwargs = fut[c].kwargs /\ fut'[c].parent = fut[c].parent
        /\ fut'[c].nested = fut[c].nested
        /\ fut'[c].clock # "off" => fut[c].clock # "off"
        /\ \A g \in Ids \ {c} : fut'[g] = fut[g]
    <2>1. "RAN" \in FutureState
      BY DEF FutureState
    <2>2. fut' = SetState(fut, c, "RAN")
      BY <1>0 DEF FutureDidRun
    <2> QED
      BY <1>1, <2>1, <2>2, SetStateFields
  <1>3. run' = NestedRuns(c) /\ \A g \in Ids : Out(g)' = Out(g)
    BY <1>0, SavedRows DEF FutureDidRun, Now
  <1>4. \A g \in Ids : run'[g] = IF g = c THEN "RAN"
                                 ELSE IF fut[g].parent = c /\ run[g] = "NONE" THEN "CREATED"
                                 ELSE run[g]
    BY <1>3 DEF NestedRuns
  <1>5. HasRun(c)
    BY <1>1, <1>2, <1>3, <1>4 DEF HasRun
  <1>6. ASSUME NEW g \in Ids \ {c} PROVE Moves(g)
    <2>1. CASE fut[g].parent = c /\ run[g] = "NONE"
      <3>1. fut[g].state # "NONE"
        <4>1. NotMade.parent = NoFuture /\ c # NoFuture
          BY <1>1, RootInIds DEF NotMade, NewFuture
        <4> QED
          BY <2>1, <4>1 DEF Now, DataInv, FutureInv, Agrees
      <3>2. GetsRow(g)
        BY <1>1, <1>2, <1>3, <1>4, <1>5, <2>1, <3>1 DEF GetsRow, SameState, HasRun
      <3> QED
        BY <3>2 DEF Moves
    <2>2. CASE ~ (fut[g].parent = c /\ run[g] = "NONE")
      BY <1>2, <1>3, <1>4, <2>2 DEF Moves, Stays, SameState
    <2> QED
      BY <2>1, <2>2
  <1>7. Kept
    BY <1>1, <1>2, <1>5, <1>6
       DEF Kept, SameGraph, ClocksKept, UnmadeKept, OneValue, Moves
  <1>8. CASE work = {} /\ Advance(TRUE)
    BY <1>7, <1>8, RestGoes DEF Advance
  <1>9. CASE pc' = "processing" /\ work' = work \ {current} /\ armed' = armed
    <2>1. WorkInv'
      BY <1>0, <1>2, <1>9 DEF WorkInv, Now, TypeOK
    <2> QED
      BY <1>7, <1>9, <2>1, ArmedKept DEF Goes, CurrentInv, Now, DownInv, Ended
  <1> QED
    BY <1>8, <1>9 DEF FutureDidRun

\* A timeout ends a future that may be retried, and the runner returns to its loop.
LEMMA LateGoes ==
  ASSUME Now, JobsEndBeforeRetries, NEW f \in Ids, InlineOut = {},
         f \in Timed, fut[f].state \notin {"NONE", "CREATED"}, ~ IsTerminal(fut[f].state),
         NEW retriable, HandleFutureFailure(fut, run, f, retriable, BackToLoop)
  PROVE  Goes \/ GivesUp
  <1>1. fut \in Futures /\ run \in Rows /\ SameView(fut, fut)
    BY DEF Now, TypeOK, Futures, Rows, SameView
  <1>2. \/ /\ ShouldRetry(fut, f, retriable) /\ fut' = MarkForRetry(fut, f)
           /\ SaveRuns([run EXCEPT ![f] = "RETRYING"]) /\ BackToLoop
        \/ PipelineRunDidFail(FailFutureAndParents(fut, f), FailRunAndParents(fut, run, f),
                              "PipelineRunError")
    BY DEF HandleFutureFailure
  <1>3. CASE PipelineRunDidFail(FailFutureAndParents(fut, f), FailRunAndParents(fut, run, f),
                                "PipelineRunError")
    BY <1>1, <1>3, FailureGivesUp DEF Now
  <1>4. CASE /\ ShouldRetry(fut, f, retriable) /\ fut' = MarkForRetry(fut, f)
             /\ SaveRuns([run EXCEPT ![f] = "RETRYING"]) /\ BackToLoop
    <2>1. Retries[f] > 0
      <3>1. Retries[f] \in Nat /\ fut[f].retry_count \in Nat
        BY <1>1, ConstantsAssumption DEF Futures, FutureObject
      <3> QED
        BY <1>4, <3>1 DEF ShouldRetry
    <2>2. f \notin Standalone /\ fut[f].state \in {"RAN", "RETRYING"}
      BY <2>1, LateRetried
    <2> QED
      BY <1>1, <1>4, <2>2, RetryGoes, RestGoes DEF BackToLoop
  <1> QED
    BY <1>2, <1>3, <1>4

LEMMA WaitTimesOutGoes ==
  ASSUME Now, JobsEndBeforeRetries, WaitTimesOut PROVE Goes \/ GivesUp
  <1>1. PICK f \in Ids, retriable \in BOOLEAN :
          Expired(fut, f) /\ HandleFutureFailure(fut, run, f, retriable, BackToLoop)
    BY DEF WaitTimesOut
  <1>2. fut[f].clock # "off" /\ ~ IsTerminal(fut[f].state)
    BY <1>1 DEF Expired, Limited
  <1>3. f \in Timed /\ fut[f].state \notin {"NONE", "CREATED"}
    BY <1>2 DEF Now, DataInv, FutureInv, ClockRuns
  <1>4. InlineOut = {}
    BY DEF WaitTimesOut, Now, InlineInv, InlineOnlyWhileExecuting, Active
  <1> QED
    BY <1>1, <1>2, <1>3, <1>4, LateGoes

LEMMA AlarmGoes ==
  ASSUME Now, JobsEndBeforeRetries, AlarmInterrupts PROVE Goes \/ GivesUp
  <1>1. /\ pc \in {"processing", "nesting"} /\ InlineOut = {}
        /\ armed \in Ids /\ armed \in Timed /\ fut[armed].state \notin {"NONE", "CREATED"}
    BY DEF AlarmInterrupts, Now, InlineInv, InlineOnlyWhileExecuting, Active, TypeOK, ArmedInv
  <1>2. CASE BackToLoop /\ UNCHANGED <<memory, server>>
    BY <1>2, NothingMoves, RestGoes DEF BackToLoop, memory, server
  <1>3. ASSUME ~ IsTerminal(fut[armed].state), NEW retriable,
               HandleFutureFailure(fut, run, armed, retriable, BackToLoop)
        PROVE  Goes \/ GivesUp
    BY <1>1, <1>3, LateGoes
  <1> QED
    BY <1>2, <1>3 DEF AlarmInterrupts

\* The output of a job, when it is no future.
ProcessOne(f) ==
  \/ /\ run[f] = "RESOLVED"
     /\ fut' = Resolved(fut, f) /\ work' = work \ {f}
     /\ UNCHANGED <<server, pc, current, armed>>
  \/ /\ run[f] \notin {"RESOLVED", "RAN"}
     /\ \E retriable \in BOOLEAN :
          /\ retriable => run[f] = "FAILED"
          /\ HandleFutureFailure(fut, run, f, retriable,
               /\ work' = work \ {f}
               /\ UNCHANGED <<pc, cursor, changed, current, armed, error>>)

LEMMA ProcessOneGoes ==
  ASSUME Now, pc = "processing", NEW f \in work, ProcessOne(f)
  PROVE  Goes \/ GivesUp
  <1>1. f \in Ids /\ f \in Standalone /\ fut[f].state = "SCHEDULED"
    BY DEF Now, WorkInv, TypeOK
  <1>2. fut \in Futures /\ run \in Rows /\ SameView(fut, fut)
    BY DEF Now, TypeOK, Futures, Rows, SameView
  <1>3. ASSUME Kept, \A g \in Ids \ {f} : SameState(g), work' = work \ {f},
               UNCHANGED <<pc, armed>>
        PROVE  Goes
    <2>1. WorkInv'
      BY <1>3 DEF WorkInv, Now, TypeOK, SameState
    <2> QED
      BY <1>3, <2>1, ArmedKept DEF Goes, CurrentInv, Now, DownInv, Ended
  <1>4. CASE /\ run[f] = "RESOLVED" /\ fut' = Resolved(fut, f) /\ work' = work \ {f}
             /\ UNCHANGED <<server, pc, armed>>
    <2>1. run' = [run EXCEPT ![f] = "RESOLVED"] /\ \A g \in Ids : Out(g)' = Out(g)
      BY <1>2, <1>4 DEF Rows, server, Out
    <2> QED
      BY <1>1, <1>3, <1>4, <2>1, ValueMoves DEF Now
  <1>5. ASSUME NEW retriable, retriable => run[f] = "FAILED",
               HandleFutureFailure(fut, run, f, retriable,
                 /\ work' = work \ {f}
                 /\ UNCHANGED <<pc, cursor, changed, current, armed, error>>)
        PROVE  Goes \/ GivesUp
    <2>1. \/ /\ run[f] = "FAILED" /\ fut' = MarkForRetry(fut, f)
             /\ SaveRuns([run EXCEPT ![f] = "RETRYING"])
             /\ work' = work \ {f} /\ UNCHANGED <<pc, armed>>
          \/ PipelineRunDidFail(FailFutureAndParents(fut, f), FailRunAndParents(fut, run, f),
                                "PipelineRunError")
      BY <1>5 DEF HandleFutureFailure, ShouldRetry
    <2>2. CASE PipelineRunDidFail(FailFutureAndParents(fut, f), FailRunAndParents(fut, run, f),
                                  "PipelineRunError")
      BY <1>1, <1>2, <2>2, FailureGivesUp DEF Now
    <2>3. CASE /\ run[f] = "FAILED" /\ fut' = MarkForRetry(fut, f)
               /\ SaveRuns([run EXCEPT ![f] = "RETRYING"])
               /\ work' = work \ {f} /\ UNCHANGED <<pc, armed>>
      BY <1>1, <1>2, <1>3, <2>3, RetryGoes
    <2> QED
      BY <2>1, <2>2, <2>3
  <1> QED
    BY <1>4, <1>5 DEF ProcessOne

LEMMA CancelGoes == ASSUME Now, CancelSignal PROVE GivesUp
  BY CanceledView DEF CancelSignal, Ends, GivesUp, Now

\* The signal cancels what has a run, and then takes itself for a failure of
\* the function that is executed.
LEMMA CancelFailsGoes == ASSUME Now, CancelSignalFails PROVE Goes \/ GivesUp
  <1>1. CanceledFutures \in Futures /\ SameView(fut, CanceledFutures) /\ fut \in Futures
    BY CanceledView DEF Now, TypeOK, Futures
  <1>2. CASE PipelineRunDidFail(CanceledFutures, CancelNonTerminal(run), "ResourceNotFoundError")
    BY <1>1, <1>2, DidFailGivesUp
  <1>3. ASSUME pc = "executing" \/ (pc = "nesting" /\ work = {}), NEW retriable, ~ RunsRemotely,
               HandleFutureFailure(CanceledFutures, CancelNonTerminal(run), current, retriable,
                                   Advance(TRUE))
        PROVE  Goes \/ GivesUp
    <2>1. PICK c \in Ids : c = current
      BY <1>3 DEF Now, CurrentKnown
    <2>2. fut[c].state = "SCHEDULED" /\ c \notin Standalone /\ CalledInline(c) /\ work = {}
      BY <1>3, <2>1 DEF Now, CurrentInv, CalledInline, InlineInv
    <2>3. \/ /\ fut' = MarkForRetry(CanceledFutures, c) /\ Advance(TRUE)
             /\ SaveRuns([CancelNonTerminal(run) EXCEPT ![c] = "RETRYING"])
          \/ \E R, e : PipelineRunDidFail(FailFutureAndParents(CanceledFutures, c), R, e)
      BY <1>3, <2>1 DEF HandleFutureFailure
    <2>4. CASE \E R, e : PipelineRunDidFail(FailFutureAndParents(CanceledFutures, c), R, e)
      BY <1>1, <2>2, <2>4, FailureGivesUp DEF Now
    <2>5. CASE /\ fut' = MarkForRetry(CanceledFutures, c) /\ Advance(TRUE)
               /\ SaveRuns([CancelNonTerminal(run) EXCEPT ![c] = "RETRYING"])
      <3>1. /\ fut'[c].state = "RETRYING" /\ fut'[c].value = CanceledFutures[c].value
            /\ fut'[c].clock = "off"
            /\ fut'[c].kwargs = CanceledFutures[c].kwargs
            /\ fut'[c].parent = CanceledFutures[c].parent
            /\ fut'[c].nested = CanceledFutures[c].nested
            /\ \A g \in Ids \ {c} : fut'[g] = CanceledFutures[g]
        BY <1>1, <2>5, MarkForRetryFields
      <3>2. /\ run'[c] = "RETRYING" /\ \A g \in Ids : Out(g)' = Out(g)
            /\ \A g \in Ids \ {c} :
                 run'[g] = IF run[g] = "NONE" \/ IsTerminal(run[g]) THEN run[g] ELSE "CANCELED"
        <4> DEFINE R == CancelNonTerminal(run)
        <4>1. R \in Rows
          BY TerminalRowsType DEF Now, TypeOK, Rows
        <4>2. \A g \in Ids :
                R[g] = IF run[g] = "NONE" \/ IsTerminal(run[g]) THEN run[g] ELSE "CANCELED"
          BY DEF CancelNonTerminal
        <4> HIDE DEF R
        <4>3. run' = [R EXCEPT ![c] = "RETRYING"] /\ \A g \in Ids : Out(g)' = Out(g)
          BY <2>5, SavedRows DEF Now, R
        <4> QED
          BY <4>1, <4>2, <4>3 DEF Rows
      <3>3. SameGraph /\ \A g \in Ids : fut'[g].value = fut[g].value
        BY <1>1, <3>1 DEF SameGraph, SameView
      <3>4. Moves(c)
        BY <2>2, <3>1, <3>2, <3>3 DEF Moves, IsRetried
      <3>5. ASSUME NEW g \in Ids \ {c}
            PROVE  /\ Moves(g)
                   /\ fut'[g].clock # "off" => fut[g].clock # "off"
                   /\ fut[g].state = "NONE" => fut'[g] = fut[g]
        <4>1. CASE run[g] = "NONE" \/ IsTerminal(run[g])
          <5>1. fut'[g] = fut[g]
            BY <3>1, <4>1 DEF CanceledFutures
          <5> QED
            BY <3>2, <3>3, <4>1, <5>1 DEF Moves, IsCanceled
        <4>2. CASE ~ (run[g] = "NONE" \/ IsTerminal(run[g]))
          <5> DEFINE C == SetState(fut, g, "CANCELED")
          <5>1. fut'[g] = C[g]
            BY <3>1, <4>2 DEF CanceledFutures
          <5>2. C[g].state = "CANCELED" /\ C[g].clock = "off"
            <6>1. "CANCELED" \in FutureState
              BY DEF FutureState
            <6> QED
              BY <1>1, <6>1, SetStateFields
          <5> HIDE DEF C
          <5>3. fut[g].state \notin {"NONE", "RESOLVED"}
            BY <4>2 DEF Now, DataInv, FutureInv, Agrees, IsTerminal, TerminalStates
          <5>4. Moves(g)
            BY <1>3, <3>2, <3>3, <4>2, <5>1, <5>2, <5>3 DEF Moves, IsCanceled
          <5> QED
            BY <5>1, <5>2, <5>3, <5>4
        <4> QED
          BY <4>1, <4>2
      <3>6. Kept
        BY <2>2, <3>1, <3>3, <3>4, <3>5 DEF Kept, ClocksKept, UnmadeKept, OneValue
      <3> QED
        BY <2>2, <2>5, <3>6, RestGoes DEF Advance
    <2> QED
      BY <2>3, <2>4, <2>5
  <1> QED
    BY <1>2, <1>3 DEF CancelSignalFails

\* The server cancels the pipeline run, and the runner does not know it yet.
LEMMA ServerCancelsGoes == ASSUME Now, ServerCancels PROVE Goes
  <1>1. fut' = fut /\ UNCHANGED <<pc, work, current, armed>>
    BY DEF ServerCancels, memory, control
  <1>2. run' = CancelNonTerminal(run) /\ \A g \in Ids : Out(g)' = Out(g)
    BY SavedRows DEF ServerCancels, Now
  <1>3. \A g \in Ids : Moves(g)
    BY <1>1, <1>2 DEF CancelNonTerminal, Moves, IsCanceled
  <1>4. Kept /\ \A g \in Ids : SameState(g)
    BY <1>1, <1>3 DEF Kept, SameGraph, ClocksKept, UnmadeKept, OneValue, SameState
  <1> QED
    BY <1>1, <1>4, WorldGoes

LEMMA EvictGoes == ASSUME Now, Evict PROVE Goes
  BY NothingMoves, WorldGoes DEF Evict, memory, server

LEMMA WorkerGoes == ASSUME Now, NEW f \in Ids, WorkerEnds(f) \/ PodKilled(f) PROVE Goes
  <1>1. fut' = fut /\ UNCHANGED <<pc, work, current, armed>>
    BY DEF WorkerEnds, PodKilled, memory, control
  <1>2. jobs \in [Ids -> [live : Nat, doomed : Nat]] /\ run \in Rows
    BY DEF Now, TypeOK, Rows
  <1>3. jobs[f] \in [live : Nat, doomed : Nat]
    BY <1>2
  <1>4. CASE WorkerEnds(f)
    <2>1. PICK outcome \in {"RESOLVED", "RAN", "FAILED"}, doomed \in BOOLEAN :
            LET left == IF doomed THEN [jobs[f] EXCEPT !.doomed = @ - 1]
                        ELSE [jobs[f] EXCEPT !.live = @ - 1]
            IN  /\ IF doomed THEN jobs[f].doomed > 0 ELSE jobs[f].live > 0
                /\ run' = [run EXCEPT ![f] = outcome]
                /\ jobs' = [jobs EXCEPT ![f] =
                              IF outcome = "RAN" THEN left
                              ELSE [live |-> 0, doomed |-> left.live + left.doomed]]
      BY <1>4 DEF WorkerEnds
    <2> DEFINE left == IF doomed THEN [jobs[f] EXCEPT !.doomed = @ - 1]
                       ELSE [jobs[f] EXCEPT !.live = @ - 1]
    <2>2. left.live + left.doomed = Out(f) - 1 /\ Out(f) > 0
      BY <1>3, <2>1 DEF Out
    <2>3. jobs'[f] = IF outcome = "RAN" THEN left
                     ELSE [live |-> 0, doomed |-> left.live + left.doomed]
      BY <1>2, <2>1
    <2>4. left.live \in Int /\ left.doomed \in Int
      BY <1>3
    <2> HIDE DEF left
    <2>5. Out(f)' = Out(f) - 1
      BY <2>2, <2>3, <2>4 DEF Out
    <2>6. run'[f] \in {"RESOLVED", "RAN", "FAILED"}
          /\ \A g \in Ids \ {f} : run'[g] = run[g] /\ Out(g)' = Out(g)
      BY <1>2, <2>1 DEF Rows, Out
    <2>7. \A g \in Ids : Moves(g)
      BY <1>1, <2>2, <2>5, <2>6 DEF Moves, WorkerLeaves, Stays, SameState
    <2>8. Kept /\ \A g \in Ids : SameState(g)
      BY <1>1, <2>7 DEF Kept, SameGraph, ClocksKept, UnmadeKept, OneValue, SameState
    <2> QED
      BY <1>1, <2>8, WorldGoes
  <1>5. CASE PodKilled(f)
    <2>1. Out(f) > 0 /\ Out(f)' = Out(f) - 1
      <3>1. jobs[f].doomed > 0 /\ jobs'[f] = [jobs[f] EXCEPT !.doomed = @ - 1]
        BY <1>2, <1>5 DEF PodKilled
      <3> QED
        BY <1>3, <3>1 DEF Out
    <2>2. run' = run /\ \A g \in Ids \ {f} : Out(g)' = Out(g)
      BY <1>2, <1>5 DEF PodKilled, Out
    <2>3. \A g \in Ids : Moves(g)
      BY <1>1, <2>1, <2>2 DEF Moves, WorkerLeaves, Stays, SameState
    <2>4. Kept /\ \A g \in Ids : SameState(g)
      BY <1>1, <2>3 DEF Kept, SameGraph, ClocksKept, UnmadeKept, OneValue, SameState
    <2> QED
      BY <1>1, <2>4, WorldGoes
  <1> QED
    BY <1>4, <1>5

LEMMA TimePassesGoes == ASSUME Now, NEW f \in Ids, TimePasses(f) PROVE Goes
  <1>1. /\ fut[f].clock = "on" /\ fut' = [fut EXCEPT ![f].clock = "expired"]
        /\ UNCHANGED <<run, jobs, pc, work, current, armed>>
    BY DEF TimePasses, server, control
  <1>2. fut \in Futures /\ fut[f] \in FutureObject
    BY Zenon DEF Now, TypeOK, Futures
  <1>3. /\ fut'[f] = [fut[f] EXCEPT !.clock = "expired"]
        /\ \A g \in Ids \ {f} : fut'[g] = fut[g]
    BY <1>1, <1>2 DEF Futures
  <1>4. /\ fut'[f].state = fut[f].state /\ fut'[f].value = fut[f].value
        /\ fut'[f].kwargs = fut[f].kwargs /\ fut'[f].parent = fut[f].parent
        /\ fut'[f].nested = fut[f].nested
    BY <1>2, <1>3 DEF FutureObject
  <1>5. fut[f].state # "NONE"
    <2>1. NotMade.clock = "off"
      BY DEF NotMade, NewFuture
    <2> QED
      BY <1>1, <2>1 DEF Now, DataInv, FutureInv, Agrees
  <1>6. \A g \in Ids : SameState(g) /\ Moves(g)
    BY <1>1, <1>3, <1>4 DEF Moves, Stays, SameState, Out
  <1>7. Kept
    BY <1>1, <1>3, <1>4, <1>5, <1>6
       DEF Kept, SameGraph, ClocksKept, UnmadeKept, OneValue, SameState
  <1> QED
    BY <1>1, <1>6, <1>7, WorldGoes

-----------------------------------------------------------------------------
(* A function returns futures. *)

\* The step makes the futures S, with the arguments kw, and puts top, one of
\* them, behind f.
AddsFutures(f, S, top, kw) ==
  /\ \A g \in S : kw[g] \subseteq S \ {g}
  /\ \A g \in S : /\ fut'[g].state = "CREATED" /\ ~ fut'[g].value
                  /\ fut'[g].kwargs = kw[g] /\ fut'[g].nested = NoFuture
                  /\ fut'[g].parent = f
  /\ \A g \in Ids \ S : /\ fut'[g].state = fut[g].state /\ fut'[g].value = fut[g].value
                        /\ fut'[g].kwargs = fut[g].kwargs
                        /\ fut'[g].nested = IF g = f THEN top ELSE fut[g].nested
  /\ fut[f].state = "SCHEDULED"

LEMMA NestedGoes ==
  ASSUME Now, NEW f \in Ids, SetNestedFuture(f),
         \/ pc = "executing" /\ f = current
         \/ pc = "processing" /\ f \in work /\ run[f] = "RAN"
  PROVE  /\ DataInv' /\ CurrentInv' /\ WorkInv' /\ ArmedInv' /\ DownInv'
         /\ pc' \notin Ended
         /\ \E S \in SUBSET Unmade : \E top \in S : \E kw \in [S -> SUBSET S] :
              AddsFutures(f, S, top, kw)
  <1>1. PICK top \in Unmade :
          \E kw \in [Made(top) -> SUBSET Made(top)],
             order \in [1..Cardinality(Made(top)) -> Made(top)] :
            IsSubgraph(Made(top), top, kw) /\ Enqueue(f, top, kw, order)
    BY Zenon DEF SetNestedFuture
  <1>2. PICK kw \in [Made(top) -> SUBSET Made(top)],
             order \in [1..Cardinality(Made(top)) -> Made(top)] :
          IsSubgraph(Made(top), top, kw) /\ Enqueue(f, top, kw, order)
    BY <1>1, Zenon
  <1> DEFINE S == Made(top)
  <1>3. S \subseteq Unmade /\ S \subseteq Ids /\ top \in S /\ top # NoFuture
    BY ConstantsAssumption DEF Made, Unmade, Ids, NoFuture
  <1>4. kw \in [S -> SUBSET S] /\ \A g \in S : kw[g] \subseteq S \ {g}
    <2>1. S \subseteq Nat
      BY <1>3, ConstantsAssumption DEF Ids
    <2> QED
      BY <1>2, <2>1 DEF IsSubgraph
  <1>5. \A g \in Ids : fut'[g] = IF g \in S THEN [NewFuture EXCEPT !.kwargs = kw[g], !.parent = f]
                                 ELSE IF g = f THEN [fut[f] EXCEPT !.nested = top] ELSE fut[g]
    BY <1>2 DEF Enqueue
  <1> HIDE DEF S
  <1>6. UNCHANGED <<run, jobs, work, armed>> /\ pc' = "nesting" /\ current' = f
    BY DEF SetNestedFuture, server
  <1>7. fut[f].state = "SCHEDULED" /\ ~ fut[f].value /\ f \notin S
    BY <1>3 DEF Now, CurrentInv, WorkInv, DataInv, FutureInv, Agrees, Unmade
  <1>8. \A g \in S : /\ fut'[g].state = "CREATED" /\ fut'[g].value = FALSE /\ fut'[g].parent = f
                     /\ fut'[g].kwargs = kw[g] /\ fut'[g].nested = NoFuture
                     /\ fut'[g].clock = "off" /\ run[g] = "NONE" /\ fut[g].state = "NONE"
    <2> SUFFICES ASSUME NEW g \in S
                 PROVE  /\ fut'[g].state = "CREATED" /\ fut'[g].value = FALSE
                        /\ fut'[g].parent = f
                        /\ fut'[g].kwargs = kw[g] /\ fut'[g].nested = NoFuture
                        /\ fut'[g].clock = "off" /\ run[g] = "NONE" /\ fut[g].state = "NONE"
      OBVIOUS
    <2>1. fut'[g] = [NewFuture EXCEPT !.kwargs = kw[g], !.parent = f]
      BY <1>3, <1>5
    <2>2. run[g] = "NONE" /\ fut[g].state = "NONE"
      BY <1>3 DEF Unmade, Now, DataInv, FutureInv, Agrees
    <2> QED
      BY <2>1, <2>2 DEF NewFuture
  <1>9. \A g \in Ids \ S :
          /\ fut'[g].state = fut[g].state /\ fut'[g].value = fut[g].value
          /\ fut'[g].kwargs = fut[g].kwargs /\ fut'[g].parent = fut[g].parent
          /\ fut'[g].clock = fut[g].clock
          /\ fut'[g].nested = IF g = f THEN top ELSE fut[g].nested
    <2>1. fut[f] \in FutureObject
      BY DEF Now, TypeOK
    <2>2. fut'[f] = [fut[f] EXCEPT !.nested = top]
      BY <1>5, <1>7
    <2>3. \A g \in Ids \ (S \cup {f}) : fut'[g] = fut[g]
      BY <1>5
    <2>4. /\ fut'[f].state = fut[f].state /\ fut'[f].value = fut[f].value
          /\ fut'[f].kwargs = fut[f].kwargs /\ fut'[f].parent = fut[f].parent
          /\ fut'[f].clock = fut[f].clock /\ fut'[f].nested = top
      BY <2>1, <2>2 DEF FutureObject
    <2> QED
      BY <2>3, <2>4
  <1>10. \A g \in Ids : fut[g].state # "NONE" => g \notin S
    BY <1>3 DEF Unmade
  <1>11. /\ f \in Standalone <=> pc = "processing"
         /\ pc = "processing" => run[f] = "RAN" /\ f \in work
         /\ pc = "executing" => work = {}
    BY DEF Now, CurrentInv, WorkInv, InlineInv
  <1>12. Out(f) = 0
    <2>1. jobs[f] \in [live : Nat, doomed : Nat]
      BY DEF Now, TypeOK
    <2>2. Out(f) \in Nat
      BY <2>1 DEF Out
    <2> QED
      BY <1>11, <2>2 DEF Now, DataInv, FutureInv, OneWorker
  <1>13. \A g \in Ids : Out(g)' = Out(g)
    BY <1>6 DEF Out
  <1>14. ASSUME NEW g \in Ids PROVE FutureInv(g)'
    <2>0. FutureInv(g) /\ fut[g] \in FutureObject
      BY DEF Now, DataInv, TypeOK
    <2>1. CASE g \in S
      <3>1. ~ (Out(g) > 0)
        BY <1>8, <2>0, <2>1 DEF FutureInv, OneWorker
      <3>2. Agrees(g)' /\ MayStart(g)' /\ OneWorker(g)' /\ ResolvedByWorker(g)' /\ NestsOnce(g)'
            /\ ClockRuns(g)' /\ CalledOnValues(g)'
        BY <1>6, <1>8, <1>13, <2>1, <3>1
           DEF Agrees, MayStart, OneWorker, ResolvedByWorker, NestsOnce, ClockRuns, CalledOnValues
      <3>3. ArgumentsMade(g)'
        BY <1>4, <1>6, <1>8, <2>1 DEF ArgumentsMade
      <3>4. NestedMade(g)' /\ SavedInTime(g)'
        BY <1>8, <2>1 DEF NestedMade, SavedInTime, NestedSaved
      <3>5. ParentMade(g)'
        BY <1>6, <1>7, <1>8, <1>9, <2>1 DEF ParentMade
      <3> QED
        BY <3>2, <3>3, <3>4, <3>5 DEF FutureInv
    <2>2. CASE g \notin S
      <3>1. fut[g].kwargs \subseteq Ids /\ fut[g].parent \in Ids \cup {NoFuture}
            /\ fut[g].nested \in Ids \cup {NoFuture}
        BY <2>0 DEF FutureObject
      <3>2. Agrees(g)'
        <4>1. g = f \/ fut'[g] = fut[g]
          BY <1>5, <2>2
        <4> QED
          BY <1>6, <1>7, <1>9, <2>0, <2>2, <4>1 DEF FutureInv, Agrees
      <3>3. MayStart(g)' /\ ClockRuns(g)'
        BY <1>6, <1>9, <2>0, <2>2 DEF FutureInv, MayStart, ClockRuns
      <3>4. OneWorker(g)' /\ ResolvedByWorker(g)' /\ NestsOnce(g)'
        <4>1. CASE g = f
          BY <1>6, <1>7, <1>9, <1>11, <1>12, <1>13, <2>0, <2>2, <4>1
             DEF FutureInv, OneWorker, ResolvedByWorker, NestsOnce
        <4>2. CASE g # f
          BY <1>6, <1>9, <1>13, <2>0, <2>2, <4>2
             DEF FutureInv, OneWorker, ResolvedByWorker, NestsOnce
        <4> QED
          BY <4>1, <4>2
      <3>5. ArgumentsMade(g)' /\ CalledOnValues(g)'
        <4>1. \A k \in fut[g].kwargs :
                /\ k \in Ids \ S /\ fut[k].state # "NONE" /\ fut[k].parent = fut[g].parent
                /\ run[g] # "NONE" => run[k] # "NONE"
          BY <1>10, <2>0, <3>1 DEF FutureInv, ArgumentsMade
        <4>2. ArgumentsMade(g)'
          BY <1>6, <1>9, <2>2, <4>1 DEF ArgumentsMade
        <4>3. CalledOnValues(g)'
          BY <1>6, <1>9, <1>13, <2>0, <2>2, <4>1 DEF FutureInv, CalledOnValues
        <4> QED
          BY <4>2, <4>3
      <3>6. NestedMade(g)' /\ SavedInTime(g)'
        <4>1. CASE g = f
          BY <1>3, <1>7, <1>8, <1>9, <2>2, <4>1 DEF NestedMade, SavedInTime
        <4>2. CASE g # f
          BY <1>6, <1>9, <1>10, <2>0, <2>2, <3>1, <4>2
             DEF FutureInv, NestedMade, SavedInTime, NestedSaved
        <4> QED
          BY <4>1, <4>2
      <3>7. ParentMade(g)'
        BY <1>6, <1>9, <1>10, <2>0, <2>2, <3>1 DEF FutureInv, ParentMade
      <3> QED
        BY <3>2, <3>3, <3>4, <3>5, <3>6, <3>7 DEF FutureInv
    <2> QED
      BY <2>1, <2>2
  <1>15. DataInv'
    BY <1>6, <1>14 DEF DataInv, Now
  <1>16. CurrentInv' /\ DownInv'
    BY <1>3, <1>6, <1>7, <1>9, <1>11 DEF CurrentInv, DownInv
  <1>17. WorkInv'
    BY <1>6, <1>9, <1>10 DEF Now, WorkInv, TypeOK
  <1>18. ArmedInv'
    BY <1>6, <1>9, <1>10 DEF Now, ArmedInv, TypeOK
  <1>19. AddsFutures(f, S, top, kw)
    BY <1>3, <1>4, <1>6, <1>7, <1>8, <1>9 DEF AddsFutures
  <1>20. pc' \notin Ended
    BY <1>3, <1>6, <1>7, <1>8, <1>9 DEF Ended
  <1> HIDE DEF S
  <1> QED
    BY <1>3, <1>4, <1>15, <1>16, <1>17, <1>18, <1>19, <1>20

-----------------------------------------------------------------------------
(* The pod is back. *)

\* Futures that are rebuilt from the rows, one by one.
LEMMA RebuiltFields ==
  ASSUME Now, NEW g \in Ids, NEW G, G = Rebuilt(g)
  PROVE  /\ run[g] = "NONE" => G = NotMade
         /\ run[g] # "NONE" =>
              /\ G.state = IF g \notin Standalone /\ run[g] = "SCHEDULED" THEN "RETRYING"
                           ELSE run[g]
              /\ G.value <=> run[g] = "RESOLVED"
              /\ G.kwargs = fut[g].kwargs /\ G.parent = fut[g].parent
              /\ G.nested = IF fut[g].nested # NoFuture /\ run[fut[g].nested] # "NONE"
                            THEN fut[g].nested ELSE NoFuture
              /\ G.clock # "off" => g \in Timed /\ run[g] # "CREATED"
  <1>1. fut[g] \in FutureObject
    BY DEF Now, TypeOK
  <1>2. run[g] = "NONE" => G = NotMade
    BY DEF Rebuilt
  <1>3. run[g] # "NONE" =>
          G = [fut[g] EXCEPT
                 !.state = IF g \notin Standalone /\ run[g] = "SCHEDULED" THEN "RETRYING" ELSE run[g],
                 !.nested = IF fut[g].nested # NoFuture /\ run[fut[g].nested] # "NONE"
                            THEN fut[g].nested ELSE NoFuture,
                 !.value = (run[g] = "RESOLVED"),
                 !.retry_count = 0,
                 !.clock = IF (g \notin Standalone /\ run[g] = "SCHEDULED")
                              \/ IsTerminal(run[g]) \/ run[g] = "CREATED" \/ g \notin Timed
                           THEN "off"
                           ELSE IF fut[g].clock = "off" THEN "on" ELSE fut[g].clock]
    BY DEF Rebuilt
  <1> QED
    BY <1>1, <1>2, <1>3 DEF FutureObject

LEMMA RestartGoes ==
  ASSUME Now, Restart, status = "RUNNING"
  PROVE  /\ DataInv' /\ CurrentInv' /\ WorkInv' /\ ArmedInv' /\ DownInv'
         /\ pc' \notin Ended
         /\ RunsRemotely
         /\ \A g \in Ids :
              /\ fut'[g].state = "NONE" <=> run[g] = "NONE"
              /\ fut'[g].value <=> run[g] = "RESOLVED"
              /\ run[g] # "NONE" =>
                   /\ fut'[g].kwargs = fut[g].kwargs
                   /\ fut'[g].nested = IF fut[g].nested # NoFuture /\ run[fut[g].nested] # "NONE"
                                       THEN fut[g].nested ELSE NoFuture
  <1>1. /\ fut' = [f \in Ids |-> Rebuilt(f)] /\ pc = "down" /\ pc' = "loop"
        /\ work' = {} /\ armed' = NoFuture /\ jobs' = jobs
        /\ run' = [f \in Ids |->
                     IF f \notin Standalone /\ run[f] = "SCHEDULED" THEN "RETRYING" ELSE run[f]]
    BY DEF Restart
  <1>2. \A g \in Ids :
         /\ run[g] = "NONE" => fut'[g] = NotMade
         /\ run[g] # "NONE" =>
              /\ fut'[g].state = IF g \notin Standalone /\ run[g] = "SCHEDULED" THEN "RETRYING"
                                 ELSE run[g]
              /\ fut'[g].value <=> run[g] = "RESOLVED"
              /\ fut'[g].kwargs = fut[g].kwargs /\ fut'[g].parent = fut[g].parent
              /\ fut'[g].nested = IF fut[g].nested # NoFuture /\ run[fut[g].nested] # "NONE"
                                  THEN fut[g].nested ELSE NoFuture
              /\ fut'[g].clock # "off" => g \in Timed /\ run[g] # "CREATED"
    <2> SUFFICES ASSUME NEW g \in Ids
                 PROVE
                   /\ run[g] = "NONE" => fut'[g] = NotMade
                   /\ run[g] # "NONE" =>
                        /\ fut'[g].state = IF g \notin Standalone /\ run[g] = "SCHEDULED"
                                           THEN "RETRYING" ELSE run[g]
                        /\ fut'[g].value <=> run[g] = "RESOLVED"
                        /\ fut'[g].kwargs = fut[g].kwargs /\ fut'[g].parent = fut[g].parent
                        /\ fut'[g].nested =
                             IF fut[g].nested # NoFuture /\ run[fut[g].nested] # "NONE"
                             THEN fut[g].nested ELSE NoFuture
                        /\ fut'[g].clock # "off" => g \in Timed /\ run[g] # "CREATED"
      OBVIOUS
    <2>1. fut'[g] = Rebuilt(g)
      BY <1>1
    <2> QED
      BY <2>1, RebuiltFields
  <1>3. \A g \in Ids :
          /\ run'[g] = IF g \notin Standalone /\ run[g] = "SCHEDULED" THEN "RETRYING" ELSE run[g]
          /\ Out(g)' = Out(g)
    BY <1>1 DEF Out
  <1>4. /\ NotMade.state = "NONE" /\ NotMade.value = FALSE /\ NotMade.kwargs = {}
        /\ NotMade.nested = NoFuture /\ NotMade.parent = NoFuture /\ NotMade.clock = "off"
    BY DEF NotMade, NewFuture
  <1>5. ASSUME NEW g \in Ids PROVE FutureInv(g)'
    <2>0. FutureInv(g) /\ fut[g] \in FutureObject /\ run[g] \in FutureState \cup {"NONE"}
      BY DEF Now, DataInv, TypeOK
    <2>1. fut[g].kwargs \subseteq Ids /\ fut[g].nested \in Ids \cup {NoFuture}
          /\ fut[g].parent \in Ids \cup {NoFuture}
      BY <2>0 DEF FutureObject
    <2>2. run[g] = "NONE" => ~ (Out(g) > 0)
      BY <2>0 DEF FutureInv, OneWorker
    <2>3. Agrees(g)' /\ MayStart(g)' /\ ResolvedByWorker(g)' /\ ClockRuns(g)'
      BY <1>2, <1>3, <1>4, <2>0
         DEF FutureState, Agrees, MayStart, ResolvedByWorker, ClockRuns
    <2>4. OneWorker(g)' /\ NestsOnce(g)'
      BY <1>2, <1>3, <1>4, <2>0, <2>2 DEF FutureInv, OneWorker, NestsOnce
    <2>5. CASE run[g] = "NONE"
      BY <1>2, <1>3, <1>4, <2>2, <2>3, <2>4, <2>5
         DEF FutureInv, CalledOnValues, ArgumentsMade, NestedMade, SavedInTime, NestedSaved,
             ParentMade
    <2>6. CASE run[g] # "NONE"
      <3>1. \A k \in fut[g].kwargs : run[k] # "NONE" /\ fut[k].parent = fut[g].parent
        BY <2>0, <2>6 DEF FutureInv, ArgumentsMade
      <3>2. \A k \in Ids : run[k] # "NONE" => fut'[k].state # "NONE" /\ run'[k] # "NONE"
        BY <1>2, <1>3
      <3>3. ArgumentsMade(g)'
        BY <1>2, <2>1, <2>6, <3>1, <3>2 DEF ArgumentsMade
      <3>4. CalledOnValues(g)'
        <4>1. \A k \in fut[g].kwargs : fut[k].value => fut'[k].value
          BY <1>2, <2>1, <3>1 DEF Now, DataInv, FutureInv, Agrees
        <4>2. \/ fut'[g].state \in {"SCHEDULED", "RAN", "RETRYING"}
              \/ run'[g] \in {"SCHEDULED", "RAN", "RETRYING", "RESOLVED"}
              \/ Out(g)' > 0
              => \/ run[g] \in {"SCHEDULED", "RAN", "RETRYING", "RESOLVED"}
                 \/ Out(g) > 0
          BY <1>2, <1>3, <2>6
        <4> QED
          BY <1>2, <2>0, <2>6, <4>1, <4>2 DEF FutureInv, CalledOnValues
      <3>5. NestedMade(g)' /\ SavedInTime(g)'
        BY <1>2, <2>0, <2>1, <2>6, <3>2 DEF FutureInv, NestedMade, SavedInTime, NestedSaved
      <3>6. ParentMade(g)'
        BY <1>2, <2>0, <2>1, <2>6, <3>2 DEF FutureInv, ParentMade
      <3> QED
        BY <2>3, <2>4, <3>3, <3>4, <3>5, <3>6 DEF FutureInv
    <2> QED
      BY <2>5, <2>6
  <1>6. DataInv'
    BY <1>3, <1>5, RootInIds DEF DataInv, Now
  <1>7. CurrentInv' /\ WorkInv' /\ ArmedInv' /\ DownInv' /\ pc' \notin Ended
    BY <1>1 DEF CurrentInv, WorkInv, ArmedInv, DownInv, Ended
  <1>8. RunsRemotely
    BY <1>1 DEF Now, DownInv
  <1>9. \A g \in Ids : run[g] \in FutureState \cup {"NONE"}
    BY DEF Now, TypeOK
  <1> QED
    BY <1>2, <1>4, <1>6, <1>7, <1>8, <1>9 DEF FutureState

-----------------------------------------------------------------------------
(* The invariant is inductive. *)

\* A call returned futures: in the runner, or in a job.
Nests(f) ==
  /\ SetNestedFuture(f)
  /\ \/ pc = "executing" /\ f = current
     \/ pc = "processing" /\ f \in work /\ run[f] = "RAN"

LEMMA StepKinds ==
  ASSUME Now, JobsEndBeforeRetries, [Next]_vars
  PROVE  \/ Goes \/ GivesUp \/ Succeeds
         \/ \E f \in Ids : Nests(f)
         \/ Restart /\ status = "RUNNING"
  <1>1. CASE Start \/ LoopHead
    BY <1>1, StartGoes, LoopHeadGoes
  <1>2. ASSUME NEW f \in Ids, Visit(f) PROVE Goes \/ GivesUp
    BY <1>2, VisitIdleGoes, RunNestedGoes, WithoutRunGoes, CacheHitGoes, RunInlineGoes,
       ScheduleGoes DEF Visit
  <1>3. CASE EndPass
    BY <1>3, QuietGoes
  <1>4. CASE Execute
    <2>1. CASE FunctionReturnsFuture
      BY <2>1 DEF FunctionReturnsFuture, Nests, Now, CurrentKnown
    <2> QED
      BY <1>4, <2>1, ReturnsValueGoes, RaisesGoes, TimesOutGoes DEF Execute
  <1>5. CASE FutureDidRun
    BY <1>5, DidRunGoes
  <1>6. CASE Wait
    <2>1. CASE ProcessRunOutput
      <3>1. pc = "processing" /\ work \subseteq Ids
        BY <2>1 DEF ProcessRunOutput, Now, TypeOK
      <3>2. PICK f \in work : ProcessOne(f) \/ (run[f] = "RAN" /\ SetNestedFuture(f))
        BY <2>1 DEF ProcessRunOutput, ProcessOne, Resolved
      <3> QED
        BY <3>1, <3>2, ProcessOneGoes DEF Nests
    <2> QED
      BY <1>6, <2>1, WaitTimesOutGoes, QuietGoes, AlarmGoes DEF Wait
  <1>7. CASE CancelSignal \/ CancelSignalFails \/ Evict \/ ServerCancels
    BY <1>7, CancelGoes, CancelFailsGoes, EvictGoes, ServerCancelsGoes
  <1>8. CASE Restart
    <2>1. CASE status = "SCHEDULED" /\ pc' = "starting" /\ UNCHANGED <<memory, run>>
      <3>1. UNCHANGED <<fut, run, jobs>> /\ work' = {} /\ armed' = NoFuture
        BY <1>8, <2>1 DEF Restart, memory
      <3> QED
        BY <2>1, <3>1, NothingMoves, RestGoes
    <2> QED
      BY <1>8, <2>1 DEF Restart
  <1>9. ASSUME NEW f \in Ids, WorkerEnds(f) \/ PodKilled(f) \/ TimePasses(f) PROVE Goes
    BY <1>9, WorkerGoes, TimePassesGoes
  <1>10. CASE UNCHANGED vars
    BY <1>10, NothingMoves, WorldGoes DEF vars, memory, server, control
  <1> QED
    BY <1>1, <1>2, <1>3, <1>4, <1>5, <1>6, <1>7, <1>8, <1>9, <1>10 DEF Next, Runner, Finished

\* run() has returned or raised: what is left of the workers may still end,
\* and a clock that was left running expire.
LEMMA EndedStays ==
  ASSUME TypeOK, pc \in Ended, [Next]_vars
  PROVE  pc' = pc /\ error' = error /\ SameView(fut, fut')
  <1>1. pc \in {"succeeded", "failed", "canceled"}
    BY DEF Ended
  <1>2. \A f : ~ Visit(f)
    BY <1>1 DEF Visit, VisitIdle, RunNestedFuture, ExecuteWithoutRun, CacheHit, RunInline,
                ScheduleFuture, AtFuture
  <1>3. ~ Wait /\ ~ Execute
    BY <1>1 DEF Wait, WaitTimesOut, NothingToWaitFor, PollRuns, ProcessRunOutput, EndProcessing,
                AlarmInterrupts, Execute, FunctionReturnsValue, FunctionReturnsFuture,
                FunctionRaises, FunctionTimesOut
  <1>4. ~ (Start \/ LoopHead \/ EndPass \/ FutureDidRun \/ CancelSignal \/ CancelSignalFails
           \/ Evict \/ Restart)
    BY <1>1 DEF Start, LoopHead, EndPass, FutureDidRun, CancelSignal, CancelSignalFails, Evict,
                Restart, Active
  <1>5. CASE pc' = pc /\ error' = error /\ fut' = fut
    BY <1>5 DEF SameView
  <1>6. ASSUME NEW f \in Ids, TimePasses(f)
        PROVE  pc' = pc /\ error' = error /\ SameView(fut, fut')
    <2>1. pc' = pc /\ error' = error /\ fut' = [fut EXCEPT ![f] = [fut[f] EXCEPT !.clock = "expired"]]
      BY <1>6 DEF TimePasses, control
    <2>2. \A g \in Ids : fut[g] \in FutureObject /\ g \in DOMAIN fut
      BY DEF TypeOK
    <2>3. \A g \in Ids : fut'[g] = IF g = f THEN [fut[f] EXCEPT !.clock = "expired"] ELSE fut[g]
      BY <2>1, <2>2
    <2> QED
      BY <2>1, <2>2, <2>3 DEF SameView, FutureObject
  <1> QED
    BY <1>2, <1>3, <1>4, <1>5, <1>6
       DEF Next, Runner, ServerCancels, WorkerEnds, PodKilled, Finished, memory, control, vars

LEMMA RunStep ==
  ASSUME JobsEndBeforeRetries, TypeOK, TypeOK', CurrentKnown, InlineInv, RunInv, [Next]_vars
  PROVE  RunInv'
  <1> SUFFICES ASSUME pc' \notin Ended PROVE RunInv'
    BY DEF RunInv
  <1>1. pc \notin Ended
    BY EndedStays
  <1>2. Now
    BY <1>1 DEF Now, RunInv
  <1>3. ASSUME Goes PROVE RunInv'
    BY <1>2, <1>3, KeptInv DEF Goes, RunInv, Now
  <1>4. ~ GivesUp /\ ~ Succeeds
    BY DEF GivesUp, Succeeds, Ended
  <1>5. ASSUME NEW f \in Ids, Nests(f) PROVE RunInv'
    <2>1. DataInv' /\ CurrentInv' /\ WorkInv' /\ ArmedInv' /\ DownInv'
      BY <1>2, <1>5, NestedGoes DEF Nests
    <2> QED
      BY <2>1 DEF RunInv
  <1>6. ASSUME Restart, status = "RUNNING" PROVE RunInv'
    BY <1>2, <1>6, RestartGoes DEF RunInv
  <1> QED
    BY <1>2, <1>3, <1>4, <1>5, <1>6, StepKinds

LEMMA RunInit == Init => RunInv
  <1> SUFFICES ASSUME Init PROVE RunInv
    OBVIOUS
  <1>1. /\ fut = [f \in Ids |-> IF f = Root THEN NewFuture ELSE NotMade]
        /\ run = [f \in Ids |-> IF f = Root THEN "CREATED" ELSE "NONE"]
        /\ jobs = [f \in Ids |-> [live |-> 0, doomed |-> 0]]
        /\ pc = "starting" /\ work = {} /\ armed = NoFuture
    BY DEF Init
  <1>2. \A f \in Ids : Out(f) = 0
    BY <1>1 DEF Out
  <1>3. ASSUME NEW f \in Ids PROVE FutureInv(f)
    <2>1. /\ fut[f].state = IF f = Root THEN "CREATED" ELSE "NONE"
          /\ f # Root => fut[f] = NotMade
          /\ fut[f].value = FALSE /\ fut[f].kwargs = {} /\ fut[f].nested = NoFuture
          /\ fut[f].parent = NoFuture /\ fut[f].clock = "off"
          /\ run[f] = IF f = Root THEN "CREATED" ELSE "NONE"
      <3>1. fut[f] = IF f = Root THEN NewFuture ELSE NotMade
        BY <1>1
      <3> QED
        BY <1>1, <3>1 DEF NewFuture, NotMade
    <2>2. Agrees(f) /\ MayStart(f) /\ ResolvedByWorker(f) /\ NestsOnce(f) /\ ClockRuns(f)
      BY <2>1 DEF Agrees, MayStart, ResolvedByWorker, NestsOnce, ClockRuns
    <2>3. OneWorker(f) /\ CalledOnValues(f) /\ ArgumentsMade(f) /\ NestedMade(f)
          /\ SavedInTime(f) /\ ParentMade(f)
      BY <1>2, <2>1
         DEF OneWorker, CalledOnValues, ArgumentsMade, NestedMade, SavedInTime, NestedSaved,
             ParentMade
    <2> QED
      BY <2>2, <2>3 DEF FutureInv
  <1>4. DataInv
    BY <1>1, <1>3, RootInIds DEF DataInv
  <1> QED
    BY <1>1, <1>4 DEF RunInv, CurrentInv, WorkInv, ArmedInv, DownInv

\* A future that is RESOLVED has its value, whatever retries, timeouts,
\* signals, evictions and workers do: no function is ever called on an argument
\* that the state machine takes for resolved and that has no value.
THEOREM ResolvedHasValueAlways == JobsEndBeforeRetries /\ Spec => []ResolvedHasValue
  <1> DEFINE Inv == JobsEndBeforeRetries /\ TypeOK /\ CurrentKnown /\ InlineInv /\ RunInv
  <1>1. JobsEndBeforeRetries /\ Init => Inv
    BY InitType, InlineInit, RunInit DEF Init, CurrentKnown
  <1>2. Inv /\ [Next]_vars => Inv'
    <2> SUFFICES ASSUME Inv, [Next]_vars PROVE Inv'
      OBVIOUS
    <2>1. JobsEndBeforeRetries'
      BY DEF JobsEndBeforeRetries
    <2> QED
      BY <2>1, TypeStep, CurrentStep, InlineStep, RunStep
  <1>3. Inv => ResolvedHasValue
    BY DEF RunInv, DataInv, FutureInv, Agrees, ResolvedHasValue, Active, Ended
  <1> QED
    BY <1>1, <1>2, <1>3, PTL DEF Spec

-----------------------------------------------------------------------------
(* The runner implements Dataflow. *)

\* What Dataflow sees of a state.
Kwargs  == [f \in Ids \ Unmade |-> fut[f].kwargs]
Nested  == [f \in Ids \ Unmade |-> fut[f].nested]
Value   == {f \in Ids : fut[f].value}
Outcome == IF pc \in Ended THEN pc ELSE "running"

LEMMA ViewOfDataflow ==
  /\ D!Made = Ids \ Unmade
  /\ D!vars = <<Kwargs, Nested, Value, Outcome>>
  BY DEF D!Made, D!vars, Kwargs, Nested, Value, Outcome

LEMMA DataflowStutters ==
  ASSUME Kwargs' = Kwargs, Nested' = Nested, Value' = Value, Outcome' = Outcome
  PROVE  UNCHANGED D!vars
  BY DEF D!vars, Kwargs, Nested, Value, Outcome

\* Nothing that Dataflow sees has changed.
LEMMA SameViewSame ==
  ASSUME SameView(fut, fut')
  PROVE  Kwargs' = Kwargs /\ Nested' = Nested /\ Value' = Value
  <1>1. Unmade' = Unmade
    BY DEF SameView, Unmade
  <1>2. \A f \in Ids : /\ fut'[f].kwargs = fut[f].kwargs /\ fut'[f].nested = fut[f].nested
                       /\ fut'[f].value = fut[f].value
    BY DEF SameView
  <1> QED
    BY <1>1, <1>2 DEF Kwargs, Nested, Value

LEMMA DataflowInit == Init => D!Init
  <1> SUFFICES ASSUME Init PROVE D!Init
    OBVIOUS
  <1>1. \A f \in Ids : /\ fut[f].state = IF f = Root THEN "CREATED" ELSE "NONE"
                       /\ fut[f].kwargs = {} /\ fut[f].nested = NoFuture /\ fut[f].value = FALSE
    <2> SUFFICES ASSUME NEW f \in Ids
                 PROVE  /\ fut[f].state = IF f = Root THEN "CREATED" ELSE "NONE"
                        /\ fut[f].kwargs = {} /\ fut[f].nested = NoFuture /\ fut[f].value = FALSE
      OBVIOUS
    <2>1. fut[f] = IF f = Root THEN NewFuture ELSE NotMade
      BY DEF Init
    <2> QED
      BY <2>1 DEF NewFuture, NotMade
  <1>2. Ids \ Unmade = {Root}
    BY <1>1, RootInIds DEF Unmade
  <1>3. /\ Kwargs = [f \in {Root} |-> {}] /\ Nested = [f \in {Root} |-> NoFuture]
        /\ Value = {}
    BY <1>1, <1>2, RootInIds DEF Kwargs, Nested, Value
  <1>4. Outcome = "running"
    BY DEF Init, Outcome, Ended
  <1> QED
    BY <1>3, <1>4 DEF D!Init, Kwargs, Nested, Value, Outcome

\* A step that goes on gives a value to one future at most, and that future has
\* been called on values or stands behind another one.
LEMMA KeptDataflow ==
  ASSUME Now, TypeOK', Kept, pc' \notin Ended
  PROVE  [D!Next]_(D!vars)
  <1>1. DataInv /\ fut \in Futures /\ fut' \in Futures
    BY Zenon DEF Now, TypeOK, Futures
  <1>2. Unmade' = Unmade
    BY <1>1, NothingForgotten DEF Unmade
  <1>3. Kwargs' = Kwargs /\ Nested' = Nested
    BY <1>2 DEF Kept, SameGraph, Kwargs, Nested
  <1>4. Outcome = "running" /\ Outcome' = "running"
    BY DEF Now, Outcome
  <1>5. CASE \A f \in Ids : fut'[f].value = fut[f].value
    <2>1. Value' = Value
      BY <1>5 DEF Value
    <2> QED
      BY <1>3, <1>4, <2>1, DataflowStutters
  <1>6. CASE \E f \in Ids : fut'[f].value # fut[f].value
    <2>1. PICK f \in Ids : fut'[f].value # fut[f].value
      BY <1>6
    <2>2. \A g \in Ids \ {f} : fut'[g].value = fut[g].value
      BY <2>1 DEF Kept, OneValue
    <2>3. GetsValue(f)
      BY <2>1 DEF Kept, Moves, Stays, SameState, IsCalled, IsRetried, IsCanceled, HasRun, GetsRow,
                  WorkerLeaves
    <2>4. FutureInv(f) /\ fut[f] \in FutureObject /\ fut'[f] \in FutureObject
      BY <1>1 DEF DataInv, Futures
    <2>5. fut'[f].value /\ ~ fut[f].value
      BY <2>1, <2>3, <2>4 DEF GetsValue, FutureObject
    <2>6. Value' = Value \cup {f} /\ f \notin Value
      BY <2>2, <2>5 DEF Value
    <2>7. fut[f].state # "NONE" /\ f \in Ids \ Unmade
      BY <2>3 DEF GetsValue, CalledInline, Executable, Unmade
    <2>8. Kwargs[f] = fut[f].kwargs /\ Nested[f] = fut[f].nested
      BY <2>7 DEF Kwargs, Nested
    <2>9. fut[f].kwargs \subseteq Ids /\ fut[f].nested \in Ids \cup {NoFuture}
      BY <2>4 DEF FutureObject
    <2>10. \/ fut[f].kwargs \subseteq Value
           \/ fut[f].nested \in Value
      <3>1. CASE fut[f].state = "RAN" /\ fut[f].nested # NoFuture
                 /\ fut[fut[f].nested].state = "RESOLVED"
        BY <1>1, <2>9, <3>1 DEF DataInv, FutureInv, Agrees, Value
      <3>2. CASE fut[f].state \in {"SCHEDULED", "RETRYING"}
        BY <2>4, <2>9, <3>2 DEF FutureInv, CalledOnValues, Value
      <3>3. CASE fut[f].state = "CREATED" /\ ConcreteKwargs(f)
        BY <1>1, <2>9, <3>3 DEF ConcreteKwargs, DataInv, FutureInv, Agrees, Value
      <3> QED
        BY <2>3, <3>1, <3>2, <3>3 DEF GetsValue, CalledInline, Executable
    <2>11. CASE fut[f].kwargs \subseteq Value
      <3>1. D!Return(f)
        BY <1>3, <1>4, <2>6, <2>7, <2>8, <2>11, ViewOfDataflow
           DEF D!Return, D!Callable, Kwargs, Nested, Value, Outcome
      <3> QED
        BY <1>4, <2>7, <3>1, ViewOfDataflow DEF D!Next, Outcome
    <2>12. CASE fut[f].nested \in Value
      <3>1. D!Resolve(f)
        BY <1>3, <1>4, <2>6, <2>7, <2>8, <2>12, ViewOfDataflow
           DEF D!Resolve, Kwargs, Nested, Value, Outcome
      <3> QED
        BY <1>4, <2>7, <3>1, ViewOfDataflow DEF D!Next, Outcome
    <2> QED
      BY <2>10, <2>11, <2>12
  <1> QED
    BY <1>5, <1>6

\* The run fails, is canceled or returns the root's value.
LEMMA EndDataflow ==
  ASSUME Now, GivesUp \/ Succeeds
  PROVE  D!Next
  <1>1. Outcome = "running" /\ Outcome' = pc'
    BY DEF Now, Outcome, GivesUp, Succeeds, Ended
  <1>2. Kwargs' = Kwargs /\ Nested' = Nested /\ Value' = Value
    BY SameViewSame DEF GivesUp, Succeeds, SameView
  <1>3. CASE GivesUp
    <2>1. D!GiveUp
      BY <1>1, <1>2, <1>3 DEF GivesUp, D!GiveUp, Kwargs, Nested, Value, Outcome
    <2> QED
      BY <1>1, <2>1 DEF D!Next, Outcome
  <1>4. CASE Succeeds
    <2>1. Root \in Value
      BY <1>4, RootInIds DEF Succeeds, Now, DataInv, FutureInv, Agrees, Value
    <2>2. D!Succeed
      BY <1>1, <1>2, <1>4, <2>1 DEF Succeeds, D!Succeed, Kwargs, Nested, Value, Outcome
    <2> QED
      BY <1>1, <2>2 DEF D!Next, Outcome
  <1> QED
    BY <1>3, <1>4

\* The new futures stand for the one whose function returned them.
LEMMA NestsDataflow ==
  ASSUME Now, NEW f \in Ids, Nests(f)
  PROVE  D!Next
  <1>1. pc' \notin Ended
    BY NestedGoes, Zenon DEF Nests
  <1>2. PICK S \in SUBSET Unmade : \E top \in S : \E kw \in [S -> SUBSET S] :
          AddsFutures(f, S, top, kw)
    BY NestedGoes, Zenon DEF Nests
  <1>3. PICK top \in S : \E kw \in [S -> SUBSET S] : AddsFutures(f, S, top, kw)
    BY <1>2, Zenon
  <1>4. PICK kw \in [S -> SUBSET S] : AddsFutures(f, S, top, kw)
    BY <1>3, Zenon
  <1>5. /\ \A g \in S : kw[g] \subseteq S \ {g}
        /\ \A g \in S : /\ fut'[g].state = "CREATED" /\ ~ fut'[g].value
                        /\ fut'[g].kwargs = kw[g] /\ fut'[g].nested = NoFuture
        /\ \A g \in Ids \ S : /\ fut'[g].state = fut[g].state /\ fut'[g].value = fut[g].value
                              /\ fut'[g].kwargs = fut[g].kwargs
                              /\ fut'[g].nested = IF g = f THEN top ELSE fut[g].nested
        /\ fut[f].state = "SCHEDULED" /\ pc' \notin Ended /\ S \subseteq Unmade
    BY <1>1, <1>4 DEF AddsFutures
  <1>6. S \subseteq Ids /\ f \in Ids \ Unmade /\ f \notin S /\ Unmade' = Unmade \ S
    BY <1>5 DEF Unmade
  <1>7. Ids \ Unmade' = (Ids \ Unmade) \cup S /\ S \cap (Ids \ Unmade) = {}
    BY <1>6
  <1>8. Outcome = "running" /\ Outcome' = "running"
    BY <1>5 DEF Now, Outcome
  <1>9. Value' = Value
    <2>1. \A g \in S : ~ fut[g].value
      BY <1>5, <1>6 DEF Now, DataInv, FutureInv, Agrees, Unmade
    <2> QED
      BY <1>5, <2>1 DEF Value
  <1>10. f \notin Value /\ fut[f].kwargs \subseteq Value
    <2>1. FutureInv(f) /\ fut[f].kwargs \subseteq Ids
      BY DEF Now, DataInv, TypeOK, FutureObject
    <2> QED
      BY <1>5, <2>1 DEF FutureInv, Agrees, CalledOnValues, Value
  <1>11. Nested' = [g \in (Ids \ Unmade) \cup S |->
                     IF g = f THEN top ELSE IF g \in S THEN NoFuture ELSE Nested[g]]
    BY <1>5, <1>6, <1>7 DEF Nested
  <1>12. /\ DOMAIN Kwargs' = (Ids \ Unmade) \cup S
         /\ \A g \in Ids \ Unmade : Kwargs'[g] = Kwargs[g]
         /\ \A g \in S : Kwargs'[g] \subseteq S \ {g}
    BY <1>5, <1>6, <1>7 DEF Kwargs
  <1>13. D!Callable(f)
    BY <1>6, <1>10, ViewOfDataflow DEF D!Callable, Kwargs, Value
  <1>14. D!Expand(f, S, top)
    BY <1>5, <1>7, <1>8, <1>9, <1>11, <1>12, <1>13, ViewOfDataflow
       DEF D!Expand, Kwargs, Nested, Value, Outcome
  <1>15. f \in D!Made /\ S \in SUBSET (Ids \ D!Made)
    BY <1>6, <1>7, ViewOfDataflow
  <1> QED
    BY <1>5, <1>8, <1>14, <1>15 DEF D!Next, Outcome

\* A pod that is back may have lost the futures of calls that were not saved.
LEMMA RestartDataflow ==
  ASSUME Now, Restart, status = "RUNNING"
  PROVE  D!Next
  <1>1. /\ RunsRemotely /\ pc' \notin Ended
        /\ \A g \in Ids :
             /\ fut'[g].state = "NONE" <=> run[g] = "NONE"
             /\ fut'[g].value <=> run[g] = "RESOLVED"
             /\ run[g] # "NONE" =>
                  /\ fut'[g].kwargs = fut[g].kwargs
                  /\ fut'[g].nested = IF fut[g].nested # NoFuture /\ run[fut[g].nested] # "NONE"
                                      THEN fut[g].nested ELSE NoFuture
    BY RestartGoes
  <1>2. \A g \in Ids : /\ FutureInv(g)
                       /\ fut[g].kwargs \subseteq Ids /\ fut[g].nested \in Ids \cup {NoFuture}
    BY DEF Now, DataInv, TypeOK, FutureObject
  <1> DEFINE made == Ids \ Unmade
             S == {g \in Ids : fut[g].state # "NONE" /\ run[g] = "NONE"}
  <1>3. PICK F \in SUBSET Ids : F = {g \in Ids : run[g] # "NONE" /\ ~ NestedSaved(g)}
    OBVIOUS
  <1>4. PICK R \in SUBSET Ids : R = {g \in Ids : run[g] = "RESOLVED" /\ ~ fut[g].value}
    OBVIOUS
  <1>5. made = {g \in Ids : fut[g].state # "NONE"}
    BY DEF Unmade
  <1>6. made \ S = Ids \ Unmade' /\ made \ S = {g \in Ids : run[g] # "NONE"}
    BY <1>1, <1>2, <1>5 DEF Unmade, FutureInv, Agrees
  <1>7. \A g \in Ids : fut[g].value => run[g] = "RESOLVED" /\ fut[g].state = "RESOLVED"
    BY <1>2 DEF FutureInv, Agrees
  <1>8. F \cap Value = {} /\ F \subseteq made /\ R \subseteq made
    <2>1. \A g \in F : ~ fut[g].value
      BY <1>1, <1>2, <1>3, <1>7 DEF FutureInv, SavedInTime
    <2> QED
      BY <1>2, <1>3, <1>4, <1>5, <2>1 DEF FutureInv, Agrees, Value
  <1>9. \A g \in R : /\ Kwargs[g] \subseteq Value /\ g \notin Value
                     /\ Nested[g] = NoFuture
    <2> SUFFICES ASSUME NEW g \in R
                 PROVE  Kwargs[g] \subseteq Value /\ g \notin Value /\ Nested[g] = NoFuture
      OBVIOUS
    <2>1. fut[g].state # "RESOLVED"
      BY <1>2, <1>4 DEF FutureInv, Agrees
    <2>2. fut[g].nested = NoFuture /\ \A k \in fut[g].kwargs : fut[k].value
      BY <1>2, <1>4, <2>1 DEF FutureInv, ResolvedByWorker, CalledOnValues
    <2> QED
      BY <1>2, <1>4, <1>8, <2>2 DEF Kwargs, Nested, Value
  <1>10. S \in SUBSET (made \ (Value \cup R))
    BY <1>4, <1>5, <1>7 DEF Value
  <1>11. {Nested[g] : g \in F} \subseteq S
    <2> SUFFICES ASSUME NEW g \in F PROVE Nested[g] \in S
      OBVIOUS
    <2>1. Nested[g] = fut[g].nested
      BY <1>8 DEF Nested
    <2>2. fut[g].nested # NoFuture /\ run[fut[g].nested] = "NONE"
      BY <1>3 DEF NestedSaved
    <2> QED
      BY <1>2, <2>1, <2>2 DEF FutureInv, NestedMade
  <1>12. Root \notin S
    BY DEF Now, DataInv
  <1>13. \A g \in made \ S : Kwargs[g] \cap S = {} /\ (Nested[g] \in S => g \in F)
    <2> SUFFICES ASSUME NEW g \in made \ S
                 PROVE  Kwargs[g] \cap S = {} /\ (Nested[g] \in S => g \in F)
      OBVIOUS
    <2>1. Kwargs[g] = fut[g].kwargs /\ Nested[g] = fut[g].nested /\ run[g] # "NONE"
      BY <1>6 DEF Kwargs, Nested
    <2> QED
      BY <1>2, <1>3, <2>1, RootInIds DEF FutureInv, ArgumentsMade, NestedSaved
  <1>14. Kwargs' = [g \in made \ S |-> Kwargs[g]]
    BY <1>1, <1>6 DEF Kwargs
  <1>15. Nested' = [g \in made \ S |-> IF g \in F THEN NoFuture ELSE Nested[g]]
    <2>1. \A g \in made \ S : fut'[g].nested = IF g \in F THEN NoFuture ELSE fut[g].nested
      BY <1>1, <1>3, <1>6 DEF NestedSaved
    <2> QED
      BY <1>6, <2>1 DEF Nested
  <1>16. Value' = Value \cup R
    BY <1>1, <1>4, <1>7 DEF Value
  <1>17. Outcome = "running" /\ Outcome' = "running"
    BY <1>1 DEF Now, Outcome
  <1> HIDE DEF S
  <1>18. R \subseteq {g \in made : D!Callable(g) /\ Nested[g] = NoFuture}
    BY <1>8, <1>9, ViewOfDataflow DEF D!Callable, Kwargs, Value
  <1>19. D!Recover(F, R)
    BY <1>8, <1>10, <1>11, <1>12, <1>13, <1>14, <1>15, <1>16, <1>17, <1>18, ViewOfDataflow
       DEF D!Recover, Kwargs, Nested, Value, Outcome
  <1>20. F \in SUBSET D!Made /\ R \in SUBSET D!Made
    BY <1>8, ViewOfDataflow
  <1>21. \E FF, RR \in SUBSET D!Made : D!Recover(FF, RR)
    BY <1>19, <1>20, Zenon
  <1> QED
    BY <1>17, <1>21, Zenon DEF D!Next, Outcome

\* Each step of the runner is one of Dataflow, or changes nothing it sees.
LEMMA DataflowStep ==
  ASSUME JobsEndBeforeRetries, TypeOK, TypeOK', CurrentKnown, InlineInv, RunInv, [Next]_vars
  PROVE  [D!Next]_(D!vars)
  <1>1. CASE pc \in Ended
    <2>1. pc' = pc /\ SameView(fut, fut')
      BY <1>1, EndedStays
    <2>2. Outcome' = Outcome
      BY <2>1 DEF Outcome
    <2> QED
      BY <2>1, <2>2, SameViewSame, DataflowStutters
  <1>2. CASE pc \notin Ended
    <2>1. Now
      BY <1>2 DEF Now, RunInv
    <2>2. ASSUME Goes PROVE [D!Next]_(D!vars)
      BY <2>1, <2>2, KeptDataflow DEF Goes
    <2> QED
      BY <2>1, <2>2, StepKinds, EndDataflow, NestsDataflow, RestartDataflow
  <1> QED
    BY <1>1, <1>2

\* The runner implements the dataflow it promises: whatever retries, timeouts,
\* signals, evictions, workers and re-entries do, each step of it calls a
\* function on values, takes over the value of the futures that stand for one,
\* forgets what was not saved, ends, or is not seen.
THEOREM ImplementsDataflow == JobsEndBeforeRetries /\ Spec => Implements
  <1> DEFINE Inv == JobsEndBeforeRetries /\ TypeOK /\ CurrentKnown /\ InlineInv /\ RunInv
  <1>1. JobsEndBeforeRetries /\ Init => Inv
    BY InitType, InlineInit, RunInit DEF Init, CurrentKnown
  <1>2. Inv /\ [Next]_vars => Inv'
    <2> SUFFICES ASSUME Inv, [Next]_vars PROVE Inv'
      OBVIOUS
    <2>1. JobsEndBeforeRetries'
      BY DEF JobsEndBeforeRetries
    <2> QED
      BY <2>1, TypeStep, CurrentStep, InlineStep, RunStep
  <1>3. Init => D!Init
    BY DataflowInit
  <1>4. Inv /\ Inv' /\ [Next]_vars => [D!Next]_(D!vars)
    BY DataflowStep
  <1> QED
    BY <1>1, <1>2, <1>3, <1>4, PTL DEF Spec, Implements, D!Spec

-----------------------------------------------------------------------------
(* What a step does around the futures. *)

\* Only four actions change the status of the pipeline run or what awaits the
\* pod while run() is on its way, and only one of them takes the pod down.
LEMMA Surroundings ==
  ASSUME [Next]_vars, pc' \notin Ended
  PROVE  \/ UNCHANGED <<status, canceling, evictions>> /\ (pc' = "down" => pc = "down")
         \/ Start \/ Evict \/ Restart \/ ServerCancels
  <1>1. CASE LoopHead
    BY <1>1 DEF LoopHead, PipelineRunDidFail, Ends, Ended, server, env
  <1>2. ASSUME NEW f \in Ids, Visit(f)
        PROVE  UNCHANGED <<status, canceling, evictions>> /\ pc' # "down"
    <2>1. CASE VisitIdle(f)
      BY <2>1 DEF VisitIdle, Advance, server, env
    <2>2. CASE RunNestedFuture(f)
      BY <2>2 DEF RunNestedFuture, PipelineRunDidFail, Ends, Ended, Advance, env
    <2>3. CASE ExecuteWithoutRun(f)
      BY <2>3 DEF ExecuteWithoutRun, PipelineRunDidFail, Ends, Ended
    <2>4. CASE CacheHit(f)
      BY <2>4 DEF CacheHit, Advance, env
    <2>5. CASE RunInline(f)
      BY <2>5 DEF RunInline, HandleFutureFailure, PipelineRunDidFail, Ends, Ended, Advance, env
    <2>6. CASE ScheduleFuture(f)
      BY <2>6 DEF ScheduleFuture, PipelineRunDidFail, Ends, Ended, Advance, env, server
    <2> QED
      BY <1>2, <2>1, <2>2, <2>3, <2>4, <2>5, <2>6 DEF Visit
  <1>3. CASE EndPass
    BY <1>3 DEF EndPass, server, env
  <1>4. CASE Execute
    BY <1>4 DEF Execute, FunctionReturnsValue, FunctionReturnsFuture, FunctionRaises,
                FunctionTimesOut, SetNestedFuture, HandleFutureFailure, PipelineRunDidFail, Ends,
                Ended, Advance, server, env
  <1>5. CASE FutureDidRun
    BY <1>5 DEF FutureDidRun, Advance, env
  <1>6. CASE Wait
    <2>1. CASE ProcessRunOutput
      BY <2>1 DEF ProcessRunOutput, SetNestedFuture, HandleFutureFailure, PipelineRunDidFail,
                  Ends, Ended, server, env
    <2> QED
      BY <1>6, <2>1 DEF Wait, WaitTimesOut, NothingToWaitFor, PollRuns, EndProcessing,
                        AlarmInterrupts, BackToLoop, HandleFutureFailure, PipelineRunDidFail, Ends,
                        Ended, server, env
  <1>7. CASE CancelSignal \/ CancelSignalFails
    BY <1>7 DEF CancelSignal, CancelSignalFails, HandleFutureFailure, PipelineRunDidFail, Ends,
                Ended, Advance, env
  <1>8. ASSUME NEW f \in Ids, WorkerEnds(f) \/ PodKilled(f) \/ TimePasses(f)
        PROVE  UNCHANGED <<status, canceling, evictions>> /\ pc' = pc
    BY <1>8 DEF WorkerEnds, PodKilled, TimePasses, control, server, env
  <1>9. CASE UNCHANGED vars
    BY <1>9 DEF vars, server, control, env
  <1> QED
    BY <1>1, <1>2, <1>3, <1>4, <1>5, <1>6, <1>7, <1>8, <1>9 DEF Next, Runner, Finished

\* The errors that a run of a pipeline may well end with.
Mild == {"PipelineRunError", "RunnerRestartError", "BadRequest", "ResourceNotFoundError",
         "CancellationError"}

-----------------------------------------------------------------------------
(* The sanity checks of the runner. *)

\* No pod of the runner comes back: it runs on the user's machine, or its pod
\* is not evicted.
NeverRebuilt == ~ RunsRemotely \/ MaxEvictions = 0

\* No two timeouts are there to be compared.
OneTimeout == \A f, g \in Timed : f = g

\* The loop goes on only with futures that have not failed, and each one whose
\* function returned a future has it.
Sound(f) ==
  /\ fut[f].state \notin {"FAILED", "NESTED_FAILED"}
  /\ fut[f].state = "RAN" => fut[f].nested # NoFuture

\* A pod goes down only when the pipeline run is canceled.
SoundInv ==
  pc \notin Ended =>
    /\ \A f \in Ids : Sound(f)
    /\ pc = "down" \/ canceling => status = "CANCELED"
    /\ evictions = 0

LEMMA SurroundingsStep ==
  ASSUME Now, NeverRebuilt, SoundInv, [Next]_vars, pc' \notin Ended
  PROVE  /\ ~ Restart
         /\ (pc' = "down" \/ canceling') => status' = "CANCELED"
         /\ evictions' = 0
  <1>1. /\ pc = "down" \/ canceling => status = "CANCELED"
        /\ evictions = 0
    BY DEF SoundInv, Now
  <1>2. ~ Restart
    BY <1>1 DEF Restart
  <1>3. CASE Start
    BY <1>1, <1>2, <1>3 DEF Start, PipelineRunDidFail, Ends, Ended, env
  <1>4. CASE Evict
    <2>1. MaxEvictions = 0
      BY <1>4 DEF Evict, NeverRebuilt
    <2>2. canceling /\ evictions' = evictions /\ status' = status
      BY <1>1, <1>4, <2>1 DEF Evict, server
    <2> QED
      BY <1>1, <1>2, <2>2
  <1>5. CASE ServerCancels
    BY <1>1, <1>2, <1>5 DEF ServerCancels
  <1> QED
    BY <1>1, <1>2, <1>3, <1>4, <1>5, Surroundings

LEMMA SoundStep ==
  ASSUME Now, TypeOK', JobsEndBeforeRetries, NeverRebuilt, SoundInv, [Next]_vars
  PROVE  SoundInv'
  <1> SUFFICES ASSUME pc' \notin Ended PROVE SoundInv'
    BY DEF SoundInv
  <1>1. \A f \in Ids : Sound(f)
    BY DEF SoundInv, Now
  <1>2. ~ GivesUp /\ ~ Succeeds
    BY DEF GivesUp, Succeeds, Ended
  <1>3. ASSUME Goes PROVE \A f \in Ids : Sound(f)'
    <2> SUFFICES ASSUME NEW f \in Ids PROVE Sound(f)'
      OBVIOUS
    <2>1. Sound(f) /\ FutureInv(f) /\ Moves(f) /\ fut'[f].nested = fut[f].nested
      BY <1>1, <1>3 DEF Goes, Kept, SameGraph, Now, DataInv
    <2> QED
      BY <2>1 DEF Sound, Moves, Stays, SameState, IsCalled, GetsValue, IsRetried, IsCanceled,
                  HasRun, GetsRow, WorkerLeaves
  <1>4. ASSUME NEW f \in Ids, Nests(f) PROVE \A g \in Ids : Sound(g)'
    <2>1. PICK S \in SUBSET Unmade : \E top \in S : \E kw \in [S -> SUBSET S] :
            AddsFutures(f, S, top, kw)
      BY <1>4, NestedGoes, Zenon DEF Nests
    <2>2. PICK top \in S : \E kw \in [S -> SUBSET S] : AddsFutures(f, S, top, kw)
      BY <2>1, Zenon
    <2>3. PICK kw \in [S -> SUBSET S] : AddsFutures(f, S, top, kw)
      BY <2>2, Zenon
    <2>4. top # NoFuture
      BY ConstantsAssumption DEF Unmade, Ids, NoFuture
    <2> QED
      BY <1>1, <2>3, <2>4 DEF AddsFutures, Sound
  <1> QED
    BY <1>2, <1>3, <1>4, SurroundingsStep, StepKinds DEF SoundInv
\* Of the errors that end a run, those of the sanity checks are out.
LEMMA ErrorStep ==
  ASSUME Now, OneTimeout, SoundInv, [Next]_vars
  PROVE  error' \in {error} \cup Mild
  <1>1. \A f \in Ids : Sound(f) /\ FutureInv(f) /\ fut[f] \in FutureObject
    BY DEF SoundInv, Now, DataInv, TypeOK
  <1>2. CASE Start \/ LoopHead
    BY <1>1, <1>2, RootInIds
       DEF Start, LoopHead, PipelineRunDidFail, Ends, Mild, Sound, control
  <1>3. ASSUME NEW f \in Ids, Visit(f)
        PROVE  error' \in {error} \cup Mild
    <2>1. CASE VisitIdle(f) \/ CacheHit(f)
      BY <2>1 DEF VisitIdle, CacheHit, Advance
    <2>2. CASE RunNestedFuture(f)
      BY <1>1, <2>2 DEF RunNestedFuture, Advance, Sound
    <2>3. CASE ExecuteWithoutRun(f)
      BY <2>3 DEF ExecuteWithoutRun, PipelineRunDidFail, Mild
    <2>4. CASE RunInline(f)
      <3> DEFINE F == SetState(fut, f, "SCHEDULED")
      <3>1. fut \in Futures /\ "SCHEDULED" \in FutureState
        BY DEF Now, TypeOK, Futures, FutureState
      <3>2. \A r \in Ids : F[r].clock # "off" => r \in Timed
        BY <1>1, <3>1, SetStateFields DEF FutureInv, ClockRuns
      <3>3. ~ \E r, q \in {f} \cup Ancestors(F, f) : r # q /\ Limited(F, r) /\ Limited(F, q)
        BY <3>2 DEF OneTimeout, Limited, Ancestors
      <3> QED
        BY <2>4, <3>3 DEF RunInline, HandleFutureFailure, PipelineRunDidFail, Advance, Mild
    <2>5. CASE ScheduleFuture(f)
      BY <1>1, <2>5 DEF ScheduleFuture, Executable, PipelineRunDidFail, Advance, Mild, FutureInv,
                        MayStart
    <2> QED
      BY <1>3, <2>1, <2>2, <2>3, <2>4, <2>5 DEF Visit
  <1>4. CASE EndPass \/ Evict \/ Restart \/ ServerCancels
    BY <1>4 DEF EndPass, Evict, Restart, ServerCancels, control
  <1>5. CASE Execute
    BY <1>5 DEF Execute, FunctionReturnsValue, FunctionReturnsFuture, FunctionRaises,
                FunctionTimesOut, SetNestedFuture, HandleFutureFailure, PipelineRunDidFail,
                Advance, Mild
  <1>6. CASE FutureDidRun
    BY <1>6 DEF FutureDidRun, Advance
  <1>7. CASE Wait
    BY <1>7 DEF Wait, WaitTimesOut, NothingToWaitFor, PollRuns, ProcessRunOutput, EndProcessing,
                AlarmInterrupts, BackToLoop, SetNestedFuture, HandleFutureFailure,
                PipelineRunDidFail, Mild
  <1>8. CASE CancelSignal \/ CancelSignalFails
    BY <1>8 DEF CancelSignal, CancelSignalFails, HandleFutureFailure, PipelineRunDidFail, Advance,
                Mild
  <1>9. ASSUME NEW f \in Ids, WorkerEnds(f) \/ PodKilled(f) \/ TimePasses(f)
        PROVE  error' = error
    BY <1>9 DEF WorkerEnds, PodKilled, TimePasses, control
  <1>10. CASE UNCHANGED vars
    BY <1>10 DEF vars, control
  <1> QED
    BY <1>2, <1>3, <1>4, <1>5, <1>6, <1>7, <1>8, <1>9, <1>10 DEF Next, Runner, Finished

\* The sanity checks of the runner's own code never fire: where no pod comes
\* back and no two timeouts are compared, run() never meets a future that has
\* no value, a returned future that is not there, or an order it refuses.
THEOREM NoInternalErrorAlways ==
  JobsEndBeforeRetries /\ NeverRebuilt /\ OneTimeout /\ Spec => []NoInternalError
  <1> DEFINE H == JobsEndBeforeRetries /\ NeverRebuilt /\ OneTimeout
             Inv == /\ H /\ TypeOK /\ CurrentKnown /\ InlineInv /\ RunInv
                    /\ SoundInv /\ NoInternalError
  <1>1. H /\ Init => Inv
    <2> SUFFICES ASSUME H, Init PROVE Inv
      OBVIOUS
    <2>1. \A f \in Ids : Sound(f)
      <3> SUFFICES ASSUME NEW f \in Ids PROVE Sound(f)
        OBVIOUS
      <3>1. fut[f] = IF f = Root THEN NewFuture ELSE NotMade
        BY DEF Init
      <3> QED
        BY <3>1 DEF Sound, NewFuture, NotMade
    <2>2. SoundInv /\ NoInternalError
      BY <2>1 DEF Init, SoundInv, NoInternalError
    <2> QED
      BY <2>2, InitType, InlineInit, RunInit DEF Init, CurrentKnown
  <1>2. Inv /\ [Next]_vars => Inv'
    <2> SUFFICES ASSUME Inv, [Next]_vars PROVE Inv'
      OBVIOUS
    <2>1. H'
      BY DEF JobsEndBeforeRetries, NeverRebuilt, OneTimeout
    <2>2. TypeOK' /\ CurrentKnown' /\ InlineInv' /\ RunInv'
      BY TypeStep, CurrentStep, InlineStep, RunStep
    <2>3. CASE pc \in Ended
      <3>1. pc' = pc /\ error' = error
        BY <2>3, EndedStays
      <3> QED
        BY <2>1, <2>2, <2>3, <3>1 DEF SoundInv, NoInternalError
    <2>4. CASE pc \notin Ended
      <3>1. Now
        BY <2>4 DEF Now, RunInv
      <3>2. SoundInv'
        BY <2>2, <3>1, SoundStep
      <3>3. NoInternalError'
        BY <3>1, ErrorStep DEF NoInternalError, Mild
      <3> QED
        BY <2>1, <2>2, <3>2, <3>3
    <2> QED
      BY <2>3, <2>4
  <1> QED
    BY <1>1, <1>2, PTL DEF Spec

-----------------------------------------------------------------------------
(* The rows of the server. *)

\* Nobody has canceled, failed or completed the pipeline run.
Open == status \in {"SCHEDULED", "RUNNING"}

\* The row of a future is that of the future, up to a job that has ended.
Follows(f) ==
  \/ run[f] = fut[f].state
  \/ f \in Standalone /\ fut[f].state = "SCHEDULED" /\ run[f] \in {"RAN", "RESOLVED", "FAILED"}

\* A future that has just been made, and has no row yet.
Fresh(f) ==
  /\ status = "RUNNING" /\ pc \in {"nesting", "down"}
  /\ fut[f].state = "CREATED" /\ run[f] = "NONE"
  /\ fut[f].parent = current /\ current # NoFuture

RowInv(f) ==
  /\ run[f] # "CANCELED" /\ fut[f].state # "CANCELED"
  /\ Follows(f) \/ Fresh(f)

FollowInv == pc \notin Ended /\ Open => \A f \in Ids : RowInv(f)

\* While run() goes on, only a signal and a canceled pipeline run cancel runs.
LEMMA NothingCanceled ==
  ASSUME Now, [Next]_vars, pc' \notin Ended, NEW g \in Ids, run'[g] = "CANCELED"
  PROVE  run[g] = "CANCELED" \/ status' = "CANCELED" \/ CancelSignalFails
  <1>1. run \in [Ids -> FutureState \cup {"NONE"}]
    BY DEF Now, TypeOK
  <1>2. CASE Start \/ LoopHead
    BY <1>2 DEF Start, LoopHead, PipelineRunDidFail, Ends, Ended, server
  <1>3. ASSUME NEW f \in Ids, Visit(f)
        PROVE  run[g] = "CANCELED"
    <2>1. CASE VisitIdle(f)
      BY <2>1 DEF VisitIdle, server
    <2>2. CASE RunNestedFuture(f)
      BY <1>1, <2>2 DEF RunNestedFuture, PipelineRunDidFail, Ends, Ended, SaveRuns
    <2>3. CASE ExecuteWithoutRun(f)
      BY <2>3 DEF ExecuteWithoutRun, PipelineRunDidFail, Ends, Ended
    <2>4. CASE CacheHit(f)
      BY <1>1, <2>4 DEF CacheHit, SaveRuns
    <2>5. CASE RunInline(f)
      BY <1>1, <2>5
         DEF RunInline, HandleFutureFailure, PipelineRunDidFail, Ends, Ended, SaveRuns
    <2>6. CASE ScheduleFuture(f)
      BY <1>1, <2>6 DEF ScheduleFuture, PipelineRunDidFail, Ends, Ended, server
    <2> QED
      BY <1>3, <2>1, <2>2, <2>3, <2>4, <2>5, <2>6 DEF Visit
  <1>4. CASE EndPass \/ Evict
    BY <1>4 DEF EndPass, Evict, server
  <1>5. CASE Execute
    BY <1>1, <1>5 DEF Execute, FunctionReturnsValue, FunctionReturnsFuture, FunctionRaises,
                FunctionTimesOut, SetNestedFuture, HandleFutureFailure, PipelineRunDidFail, Ends,
                Ended, server, SaveRuns
  <1>6. CASE FutureDidRun
    BY <1>1, <1>6 DEF FutureDidRun, NestedRuns, SaveRuns
  <1>7. CASE Wait
    <2>1. CASE ProcessRunOutput
      BY <1>1, <2>1 DEF ProcessRunOutput, SetNestedFuture, HandleFutureFailure, PipelineRunDidFail,
                  Ends, Ended, server, SaveRuns
    <2> QED
      BY <1>1, <1>7, <2>1 DEF Wait, WaitTimesOut, NothingToWaitFor, PollRuns, EndProcessing,
                        AlarmInterrupts, HandleFutureFailure, PipelineRunDidFail, Ends,
                        Ended, server, SaveRuns
  <1>8. ~ CancelSignal
    BY DEF CancelSignal, Ends, Ended
  <1>9. CASE Restart
    BY <1>9 DEF Restart
  <1>10. CASE ServerCancels
    BY <1>10 DEF ServerCancels
  <1>11. ASSUME NEW f \in Ids, WorkerEnds(f) PROVE run[g] = "CANCELED"
    BY <1>1, <1>11 DEF WorkerEnds
  <1>12. ASSUME NEW f \in Ids, PodKilled(f) \/ TimePasses(f) PROVE run[g] = "CANCELED"
    BY <1>12 DEF PodKilled, TimePasses, server
  <1>13. CASE UNCHANGED vars
    BY <1>13 DEF vars, server
  <1> QED
    BY <1>2, <1>3, <1>4, <1>5, <1>6, <1>7, <1>8, <1>9, <1>10, <1>11, <1>12, <1>13
       DEF Next, Runner, Finished

\* Between the call and the rows of the futures it made, nothing else happens
\* in a pod without timeouts: it saves them, or it is gone.
LEMMA StillFresh ==
  ASSUME Now, RunsRemotely, Timed = {}, [Next]_vars, pc \in {"nesting", "down"}
  PROVE  \/ pc' \in {"nesting", "down"} /\ current' = current
         \/ pc = "nesting" /\ FutureDidRun
         \/ Restart
  <1>1. ~ AlarmInterrupts
    BY DEF Now, ArmedInv, AlarmInterrupts
  <1>2. ~ CancelSignal /\ ~ CancelSignalFails
    BY DEF CancelSignal, CancelSignalFails
  <1>3. \A f : ~ Visit(f)
    BY DEF Visit, VisitIdle, RunNestedFuture, ExecuteWithoutRun, CacheHit, RunInline,
           ScheduleFuture, AtFuture
  <1>4. ~ (Start \/ LoopHead \/ EndPass \/ Execute)
    BY DEF Start, LoopHead, EndPass, Execute, FunctionReturnsValue, FunctionReturnsFuture,
           FunctionRaises, FunctionTimesOut
  <1>5. ~ Wait
    BY <1>1 DEF Wait, WaitTimesOut, NothingToWaitFor, PollRuns, ProcessRunOutput, EndProcessing
  <1>6. CASE Evict
    BY <1>6 DEF Evict
  <1>7. CASE FutureDidRun
    BY <1>7 DEF FutureDidRun
  <1>8. CASE current' = current /\ pc' = pc
    BY <1>8
  <1> QED
    BY <1>2, <1>3, <1>4, <1>5, <1>6, <1>7, <1>8
       DEF Next, Runner, ServerCancels, WorkerEnds, PodKilled, TimePasses, Finished, control, vars

\* A move takes a future and its row along.
LEMMA FollowMoves ==
  ASSUME Now, Kept, NEW f \in Ids, RowInv(f), run'[f] # "CANCELED"
  PROVE  /\ fut'[f].state # "CANCELED" /\ fut'[f].parent = fut[f].parent
         /\ Follows(f) => Follows(f)'
         /\ Fresh(f) => \/ fut'[f].state = "CREATED" /\ run'[f] = "NONE"
                        \/ Follows(f)'
  <1>1. Moves(f) /\ FutureInv(f) /\ fut'[f].parent = fut[f].parent
    BY DEF Kept, SameGraph, Now, DataInv
  <1>2. Out(f) \in Nat /\ Out(f) > 0 => f \in Standalone /\ fut[f].state = "SCHEDULED"
    BY <1>1 DEF FutureInv, OneWorker, RowInv
  <1>3. fut'[f].state # "CANCELED"
    BY <1>1 DEF RowInv, Moves, Stays, SameState, IsCalled, GetsValue, IsRetried, IsCanceled,
                HasRun, GetsRow, WorkerLeaves
  <1>4. jobs[f] \in [live : Nat, doomed : Nat]
    BY DEF Now, TypeOK
  <1>5. Out(f) \in Nat
    BY <1>4 DEF Out
  <1>6. ASSUME Follows(f) PROVE Follows(f)'
    BY <1>1, <1>2, <1>3, <1>5, <1>6
       DEF Follows, Moves, Stays, SameState, IsCalled, GetsValue, IsRetried, IsCanceled, HasRun,
           GetsRow, WorkerLeaves
  <1>7. ASSUME Fresh(f)
        PROVE  (fut'[f].state = "CREATED" /\ run'[f] = "NONE") \/ Follows(f)'
    BY <1>1, <1>2, <1>3, <1>5, <1>7
       DEF Follows, Fresh, Moves, Stays, SameState, IsCalled, CalledInline, GetsValue, IsRetried,
           IsCanceled, HasRun, GetsRow, WorkerLeaves
  <1> QED
    BY <1>1, <1>3, <1>6, <1>7

LEMMA FollowStep ==
  ASSUME Now, TypeOK', InlineInv', RunsRemotely, Timed = {}, FollowInv, [Next]_vars
  PROVE  FollowInv'
  <1> SUFFICES ASSUME pc' \notin Ended, Open', NEW f \in Ids PROVE RowInv(f)'
    BY DEF FollowInv
  <1>1. Open /\ (status' = status \/ (Start /\ status = "SCHEDULED"))
    <2>1. CASE Start
      BY <2>1 DEF Start, PipelineRunDidFail, Ends, Ended, Open
    <2>2. CASE Evict \/ Restart
      BY <2>2 DEF Evict, Restart, server, Open
    <2>3. ~ ServerCancels
      BY DEF ServerCancels, Open
    <2> QED
      BY <2>1, <2>2, <2>3, Surroundings DEF Open
  <1>2. \A g \in Ids : RowInv(g) /\ FutureInv(g)
    BY <1>1 DEF FollowInv, Now, DataInv
  <1>3. run'[f] # "CANCELED"
    BY <1>2, NothingCanceled DEF RowInv, Open, CancelSignalFails
  <1>4. ~ GivesUp /\ ~ Succeeds
    BY DEF GivesUp, Succeeds, Ended
  <1>5. CASE Goes /\ ~ (Restart /\ status = "RUNNING")
    <2>1. Kept
      BY <1>5 DEF Goes
    <2>2. /\ fut'[f].state # "CANCELED" /\ fut'[f].parent = fut[f].parent
          /\ Follows(f) => Follows(f)'
          /\ Fresh(f) => \/ fut'[f].state = "CREATED" /\ run'[f] = "NONE"
                         \/ Follows(f)'
      BY <1>2, <1>3, <2>1, FollowMoves
    <2>3. CASE Follows(f)
      BY <1>3, <2>2, <2>3 DEF RowInv
    <2>4. CASE Fresh(f) /\ fut'[f].state = "CREATED" /\ run'[f] = "NONE"
      <3>1. status' = "RUNNING" /\ status = "RUNNING" /\ pc \in {"nesting", "down"}
        BY <1>1, <2>4 DEF Fresh
      <3>2. ~ (pc = "nesting" /\ FutureDidRun)
        <4> SUFFICES ASSUME pc = "nesting", FutureDidRun PROVE FALSE
          OBVIOUS
        <4>1. current \in Ids /\ fut[current].state = "SCHEDULED"
          BY DEF Now, CurrentKnown, CurrentInv
        <4>2. run' = NestedRuns(current) /\ f # current
          BY <2>4, <4>1 DEF FutureDidRun, SaveRuns, Fresh
        <4>3. run'[f] = "CREATED"
          BY <2>4, <4>2 DEF NestedRuns, Fresh
        <4> QED
          BY <2>4, <4>3
      <3>3. pc' \in {"nesting", "down"} /\ current' = current
        BY <1>5, <3>1, <3>2, StillFresh
      <3> QED
        BY <1>3, <2>2, <2>4, <3>1, <3>3 DEF RowInv, Fresh
    <2> QED
      BY <1>2, <1>3, <2>2, <2>3, <2>4 DEF RowInv
  <1>6. CASE Restart /\ status = "RUNNING"
    <2>1. /\ fut'[f] = Rebuilt(f)
          /\ run'[f] = IF f \notin Standalone /\ run[f] = "SCHEDULED" THEN "RETRYING" ELSE run[f]
      BY <1>6 DEF Restart
    <2>2. fut[f] \in FutureObject
      BY DEF Now, TypeOK
    <2>3. fut'[f].state = run'[f]
      BY <2>1, <2>2 DEF Rebuilt, NotMade, FutureObject
    <2> QED
      BY <1>3, <2>3 DEF RowInv, Follows
  <1>7. ASSUME NEW g \in Ids, Nests(g) PROVE RowInv(f)'
    <2>1. PICK S \in SUBSET Unmade : \E top \in S : \E kw \in [S -> SUBSET S] :
            AddsFutures(g, S, top, kw)
      BY <1>7, NestedGoes, Zenon DEF Nests
    <2>2. PICK top \in S : \E kw \in [S -> SUBSET S] : AddsFutures(g, S, top, kw)
      BY <2>1, Zenon
    <2>3. PICK kw \in [S -> SUBSET S] : AddsFutures(g, S, top, kw)
      BY <2>2, Zenon
    <2>4. /\ pc \in {"executing", "processing"} /\ pc' = "nesting" /\ current' = g
          /\ run' = run /\ status' = status
      BY <1>7 DEF Nests, SetNestedFuture, server
    <2>5. status' = "RUNNING" /\ ~ Fresh(f) /\ g # NoFuture
      BY <1>1, <2>4, ConstantsAssumption DEF Now, InlineInv, Active, Open, Fresh, Ids, NoFuture
    <2>6. CASE f \in S
      <3>1. run[f] = "NONE"
        BY <1>2, <2>1, <2>6 DEF FutureInv, Agrees, Unmade
      <3>2. Fresh(f)'
        BY <2>3, <2>4, <2>5, <2>6, <3>1 DEF AddsFutures, Fresh
      <3> QED
        BY <1>3, <2>3, <2>6, <3>2 DEF RowInv, AddsFutures
    <2>7. CASE f \notin S
      <3>1. fut'[f].state = fut[f].state
        BY <2>3, <2>7 DEF AddsFutures
      <3> QED
        BY <1>2, <1>3, <2>4, <2>5, <3>1 DEF RowInv, Follows
    <2> QED
      BY <2>6, <2>7
  <1> QED
    BY <1>4, <1>5, <1>6, <1>7, StepKinds DEF JobsEndBeforeRetries

\* Before each pass the rows of the server are those of the futures, up to jobs
\* that have ended since: a pod without timeouts that is back has lost nothing.
THEOREM RowsFollowFuturesAlways ==
  RunsRemotely /\ Timed = {} /\ Spec => []RowsFollowFutures
  <1> DEFINE H == RunsRemotely /\ Timed = {}
             Inv == H /\ TypeOK /\ CurrentKnown /\ InlineInv /\ RunInv /\ FollowInv
  <1>1. H /\ Init => Inv
    <2> SUFFICES ASSUME H, Init PROVE Inv
      OBVIOUS
    <2>1. \A f \in Ids : RowInv(f)
      <3> SUFFICES ASSUME NEW f \in Ids PROVE RowInv(f)
        OBVIOUS
      <3>1. /\ fut[f] = IF f = Root THEN NewFuture ELSE NotMade
            /\ run[f] = IF f = Root THEN "CREATED" ELSE "NONE"
        BY DEF Init
      <3> QED
        BY <3>1 DEF RowInv, Follows, NewFuture, NotMade
    <2> QED
      BY <2>1, InitType, InlineInit, RunInit DEF Init, CurrentKnown, FollowInv
  <1>2. Inv /\ [Next]_vars => Inv'
    <2> SUFFICES ASSUME Inv, [Next]_vars PROVE Inv'
      OBVIOUS
    <2>1. JobsEndBeforeRetries
      BY DEF JobsEndBeforeRetries
    <2>2. TypeOK' /\ CurrentKnown' /\ InlineInv' /\ RunInv'
      BY <2>1, TypeStep, CurrentStep, InlineStep, RunStep
    <2>3. CASE pc \in Ended
      <3>1. pc' = pc
        BY <2>3, EndedStays
      <3> QED
        BY <2>2, <2>3, <3>1 DEF FollowInv
    <2>4. CASE pc \notin Ended
      <3>1. Now
        BY <2>4 DEF Now, RunInv
      <3> QED
        BY <2>2, <3>1, FollowStep
    <2> QED
      BY <2>3, <2>4
  <1>3. Inv => RowsFollowFutures
    BY DEF FollowInv, RowInv, Follows, Fresh, Open, RowsFollowFutures, Ended
  <1> QED
    BY <1>1, <1>2, <1>3, PTL DEF Spec

-----------------------------------------------------------------------------
(* How run() ends. *)

\* A future that has just been made has no row yet; the first of a call waits
\* for no argument.
Rowless(f) == fut[f].state # "NONE" /\ run[f] = "NONE"
Seed(f) == fut[f].state = "CREATED" /\ fut[f].kwargs = {} /\ run[f] = "NONE"

\* The places that the pass, or the next one, still comes to.
Ahead ==
  {i \in DOMAIN futures : /\ pc = "pass" => cursor <= i
                          /\ pc \in {"executing", "nesting"} => cursor < i}

\* A future that was left without a row when its call was interrupted.  The
\* pass comes to it before anything could give it a row.
Stray(f) ==
  /\ Seed(f)
  /\ \E i \in Ahead : futures[i] = f
  /\ \/ fut[f].parent \in Standalone
     \/ /\ pc \in {"executing", "nesting"} => current # fut[f].parent
        /\ \A i \in Ahead : futures[i] # fut[f].parent

Astray ==
  /\ pc \in {"loop", "pass", "executing", "nesting"} /\ work = {}
  /\ \E f \in Ids : Stray(f)

\* Every future is visited once in a pass; one that is executed is behind.
OrderInv ==
  /\ \A i \in DOMAIN futures : fut[futures[i]].state # "NONE"
  /\ \A i, j \in DOMAIN futures : futures[i] = futures[j] => i = j
  /\ pc \in {"executing", "nesting"} /\ work = {} =>
       cursor \in DOMAIN futures /\ \A i \in Ahead : futures[i] # current

\* Before its rows are saved, a call has left a future that can go astray.
SeedInv ==
  pc = "nesting" =>
    \E f \in Ids : /\ Seed(f) /\ fut[f].parent = current
                   /\ \E i \in DOMAIN futures : futures[i] = f /\ (work = {} => cursor < i)

\* Futures without rows are those of the call that is being saved, or one of
\* them has gone astray; nobody looks at those of a pod that is gone.
RowlessInv ==
  \/ pc = "down"
  \/ \A f \in Ids : ~ Rowless(f)
  \/ Astray
  \/ pc = "nesting" /\ \A f \in Ids : Rowless(f) => fut[f].parent = current

\* The root's job has made nothing before it has returned, and nothing is
\* saved before the runner knows that it has.
AloneInv ==
  Root \in Standalone =>
    /\ fut[Root].nested = NoFuture => \A f \in Ids \ {Root} : fut[f].state = "NONE"
    /\ fut[Root].state \in {"CREATED", "RETRYING", "SCHEDULED"} =>
         \A f \in Ids \ {Root} : run[f] = "NONE"

\* The pipeline run has its status before the loop begins.
StatusInv ==
  /\ status \in {"SCHEDULED", "RUNNING", "CANCELED"}
  /\ status = "SCHEDULED" =>
       /\ fut[Root].state # "CANCELED"
       /\ \A f \in Ids \ {Root} : fut[f].state = "NONE"

\* Without a signal the root's run is canceled with the pipeline run.
CanceledInv ==
  run[Root] = "CANCELED" /\ (RunsRemotely \/ fut[Root].state # "CANCELED") => status = "CANCELED"

\* Nothing is open once the root is found canceled.
Closed ==
  /\ status = "CANCELED" /\ IsTerminal(run[Root]) /\ Out(Root) = 0
  /\ \A f \in Ids \ {Root} : fut[f].state = "NONE"
  /\ pc \in {"loop", "pass"} /\ (pc = "pass" => changed)

\* With a canceled root the loop ends at its head with everything closed, or
\* the pass comes to a future that has gone astray.
RootInv ==
  fut[Root].state = "CANCELED" /\ pc \in Active => Closed \/ (Astray /\ pc # "loop")

EndInv ==
  pc \notin Ended =>
    /\ OrderInv /\ SeedInv /\ RowlessInv
    /\ AloneInv /\ StatusInv /\ CanceledInv /\ RootInv

-----------------------------------------------------------------------------
(* Where the pass is. *)

\* The pass goes on with the next future; the one it leaves, or has executed,
\* is not one that waits for its row only.
Advances ==
  /\ pc \in {"pass", "executing", "nesting"} /\ work = {}
  /\ pc' = "pass" /\ cursor' = cursor + 1 /\ (changed => changed')
  /\ UNCHANGED <<futures, work>>
  /\ pc = "pass" => cursor \in DOMAIN futures /\ ~ Seed(futures[cursor])

\* The pass hands the future it is at to its function.
Calls ==
  /\ pc = "pass" /\ pc' = "executing" /\ current' = futures[cursor]
  /\ UNCHANGED <<futures, cursor, work>>
  /\ cursor \in DOMAIN futures /\ ~ Seed(futures[cursor])

\* The head of the loop begins a pass.
Begins ==
  /\ pc = "loop" /\ pc' = "pass" /\ cursor' = 1 /\ ~ IsTerminal(fut[Root].state)
  /\ UNCHANGED <<futures, work>>

\* The runner waits, or processes what it waited for.
Waits ==
  /\ pc \in {"waiting", "processing"} /\ pc' \in {"loop", "waiting", "processing"}
  /\ UNCHANGED futures

\* The rows of a call of a job are saved, or the alarm comes first.
Leaves ==
  /\ pc = "nesting" /\ work # {} /\ UNCHANGED futures
  /\ \/ FutureDidRun /\ pc' = "processing"
     \/ ~ FutureDidRun /\ pc' = "loop" /\ work' = {}

LEMMA Places ==
  ASSUME Now, [Next]_vars, pc' \notin Ended
  PROVE  \/ Start /\ pc' = "loop" /\ UNCHANGED futures
         \/ Begins \/ Advances \/ Calls \/ EndPass \/ Waits \/ Leaves
         \/ \E f \in Ids : Nests(f)
         \/ Evict \/ Restart
         \/ UNCHANGED <<control, futures>>
  <1>0. /\ futures \in Seq(Ids) /\ cursor \in Nat \ {0} /\ fut \in Futures
        /\ pc \notin {"nesting", "processing", "down"} => work = {}
        /\ \A f \in Ids : FutureInv(f)
    BY DEF Now, TypeOK, InlineInv, Futures, DataInv
  <1>1. CASE Start
    BY <1>1 DEF Start, PipelineRunDidFail, Ends, Ended, memory
  <1>2. CASE LoopHead
    BY <1>2 DEF LoopHead, PipelineRunDidFail, Ends, Ended, memory, Begins
  <1>3. ASSUME NEW f \in Ids, Visit(f)
        PROVE  Advances \/ Calls
    <2>1. AtFuture(f)
      BY <1>3 DEF Visit, VisitIdle, RunNestedFuture, ExecuteWithoutRun, CacheHit, RunInline,
                  ScheduleFuture
    <2>2. /\ pc = "pass" /\ work = {} /\ cursor \in DOMAIN futures /\ f = futures[cursor]
      BY <1>0, <2>1 DEF AtFuture
    <2>3. ~ Seed(f)
      <3> SUFFICES ASSUME Seed(f) PROVE FALSE
        OBVIOUS
      <3>1. fut[f].state = "CREATED" /\ ConcreteKwargs(f) /\ run[f] = "NONE"
        BY DEF Seed, ConcreteKwargs
      <3>2. ExecuteWithoutRun(f)
        BY <1>3, <3>1 DEF Visit, VisitIdle, RunNestedFuture, CacheHit, RunInline, ScheduleFuture,
                          IsTerminal, TerminalStates
      <3> QED
        BY <3>2 DEF ExecuteWithoutRun, PipelineRunDidFail, Ends, Ended
    <2>4. CASE VisitIdle(f)
      BY <2>2, <2>3, <2>4 DEF VisitIdle, Advance, Advances, memory
    <2>5. CASE RunNestedFuture(f)
      BY <2>2, <2>3, <2>5 DEF RunNestedFuture, PipelineRunDidFail, Ends, Ended, Advance, Advances
    <2>6. CASE ExecuteWithoutRun(f)
      BY <2>6 DEF ExecuteWithoutRun, PipelineRunDidFail, Ends, Ended
    <2>7. CASE CacheHit(f)
      BY <2>2, <2>3, <2>7 DEF CacheHit, Advance, Advances
    <2>8. CASE RunInline(f)
      BY <2>2, <2>3, <2>8 DEF RunInline, HandleFutureFailure, PipelineRunDidFail, Ends, Ended,
                  Advance, Advances, Calls
    <2>9. CASE ScheduleFuture(f)
      BY <2>2, <2>3, <2>9 DEF ScheduleFuture, PipelineRunDidFail, Ends, Ended, Advance, Advances
    <2> QED
      BY <1>3, <2>4, <2>5, <2>6, <2>7, <2>8, <2>9 DEF Visit
  <1>4. CASE Execute
    <2>1. CASE FunctionReturnsFuture
      BY <2>1 DEF FunctionReturnsFuture, Nests, Now, CurrentKnown
    <2>2. pc = "executing" /\ work = {}
      BY <1>0, <1>4 DEF Execute, FunctionReturnsValue, FunctionReturnsFuture, FunctionRaises,
                        FunctionTimesOut
    <2> QED
      BY <1>4, <2>1, <2>2
         DEF Execute, FunctionReturnsValue, FunctionRaises, FunctionTimesOut, HandleFutureFailure,
             PipelineRunDidFail, Ends, Ended, Advance, Advances
  <1>5. CASE FutureDidRun
    BY <1>5 DEF FutureDidRun, Advance, Advances, Leaves
  <1>6. CASE Wait
    <2>1. CASE ProcessRunOutput
      <3>1. PICK f \in work : \/ (run[f] = "RAN" /\ SetNestedFuture(f))
                             \/ (UNCHANGED futures /\ pc' = pc)
        BY <2>1 DEF ProcessRunOutput, HandleFutureFailure, PipelineRunDidFail, Ends, Ended
      <3>2. pc = "processing" /\ f \in Ids
        BY <2>1 DEF ProcessRunOutput, Now, TypeOK
      <3> QED
        BY <3>1, <3>2 DEF Nests, Waits
    <2>2. CASE AlarmInterrupts
      <3>1. UNCHANGED futures /\ pc' = "loop" /\ work' = {}
        BY <2>2 DEF AlarmInterrupts, HandleFutureFailure, PipelineRunDidFail, Ends, Ended,
                    BackToLoop, memory
      <3>2. ~ FutureDidRun
        BY <3>1 DEF FutureDidRun, Advance
      <3> QED
        BY <2>2, <3>1, <3>2 DEF AlarmInterrupts, Waits, Leaves
    <2> QED
      BY <1>6, <2>1, <2>2 DEF Wait, WaitTimesOut, NothingToWaitFor, PollRuns, EndProcessing,
                        BackToLoop, HandleFutureFailure, PipelineRunDidFail, Ends,
                        Ended, memory, Waits
  <1>7. CASE CancelSignal
    BY <1>7 DEF CancelSignal, Ends, Ended
  <1>8. CASE CancelSignalFails
    BY <1>0, <1>8 DEF CancelSignalFails, HandleFutureFailure, PipelineRunDidFail, Ends, Ended, Advance,
                Advances
  <1>9. ASSUME NEW f \in Ids, WorkerEnds(f) \/ PodKilled(f) \/ TimePasses(f)
        PROVE  UNCHANGED <<control, futures>>
    BY <1>9 DEF WorkerEnds, PodKilled, TimePasses, memory
  <1>10. CASE ServerCancels \/ UNCHANGED vars
    BY <1>10 DEF ServerCancels, vars, memory
  <1> QED
    BY <1>1, <1>2, <1>3, <1>4, <1>5, <1>6, <1>7, <1>8, <1>9, <1>10 DEF Next, Runner, Finished

-----------------------------------------------------------------------------
(* What is canceled, and what is made. *)

\* Rows are only made for the futures of the call that is saved.
LEMMA RowsMade ==
  ASSUME Now, [Next]_vars, pc' \notin Ended, NEW g \in Ids, run[g] = "NONE", run'[g] # "NONE"
  PROVE  FutureDidRun /\ fut[g].parent = current
  <1>1. /\ run \in Rows /\ fut[g].state \in {"NONE", "CREATED"}
        /\ fut[g].clock = "off" /\ fut \in Futures /\ work \subseteq Ids
    BY DEF Now, TypeOK, DataInv, FutureInv, Agrees, ClockRuns, FutureObject, Futures, Rows
  <1>2. \A R : SaveRuns(R) => run' = R
    BY DEF SaveRuns
  <1>3. ~ Start /\ ~ LoopHead
    BY DEF Start, LoopHead, PipelineRunDidFail, Ends, Ended, server
  <1>4. ASSUME NEW R \in Rows, R[g] = "NONE", NEW f, SaveRuns([R EXCEPT ![f] = "RETRYING"])
        PROVE  f = g
    BY <1>2, <1>4 DEF Rows
  <1>5. ASSUME NEW f \in Ids, Visit(f)
        PROVE  FALSE
    <2>1. ~ VisitIdle(f) /\ ~ ExecuteWithoutRun(f)
      BY DEF VisitIdle, server, ExecuteWithoutRun, PipelineRunDidFail, Ends, Ended
    <2>2. CASE RunNestedFuture(f)
      BY <1>1, <1>2, <2>2 DEF RunNestedFuture, PipelineRunDidFail, Ends, Ended, Rows
    <2>3. CASE CacheHit(f)
      BY <1>1, <1>2, <2>3 DEF CacheHit, Rows
    <2>4. CASE RunInline(f)
      <3> DEFINE F == SetState(fut, f, "SCHEDULED")
                 R == [run EXCEPT ![f] = "SCHEDULED"]
      <3>1. f # g
        BY <2>4 DEF RunInline
      <3>2. F[g] = fut[g] /\ R[g] = "NONE"
        BY <1>1, <3>1 DEF SetState, Futures, Rows
      <3>3. R \in Rows
        BY <1>1 DEF FutureState, Rows
      <3>4. \/ SaveRuns(R) \/ PipelineRunDidFail(F, R, "NotImplementedError")
            \/ \E r \in {f} \cup Ancestors(F, f), retriable, again \in BOOLEAN :
                /\ Expired(F, r)
                /\ \/ PipelineRunDidFail(FailFutureAndParents(F, r), FailRunAndParents(F, R, r),
                                         "PipelineRunError")
                   \/ SaveRuns([[R EXCEPT ![r] = "RETRYING"] EXCEPT ![f] = "RETRYING"])
            \/ SaveRuns([R EXCEPT ![f] = "RETRYING"])
        BY <2>4 DEF RunInline, HandleFutureFailure, PipelineRunDidFail, Ends, Ended
      <3> HIDE DEF F, R
      <3>5. PICK r \in {f} \cup Ancestors(F, f) :
              /\ Expired(F, r)
              /\ SaveRuns([[R EXCEPT ![r] = "RETRYING"] EXCEPT ![f] = "RETRYING"])
        BY <1>2, <1>4, <3>1, <3>2, <3>3, <3>4 DEF PipelineRunDidFail, Ends, Ended
      <3>6. r # g
        BY <1>1, <3>2, <3>5 DEF Expired, Limited
      <3>7. [R EXCEPT ![r] = "RETRYING"][g] = "NONE"
        BY <3>2, <3>3, <3>6 DEF Rows
      <3>8. [R EXCEPT ![r] = "RETRYING"] \in Rows
        BY <3>3 DEF FutureState, Rows
      <3> QED
        BY <1>4, <3>1, <3>5, <3>7, <3>8
    <2>5. CASE ScheduleFuture(f)
      BY <1>1, <2>5 DEF ScheduleFuture, PipelineRunDidFail, Ends, Ended, server, Rows
    <2> QED
      BY <1>5, <2>1, <2>2, <2>3, <2>4, <2>5 DEF Visit
  <1>6. current # g \/ pc \notin {"executing", "nesting"}
    BY <1>1 DEF Now, CurrentInv
  <1>7. ~ Execute
    <2>1. ~ FunctionReturnsValue
      BY <1>1, <1>2, <1>6 DEF FunctionReturnsValue, Rows
    <2>2. ~ FunctionReturnsFuture
      BY DEF FunctionReturnsFuture, SetNestedFuture, server
    <2>3. ~ FunctionRaises
      BY <1>1, <1>4, <1>6 DEF FunctionRaises, HandleFutureFailure, PipelineRunDidFail, Ends, Ended
    <2>4. ~ FunctionTimesOut
      <3> SUFFICES ASSUME FunctionTimesOut PROVE FALSE
        OBVIOUS
      <3>1. [run EXCEPT ![current] = "RETRYING"][g] = "NONE" /\ current # g
        BY <1>1, <1>6 DEF FunctionTimesOut, Rows
      <3>2. [run EXCEPT ![current] = "RETRYING"] \in Rows
        BY <1>1 DEF FutureState, Rows
      <3> QED
        BY <1>1, <1>4, <3>1, <3>2
           DEF FunctionTimesOut, HandleFutureFailure, PipelineRunDidFail, Ends, Ended
    <2> QED
      BY <2>1, <2>2, <2>3, <2>4 DEF Execute
  <1>8. CASE FutureDidRun
    <2>1. run' = NestedRuns(current) /\ g # current
      BY <1>2, <1>6, <1>8 DEF FutureDidRun
    <2> QED
      BY <1>8, <2>1 DEF NestedRuns
  <1>9. ~ Wait
    <2>1. ~ ProcessRunOutput
      <3> SUFFICES ASSUME NEW f \in work, SaveRuns([run EXCEPT ![f] = "RETRYING"]) PROVE FALSE
        BY DEF ProcessRunOutput, SetNestedFuture, HandleFutureFailure, PipelineRunDidFail, Ends,
               Ended, server
      <3>1. f # g
        BY <1>1 DEF Now, WorkInv
      <3> QED
        BY <1>1, <1>4, <3>1
    <2>2. ~ WaitTimesOut
      BY <1>1, <1>4 DEF WaitTimesOut, Expired, Limited, HandleFutureFailure, PipelineRunDidFail,
                               Ends, Ended
    <2>3. ~ AlarmInterrupts
      <3>1. armed # NoFuture => armed # g
        BY <1>1 DEF Now, ArmedInv
      <3> QED
        BY <1>1, <1>4, <3>1 DEF AlarmInterrupts, HandleFutureFailure, PipelineRunDidFail, Ends, Ended,
                                    server
    <2> QED
      BY <2>1, <2>2, <2>3 DEF Wait, NothingToWaitFor, PollRuns, EndProcessing, server
  <1>10. ~ CancelSignal
    BY DEF CancelSignal, Ends, Ended
  <1>11. ~ CancelSignalFails
    <2> SUFFICES ASSUME CancelSignalFails PROVE FALSE
      OBVIOUS
    <2>1. CancelNonTerminal(run)[g] = "NONE"
      BY <1>1 DEF CancelNonTerminal, Rows
    <2>2. CancelNonTerminal(run) \in Rows
      BY <1>1 DEF CancelNonTerminal, FutureState, Rows
    <2> QED
      BY <1>4, <1>6, <2>1, <2>2 DEF CancelSignalFails, HandleFutureFailure, PipelineRunDidFail,
                                           Ends, Ended
  <1>12. ~ Evict /\ ~ EndPass /\ ~ Restart
    BY DEF Evict, EndPass, Restart, server
  <1>13. ~ ServerCancels
    BY <1>1, <1>2 DEF ServerCancels, CancelNonTerminal, Rows
  <1>14. ASSUME NEW f \in Ids PROVE ~ WorkerEnds(f)
    <2> SUFFICES ASSUME WorkerEnds(f) PROVE FALSE
      OBVIOUS
    <2>1. Out(f) > 0
      BY DEF WorkerEnds, Out
    <2>2. run[f] # "NONE"
      BY <2>1 DEF Now, DataInv, FutureInv, OneWorker
    <2> QED
      BY <1>1, <2>2 DEF WorkerEnds
  <1>15. \A f \in Ids : ~ PodKilled(f) /\ ~ TimePasses(f)
    BY DEF PodKilled, TimePasses, server
  <1> QED
    BY <1>3, <1>5, <1>7, <1>8, <1>9, <1>10, <1>11, <1>12, <1>13, <1>14, <1>15
       DEF Next, Runner, Finished, vars, server

\* The state that a step gives a future is not CANCELED, where it names it.
LEMMA StaysUncanceled ==
  ASSUME NEW F \in Futures, NEW f \in Ids, NEW g \in Ids, F[g].state # "CANCELED"
  PROVE  /\ \A s \in FutureState \ {"CANCELED"} :
              SetState(F, f, s) \in Futures /\ SetState(F, f, s)[g].state # "CANCELED"
         /\ MarkForRetry(F, f) \in Futures /\ MarkForRetry(F, f)[g].state # "CANCELED"
         /\ \A v : [SetState(F, f, "RESOLVED") EXCEPT ![f].value = v][g].state # "CANCELED"
  <1>1. ASSUME NEW s \in FutureState \ {"CANCELED"}
        PROVE  SetState(F, f, s) \in Futures /\ SetState(F, f, s)[g].state # "CANCELED"
    BY SetStateFields
  <1>2. MarkForRetry(F, f) \in Futures /\ MarkForRetry(F, f)[g].state # "CANCELED"
    BY MarkForRetryFields
  <1>3. ASSUME NEW v
        PROVE  [SetState(F, f, "RESOLVED") EXCEPT ![f].value = v][g].state # "CANCELED"
    <2> DEFINE G == SetState(F, f, "RESOLVED")
    <2>1. G \in Futures /\ G[g].state # "CANCELED"
      BY <1>1 DEF FutureState
    <2> HIDE DEF G
    <2>2. DOMAIN G = Ids /\ G[f] \in FutureObject
      BY <2>1 DEF Futures
    <2>3. [G[f] EXCEPT !.value = v].state = G[f].state
      BY <2>2 DEF FutureObject
    <2>4. [G EXCEPT ![f].value = v][g] = IF g = f THEN [G[f] EXCEPT !.value = v] ELSE G[g]
      BY <2>2
    <2>5. [G EXCEPT ![f].value = v][g].state # "CANCELED"
      BY <2>1, <2>3, <2>4
    <2> QED
      BY <2>5 DEF G
  <1> QED
    BY <1>1, <1>2, <1>3

\* A future is canceled by the signal, by the server's answer to a second
\* schedule, or in the pod that comes back.
LEMMA BecomesCanceled ==
  ASSUME Now, [Next]_vars, pc' \notin Ended, NEW g \in Ids,
         fut[g].state # "CANCELED", fut'[g].state = "CANCELED"
  PROVE  \/ CancelSignalFails \/ Restart
         \/ /\ ScheduleFuture(g) /\ Advance(TRUE) /\ UNCHANGED server
            /\ run[g] = "CANCELED" /\ pc = "pass"
  <1>1. fut \in Futures /\ work \subseteq Ids /\ fut' # fut
    BY Zenon DEF Now, TypeOK, Futures
  <1>2. /\ \A f \in Ids : \A s \in FutureState \ {"CANCELED"} : fut' # SetState(fut, f, s)
        /\ \A f \in Ids : fut' # MarkForRetry(fut, f)
        /\ \A f \in Ids : \A v : fut' # [SetState(fut, f, "RESOLVED") EXCEPT ![f].value = v]
    <2>1. ASSUME NEW f \in Ids
          PROVE  /\ \A s \in FutureState \ {"CANCELED"} : SetState(fut, f, s)[g].state # "CANCELED"
                 /\ MarkForRetry(fut, f)[g].state # "CANCELED"
                 /\ \A v : [SetState(fut, f, "RESOLVED") EXCEPT ![f].value = v][g].state # "CANCELED"
      BY <1>1, StaysUncanceled
    <2>2. ASSUME NEW F, F[g].state # "CANCELED" PROVE fut' # F
      BY <2>2
    <2> QED
      BY <2>1, <2>2
  <1>3. {"SCHEDULED", "RAN", "RESOLVED", "RETRYING"} \subseteq FutureState \ {"CANCELED"}
    BY DEF FutureState
  <1>4. ASSUME NEW f \in Ids, Visit(f)
        PROVE  /\ ScheduleFuture(g) /\ Advance(TRUE) /\ UNCHANGED server
               /\ run[g] = "CANCELED" /\ pc = "pass"
    <2>1. ~ VisitIdle(f) /\ ~ ExecuteWithoutRun(f)
      BY <1>1 DEF VisitIdle, memory, ExecuteWithoutRun, PipelineRunDidFail, Ends, Ended
    <2>2. ~ RunNestedFuture(f)
      BY <1>2 DEF RunNestedFuture, Bubble, PipelineRunDidFail, Ends, Ended
    <2>3. ~ CacheHit(f)
      BY <1>2 DEF CacheHit
    <2>4. ~ RunInline(f)
      <3> SUFFICES ASSUME RunInline(f) PROVE FALSE
        OBVIOUS
      <3> DEFINE F == SetState(fut, f, "SCHEDULED")
      <3>1. F \in Futures /\ F[g].state # "CANCELED" /\ fut' # F
        BY <1>1, <1>2, <1>3, StaysUncanceled
      <3>2. \/ \E r \in {f} \cup Ancestors(F, f) : fut' = MarkForRetry(MarkForRetry(F, r), f)
            \/ fut' = MarkForRetry(F, f)
        BY <3>1 DEF RunInline, HandleFutureFailure, PipelineRunDidFail, Ends, Ended
      <3> HIDE DEF F
      <3>3. \A r \in Ids : MarkForRetry(F, r) \in Futures /\ MarkForRetry(F, r)[g].state # "CANCELED"
        BY <3>1, StaysUncanceled
      <3>4. \A r \in Ids : MarkForRetry(MarkForRetry(F, r), f)[g].state # "CANCELED"
        BY <3>3, StaysUncanceled
      <3>5. {f} \cup Ancestors(F, f) \subseteq Ids
        BY DEF Ancestors
      <3> QED
        BY <3>2, <3>3, <3>4, <3>5
    <2>5. CASE ScheduleFuture(f)
      <3>1. /\ fut' = SetState(fut, f, run[f]) /\ Advance(TRUE) /\ UNCHANGED server /\ pc = "pass"
        BY <1>2, <1>3, <2>5 DEF ScheduleFuture, AtFuture, PipelineRunDidFail, Ends, Ended
      <3>2. run[f] \in FutureState
        BY <2>5 DEF ScheduleFuture, Now, TypeOK
      <3>3. run[f] = "CANCELED"
        BY <1>2, <3>1, <3>2
      <3>4. f = g
        <4> SUFFICES ASSUME f # g PROVE FALSE
          OBVIOUS
        <4>1. fut'[g] = fut[g]
          BY <1>1, <3>1, <3>2, SetStateFields
        <4> QED
          BY <4>1
      <3> QED
        BY <2>5, <3>1, <3>3, <3>4
    <2> QED
      BY <1>4, <2>1, <2>2, <2>3, <2>4, <2>5 DEF Visit
  <1>5. ASSUME NEW f \in Ids, SetNestedFuture(f) PROVE FALSE
    <2>1. PICK top \in Unmade :
            \E kw \in [Made(top) -> SUBSET Made(top)],
               order \in [1..Cardinality(Made(top)) -> Made(top)] : Enqueue(f, top, kw, order)
      BY <1>5, Zenon DEF SetNestedFuture
    <2>2. PICK kw \in [Made(top) -> SUBSET Made(top)],
               order \in [1..Cardinality(Made(top)) -> Made(top)] : Enqueue(f, top, kw, order)
      BY <2>1, Zenon
    <2>3. fut'[g] = IF g \in Made(top) THEN [NewFuture EXCEPT !.kwargs = kw[g], !.parent = f]
                    ELSE IF g = f THEN [fut[f] EXCEPT !.nested = top] ELSE fut[g]
      BY <2>2 DEF Enqueue
    <2>4. fut[g] \in FutureObject
      BY <1>1 DEF Futures
    <2> QED
      BY <2>3, <2>4 DEF NewFuture, FutureObject
  <1>6. ~ Start /\ ~ LoopHead /\ ~ EndPass /\ ~ Evict /\ ~ ServerCancels
    BY <1>1 DEF Start, LoopHead, EndPass, Evict, ServerCancels, PipelineRunDidFail, Ends, Ended, memory
  <1>7. ~ Execute
    <2> SUFFICES ASSUME Execute PROVE FALSE
      OBVIOUS
    <2>1. current \in Ids /\ pc = "executing"
      BY DEF Execute, FunctionReturnsValue, FunctionReturnsFuture, FunctionRaises,
             FunctionTimesOut, Now, CurrentKnown
    <2>2. ~ FunctionReturnsFuture
      BY <1>5, <2>1 DEF FunctionReturnsFuture
    <2>3. MarkForRetry(fut, current) \in Futures /\ MarkForRetry(fut, current)[g].state # "CANCELED"
      BY <1>1, <2>1, StaysUncanceled
    <2>4. fut' # MarkForRetry(MarkForRetry(fut, current), current)
      BY <2>1, <2>3, StaysUncanceled
    <2> QED
      BY <1>2, <2>1, <2>2, <2>4
         DEF Execute, FunctionReturnsValue, FunctionRaises, FunctionTimesOut, HandleFutureFailure,
             PipelineRunDidFail, Ends, Ended
  <1>8. ~ FutureDidRun
    BY <1>2, <1>3 DEF FutureDidRun, CurrentKnown, Now
  <1>9. ~ Wait
    <2>1. ~ ProcessRunOutput
      BY <1>1, <1>2, <1>5 DEF ProcessRunOutput, HandleFutureFailure, PipelineRunDidFail, Ends, Ended
    <2>2. armed # NoFuture => armed \in Ids
      BY DEF Now, TypeOK
    <2> QED
      BY <1>1, <1>2, <2>1, <2>2
         DEF Wait, WaitTimesOut, NothingToWaitFor, PollRuns, EndProcessing, AlarmInterrupts,
             HandleFutureFailure, PipelineRunDidFail, Ends, Ended, memory
  <1>10. ~ CancelSignal
    BY DEF CancelSignal, Ends, Ended
  <1>11. ASSUME NEW f \in Ids PROVE ~ WorkerEnds(f) /\ ~ PodKilled(f) /\ ~ TimePasses(f)
    <2>1. fut' # [fut EXCEPT ![f].clock = "expired"]
      <3>1. fut[f] \in FutureObject /\ DOMAIN fut = Ids
        BY <1>1 DEF Futures
      <3>2. [fut EXCEPT ![f].clock = "expired"][g]
              = IF g = f THEN [fut[f] EXCEPT !.clock = "expired"] ELSE fut[g]
        BY <3>1
      <3>3. [fut[f] EXCEPT !.clock = "expired"].state = fut[f].state
        BY <3>1 DEF FutureObject
      <3> QED
        BY <3>2, <3>3
    <2> QED
      BY <1>1, <2>1 DEF WorkerEnds, PodKilled, TimePasses, memory
  <1> QED
    BY <1>1, <1>4, <1>6, <1>7, <1>8, <1>9, <1>10, <1>11 DEF Next, Runner, Finished, vars, memory

\* The step makes the futures S, and puts them at the end of _futures.
Grows(f, S, order) ==
  /\ order \in Seq(S) /\ futures' = futures \o order
  /\ \A i, j \in DOMAIN order : order[i] = order[j] => i = j
  /\ \A g \in S : \E i \in DOMAIN order : order[i] = g
  /\ \A g \in S : /\ fut'[g].state = "CREATED" /\ fut'[g].parent = f
                  /\ fut[g].state = "NONE" /\ run[g] = "NONE"
  /\ \E g \in S : fut'[g].kwargs = {}
  /\ \A g \in Ids \ S : /\ fut'[g].state = fut[g].state /\ fut'[g].kwargs = fut[g].kwargs
                        /\ fut'[g].parent = fut[g].parent
                        /\ g # f => fut'[g].nested = fut[g].nested
  /\ fut[f].state = "SCHEDULED" /\ fut'[f].nested # NoFuture /\ f \notin S

LEMMA NestsGrows ==
  ASSUME Now, NEW f \in Ids, Nests(f)
  PROVE  /\ \E S \in SUBSET Ids : \E order : Grows(f, S, order)
         /\ pc' = "nesting" /\ current' = f
         /\ UNCHANGED <<server, cursor, work>>
  <1>1. PICK top \in Unmade :
          \E kw \in [Made(top) -> SUBSET Made(top)],
             order \in [1..Cardinality(Made(top)) -> Made(top)] :
            IsSubgraph(Made(top), top, kw) /\ IsEnqueueOrder(top, kw, order)
              /\ Enqueue(f, top, kw, order)
    BY Zenon DEF Nests, SetNestedFuture
  <1>2. PICK kw \in [Made(top) -> SUBSET Made(top)],
             order \in [1..Cardinality(Made(top)) -> Made(top)] :
          IsSubgraph(Made(top), top, kw) /\ IsEnqueueOrder(top, kw, order)
            /\ Enqueue(f, top, kw, order)
    BY <1>1, Zenon
  <1> DEFINE S == Made(top)
  <1>3. S \subseteq Unmade /\ S \subseteq Ids /\ top \in S /\ top # NoFuture /\ S \subseteq 0..MaxFutures
    BY ConstantsAssumption DEF Made, Unmade, Ids, NoFuture
  <1>4. \A g \in Ids : fut'[g] = IF g \in S THEN [NewFuture EXCEPT !.kwargs = kw[g], !.parent = f]
                                 ELSE IF g = f THEN [fut[f] EXCEPT !.nested = top] ELSE fut[g]
    BY <1>2 DEF Enqueue
  <1>5. futures' = futures \o order /\ kw \in [S -> SUBSET S] /\ order \in [1..Cardinality(S) -> S]
    BY <1>2 DEF Enqueue
  <1>6. \A g \in S : kw[g] \subseteq {k \in S : k < g}
    BY <1>2 DEF IsSubgraph
  <1>7. \A i, j \in DOMAIN order : order[i] = order[j] => i = j
    BY <1>2 DEF IsEnqueueOrder
  <1> HIDE DEF S
  <1>8. IsFiniteSet(S) /\ Cardinality(S) \in Nat
    <2>1. IsFiniteSet(0..MaxFutures)
      BY FS_Interval, ConstantsAssumption
    <2> QED
      BY <1>3, <2>1, FS_Subset, FS_CardinalityType
  <1>9. order \in Seq(S) /\ DOMAIN order = 1..Cardinality(S)
    BY <1>5, <1>8
  <1>10. \A g \in S : \E i \in DOMAIN order : order[i] = g
    <2>1. order \in Injection(1..Cardinality(S), S)
      BY <1>5, <1>7 DEF Injection, IsInjective
    <2>2. Cardinality(1..Cardinality(S)) = Cardinality(S)
      BY <1>8, FS_Interval
    <2>3. order \in Surjection(1..Cardinality(S), S)
      BY <1>8, <2>1, <2>2, FS_Injection
    <2> QED
      BY <1>9, <2>3 DEF Surjection
  <1>11. PICK m \in S : \A k \in S : m <= k
    BY <1>3, LeastNumber, ConstantsAssumption
  <1>12. kw[m] = {}
    <2>1. m \in Int /\ \A k \in S : k \in Int
      BY <1>3, ConstantsAssumption
    <2>2. \A k \in S : ~ (k < m)
      BY <1>11, <2>1
    <2> QED
      BY <1>6, <2>2
  <1>13. fut \in Futures /\ fut[f].state = "SCHEDULED" /\ f \notin S
    BY <1>3 DEF Nests, Now, CurrentInv, WorkInv, Unmade, TypeOK, Futures
  <1>14. \A g \in S : /\ fut'[g].state = "CREATED" /\ fut'[g].parent = f /\ fut'[g].kwargs = kw[g]
                      /\ fut[g].state = "NONE" /\ run[g] = "NONE"
    <2> SUFFICES ASSUME NEW g \in S
                 PROVE  /\ fut'[g].state = "CREATED" /\ fut'[g].parent = f
                        /\ fut'[g].kwargs = kw[g]
                        /\ fut[g].state = "NONE" /\ run[g] = "NONE"
      OBVIOUS
    <2>1. fut'[g] = [NewFuture EXCEPT !.kwargs = kw[g], !.parent = f]
      BY <1>3, <1>4
    <2>2. fut[g].state = "NONE" /\ run[g] = "NONE"
      BY <1>3 DEF Unmade, Now, DataInv, FutureInv, Agrees
    <2> QED
      BY <2>1, <2>2 DEF NewFuture
  <1>15. \A g \in Ids \ S : /\ fut'[g].state = fut[g].state /\ fut'[g].kwargs = fut[g].kwargs
                            /\ fut'[g].parent = fut[g].parent
                            /\ g # f => fut'[g].nested = fut[g].nested
    <2> SUFFICES ASSUME NEW g \in Ids \ S
                 PROVE  /\ fut'[g].state = fut[g].state /\ fut'[g].kwargs = fut[g].kwargs
                        /\ fut'[g].parent = fut[g].parent
                        /\ g # f => fut'[g].nested = fut[g].nested
      OBVIOUS
    <2>1. fut[g] \in FutureObject
      BY <1>13 DEF Futures
    <2>2. CASE g = f
      <3>1. fut'[g] = [fut[g] EXCEPT !.nested = top]
        BY <1>4, <2>2
      <3> QED
        BY <2>1, <2>2, <3>1 DEF FutureObject
    <2>3. CASE g # f
      BY <1>4, <2>3
    <2> QED
      BY <2>2, <2>3
  <1>16. fut'[f].nested = top
    <2>1. fut'[f] = [fut[f] EXCEPT !.nested = top] /\ fut[f] \in FutureObject
      BY <1>4, <1>13 DEF Futures
    <2> QED
      BY <2>1 DEF FutureObject
  <1>17. Grows(f, S, order)
    <2>1. \E g \in S : fut'[g].kwargs = {}
      BY <1>11, <1>12, <1>14
    <2>2. \A g \in S : /\ fut'[g].state = "CREATED" /\ fut'[g].parent = f
                       /\ fut[g].state = "NONE" /\ run[g] = "NONE"
      BY <1>14
    <2>3. fut'[f].nested # NoFuture
      BY <1>3, <1>16
    <2>4. order \in Seq(S) /\ futures' = futures \o order
      BY <1>5, <1>9
    <2> QED
      BY <1>7, <1>10, <1>13, <1>15, <2>1, <2>2, <2>3, <2>4, Zenon DEF Grows
  <1>18. pc' = "nesting" /\ current' = f /\ UNCHANGED <<server, cursor, work>>
    BY DEF Nests, SetNestedFuture
  <1> QED
    BY <1>3, <1>17, <1>18

\* What a future that is made, and one that has no row, go through.
LEMMA SeedKept ==
  ASSUME Now, Kept, [Next]_vars, pc' \notin Ended, NEW f \in Ids, Seed(f),
         ~ (FutureDidRun /\ fut[f].parent = current)
  PROVE  Seed(f)' /\ fut'[f].parent = fut[f].parent
  <1>1. run'[f] = "NONE"
    BY RowsMade DEF Seed
  <1>2. Moves(f) /\ FutureInv(f) /\ fut'[f].kwargs = fut[f].kwargs /\ fut'[f].parent = fut[f].parent
    BY DEF Kept, SameGraph, Now, DataInv
  <1>3. jobs[f] \in [live : Nat, doomed : Nat]
    BY DEF Now, TypeOK
  <1> QED
    BY <1>1, <1>2 DEF Seed, Moves, Stays, SameState, IsCalled, CalledInline, GetsValue, IsRetried,
         IsCanceled, HasRun, GetsRow, WorkerLeaves, FutureInv, OneWorker

LEMMA RowlessKept ==
  ASSUME Now, Kept, NEW f \in Ids, Rowless(f)'
  PROVE  Rowless(f) /\ fut'[f].parent = fut[f].parent
  BY NothingForgotten DEF Rowless, Now, Kept, SameGraph

LEMMA OrderStep ==
  ASSUME Now, JobsEndBeforeRetries, TypeOK', OrderInv, [Next]_vars, pc' \notin Ended
  PROVE  OrderInv'
  <1>0. /\ futures \in Seq(Ids) /\ futures' \in Seq(Ids) /\ cursor \in Nat \ {0}
        /\ current \in Ids \cup {NoFuture}
    BY DEF Now, TypeOK
  <1>1. ASSUME Kept, futures' = futures,
               pc' \in {"executing", "nesting"} /\ work' = {} =>
                 cursor' \in DOMAIN futures /\ \A i \in Ahead' : futures[i] # current'
        PROVE  OrderInv'
    <2>1. \A i \in DOMAIN futures : futures[i] \in Ids
      BY <1>0
    <2>2. \A i \in DOMAIN futures : fut'[futures[i]].state # "NONE"
      BY <1>1, <2>1, NothingForgotten DEF OrderInv, Now
    <2> QED
      BY <1>1, <2>2 DEF OrderInv
  <1>2. CASE Calls /\ Kept
    <2>1. cursor' \in DOMAIN futures /\ \A i \in Ahead' : futures[i] # current'
      BY <1>0, <1>2 DEF Calls, Ahead, OrderInv
    <2> QED
      BY <1>1, <1>2, <2>1 DEF Calls
  <1>3. CASE UNCHANGED <<control, futures>> /\ Kept
    <2>1. Ahead' = Ahead
      BY <1>3 DEF Ahead, control
    <2> QED
      BY <1>1, <1>3, <2>1 DEF OrderInv, control
  <1>4. ASSUME Kept, \/ Start /\ pc' = "loop" /\ UNCHANGED futures
                     \/ Begins \/ Advances \/ EndPass \/ Waits \/ Leaves \/ Evict
        PROVE  OrderInv'
    <2>1. futures' = futures /\ pc' \notin {"executing", "nesting"}
      <3>1. CASE EndPass \/ Evict
        BY <3>1 DEF EndPass, Evict, memory
      <3>2. CASE Leaves
        BY <3>2 DEF Leaves
      <3> QED
        BY <1>4, <3>1, <3>2 DEF Begins, Advances, Waits
    <2> QED
      BY <1>1, <1>4, <2>1
  <1>5. ASSUME NEW f \in Ids, Nests(f) PROVE OrderInv'
    <2>1. /\ \E S \in SUBSET Ids : \E order : Grows(f, S, order)
          /\ pc' = "nesting" /\ current' = f
          /\ UNCHANGED <<server, cursor, work>>
      BY <1>5, NestsGrows
    <2>a. PICK S \in SUBSET Ids : \E order : Grows(f, S, order)
      BY <2>1
    <2>2. PICK order : Grows(f, S, order)
      BY <2>a
    <2>3. /\ order \in Seq(S) /\ futures' = futures \o order /\ f \notin S
          /\ \A i, j \in DOMAIN order : order[i] = order[j] => i = j
          /\ \A g \in S : fut'[g].state = "CREATED" /\ fut[g].state = "NONE"
          /\ \A g \in Ids \ S : fut'[g].state = fut[g].state
      BY <2>2 DEF Grows
    <2>4. /\ Len(futures) \in Nat /\ Len(order) \in Nat
          /\ DOMAIN futures' = 1..(Len(futures) + Len(order)) /\ DOMAIN futures = 1..Len(futures)
          /\ \A i \in DOMAIN futures : futures'[i] = futures[i] /\ futures[i] \in Ids \ S
          /\ \A i \in DOMAIN futures' \ DOMAIN futures :
               /\ i - Len(futures) \in DOMAIN order
               /\ futures'[i] = order[i - Len(futures)] /\ futures'[i] \in S
      <3>1. order \in Seq(Ids) /\ Len(futures) \in Nat /\ Len(order) \in Nat
        BY <1>0, <2>3
      <3>2. /\ Len(futures') = Len(futures) + Len(order)
            /\ \A i \in 1..Len(futures') :
                 futures'[i] = IF i <= Len(futures) THEN futures[i] ELSE order[i - Len(futures)]
        BY <1>0, <2>3, <3>1, ConcatProperties
      <3>3. /\ DOMAIN futures = 1..Len(futures) /\ DOMAIN order = 1..Len(order)
            /\ DOMAIN futures' = 1..(Len(futures) + Len(order))
        BY <1>0, <3>1, <3>2
      <3>4. \A i \in DOMAIN futures : futures[i] \in Ids \ S
        BY <1>0, <2>3 DEF OrderInv
      <3>5. \A i \in DOMAIN order : order[i] \in S
        BY <2>3
      <3>6. \A i \in DOMAIN futures : futures'[i] = futures[i]
        BY <3>1, <3>2, <3>3
      <3>7. ASSUME NEW i \in DOMAIN futures' \ DOMAIN futures
            PROVE  /\ i - Len(futures) \in DOMAIN order
                   /\ futures'[i] = order[i - Len(futures)]
        BY <3>1, <3>2, <3>3
      <3> QED
        BY <3>1, <3>3, <3>4, <3>5, <3>6, <3>7
    <2>5. \A i \in DOMAIN futures' : fut'[futures'[i]].state # "NONE"
      BY <2>3, <2>4 DEF OrderInv
    <2>6. ASSUME NEW i \in DOMAIN futures', NEW j \in DOMAIN futures', futures'[i] = futures'[j]
          PROVE  i = j
      <3>1. CASE i \in DOMAIN futures /\ j \in DOMAIN futures
        BY <2>4, <2>6, <3>1 DEF OrderInv
      <3>2. CASE i \notin DOMAIN futures /\ j \notin DOMAIN futures
        <4>1. i - Len(futures) = j - Len(futures)
          BY <2>3, <2>4, <2>6, <3>2
        <4> QED
          BY <2>4, <4>1
      <3> QED
        BY <2>4, <2>6, <3>1, <3>2
    <2>b. work' = {} => cursor' \in DOMAIN futures'
      BY <1>5, <2>1, <2>4 DEF Nests, OrderInv, Now, WorkInv
    <2>7. ASSUME work' = {}, NEW i \in Ahead' PROVE futures'[i] # current'
      <3>1. f = current /\ pc = "executing" /\ work = {}
        BY <1>5, <2>1, <2>7 DEF Nests
      <3>2. CASE i \in DOMAIN futures
        BY <2>1, <2>4, <2>7, <3>1, <3>2 DEF OrderInv, Ahead
      <3>3. CASE i \notin DOMAIN futures
        BY <2>1, <2>3, <2>4, <2>7, <3>3 DEF Ahead
      <3> QED
        BY <3>2, <3>3
    <2> QED
      BY <2>1, <2>5, <2>6, <2>7, <2>b DEF OrderInv
  <1>6. CASE Restart /\ status = "RUNNING"
    <2> DEFINE S == {f \in Ids : run[f] # "NONE"}
    <2>1. PICK order \in [1..Cardinality(S) -> S] : IsReentryOrder(order) /\ futures' = order
      BY <1>6 DEF Restart
    <2>2. \A f \in S : fut'[f].state # "NONE"
      <3> SUFFICES ASSUME NEW f \in S PROVE fut'[f].state # "NONE"
        OBVIOUS
      <3>1. fut'[f] = Rebuilt(f)
        BY <1>6 DEF Restart
      <3> QED
        BY <3>1, RebuiltFields
    <2>3. pc' = "loop"
      BY <1>6 DEF Restart
    <2> QED
      BY <2>1, <2>2, <2>3 DEF OrderInv, IsReentryOrder
  <1>7. CASE Restart /\ Kept /\ status # "RUNNING"
    BY <1>1, <1>7 DEF Restart, memory
  <1>8. Goes \/ (\E f \in Ids : Nests(f)) \/ (Restart /\ status = "RUNNING")
    BY StepKinds DEF GivesUp, Succeeds, Ended
  <1> QED
    BY <1>2, <1>3, <1>4, <1>5, <1>6, <1>7, <1>8, Places DEF Goes

LEMMA SeedStep ==
  ASSUME Now, JobsEndBeforeRetries, TypeOK', OrderInv, SeedInv, [Next]_vars, pc' \notin Ended
  PROVE  SeedInv'
  <1> SUFFICES ASSUME pc' = "nesting" PROVE SeedInv'
    BY DEF SeedInv
  <1>0. /\ futures \in Seq(Ids) /\ futures' \in Seq(Ids) /\ cursor \in Nat \ {0}
    BY DEF Now, TypeOK
  <1>1. ASSUME NEW f \in Ids, Nests(f) PROVE SeedInv'
    <2>1. /\ \E S \in SUBSET Ids : \E order : Grows(f, S, order)
          /\ current' = f /\ UNCHANGED <<server, cursor, work>>
      BY <1>1, NestsGrows
    <2>2. PICK S \in SUBSET Ids : \E order : Grows(f, S, order)
      BY <2>1
    <2>3. PICK order : Grows(f, S, order)
      BY <2>2
    <2>4. PICK g \in S : fut'[g].kwargs = {}
      BY <2>3 DEF Grows
    <2>5. /\ order \in Seq(Ids) /\ futures' = futures \o order
          /\ fut'[g].state = "CREATED" /\ fut'[g].parent = f /\ run[g] = "NONE"
      BY <2>3, <2>4 DEF Grows
    <2>6. PICK i \in DOMAIN order : order[i] = g
      BY <2>3, <2>4 DEF Grows
    <2>7. /\ Len(futures) \in Nat /\ Len(order) \in Nat /\ i \in 1..Len(order)
          /\ Len(futures') = Len(futures) + Len(order)
          /\ \A j \in 1..Len(futures') :
               futures'[j] = IF j <= Len(futures) THEN futures[j] ELSE order[j - Len(futures)]
      BY <1>0, <2>5, <2>6, ConcatProperties
    <2>8. /\ Len(futures) + i \in DOMAIN futures' /\ futures'[Len(futures) + i] = g
          /\ Len(futures) < Len(futures) + i
      <3>1. DOMAIN futures' = 1..Len(futures')
        BY <1>0
      <3>2. Len(futures) + i \in 1..Len(futures') /\ ~ (Len(futures) + i <= Len(futures))
        BY <2>7
      <3>3. (Len(futures) + i) - Len(futures) = i
        BY <2>7
      <3>4. futures'[Len(futures) + i] = order[(Len(futures) + i) - Len(futures)]
        BY <2>7, <3>2
      <3> QED
        BY <2>6, <2>7, <3>1, <3>2, <3>3, <3>4
    <2>9. work' = {} => cursor' < Len(futures) + i
      <3>1. work' = {} => cursor \in DOMAIN futures
        BY <1>1, <2>1 DEF Nests, OrderInv, Now, WorkInv
      <3> QED
        BY <1>0, <2>1, <2>7, <3>1
    <2>10. Seed(g)' /\ fut'[g].parent = current'
      BY <2>1, <2>4, <2>5 DEF Seed, server
    <2>11. \E j \in DOMAIN futures' : futures'[j] = g /\ (work' = {} => cursor' < j)
      BY <2>8, <2>9
    <2> QED
      BY <2>10, <2>11 DEF SeedInv
  <1>2. CASE Kept /\ UNCHANGED <<control, futures>>
    <2>1. /\ pc = "nesting" /\ current' = current /\ futures' = futures /\ work' = work
          /\ cursor' = cursor
      BY <1>2 DEF control
    <2>2. PICK f \in Ids : /\ Seed(f) /\ fut[f].parent = current
                           /\ \E i \in DOMAIN futures : futures[i] = f /\ (work = {} => cursor < i)
      BY <2>1 DEF SeedInv
    <2>3. ~ FutureDidRun
      BY <2>1 DEF FutureDidRun, Advance
    <2>4. Seed(f)' /\ fut'[f].parent = current'
      BY <1>2, <2>1, <2>2, <2>3, SeedKept
    <2> QED
      BY <2>1, <2>2, <2>4 DEF SeedInv
  <1>3. ~ Restart /\ ~ Start /\ ~ Begins /\ ~ Advances /\ ~ Calls /\ ~ Waits /\ ~ Leaves /\ ~ EndPass
        /\ ~ Evict
    BY DEF Restart, Start, PipelineRunDidFail, Ends, Begins, Advances, Calls, Waits, Leaves, EndPass,
           Evict
  <1>4. Goes \/ (\E f \in Ids : Nests(f))
    BY <1>3, StepKinds DEF GivesUp, Succeeds, Ended
  <1> QED
    BY <1>1, <1>2, <1>3, <1>4, Places DEF Goes

\* What has gone astray stays so until the pass comes to it.
LEMMA AstrayStep ==
  ASSUME Now, JobsEndBeforeRetries, TypeOK', OrderInv, Astray, [Next]_vars,
         pc' \notin Ended \cup {"down"}
  PROVE  Astray' /\ (pc # "loop" => pc' # "loop")
  <1>0. /\ futures \in Seq(Ids) /\ futures' \in Seq(Ids) /\ cursor \in Nat \ {0} /\ fut \in Futures
    BY Zenon DEF Now, TypeOK, Futures
  <1>1. PICK f \in Ids : Stray(f)
    BY DEF Astray
  <1>2. PICK i \in Ahead : futures[i] = f
    BY <1>1 DEF Stray
  <1>3. /\ pc \in {"loop", "pass", "executing", "nesting"} /\ work = {} /\ Seed(f)
        /\ i \in DOMAIN futures /\ (pc = "pass" => cursor <= i)
        /\ (pc \in {"executing", "nesting"} => cursor < i)
    BY <1>1, <1>2 DEF Stray, Astray, Ahead
  <1>4. ~ (pc = "nesting" /\ current = fut[f].parent)
    BY <1>1, <1>3 DEF Stray, Now, CurrentInv
  <1>5. ~ Start /\ ~ Waits /\ ~ Leaves /\ ~ Restart /\ ~ Evict
    BY <1>3 DEF Start, Waits, Leaves, Restart, Evict
  <1>6. ~ EndPass
    BY <1>0, <1>3 DEF EndPass
  <1>7. ASSUME NEW g \in Ids, Nests(g) PROVE Astray' /\ pc' # "loop"
    <2>1. /\ \E S \in SUBSET Ids : \E order : Grows(g, S, order)
          /\ pc' = "nesting" /\ current' = g /\ UNCHANGED <<server, cursor, work>>
      BY <1>7, NestsGrows
    <2>2. PICK S \in SUBSET Ids : \E order : Grows(g, S, order)
      BY <2>1
    <2>3. PICK order : Grows(g, S, order)
      BY <2>2
    <2>4. /\ order \in Seq(S) /\ order \in Seq(Ids) /\ futures' = futures \o order
          /\ \A h \in S : fut[h].state = "NONE"
          /\ \A h \in Ids \ S : /\ fut'[h].state = fut[h].state /\ fut'[h].kwargs = fut[h].kwargs
                                /\ fut'[h].parent = fut[h].parent
      BY <2>3 DEF Grows
    <2>5. /\ Len(futures) \in Nat /\ Len(order) \in Nat
          /\ Len(futures') = Len(futures) + Len(order)
          /\ \A j \in 1..Len(futures') :
               futures'[j] = IF j <= Len(futures) THEN futures[j] ELSE order[j - Len(futures)]
      BY <1>0, <2>4, ConcatProperties
    <2>6. /\ pc = "executing" /\ g = current /\ f \notin S
      BY <1>3, <1>7, <2>4 DEF Nests, Seed
    <2>7. Seed(f)' /\ fut'[f].parent = fut[f].parent
      BY <1>3, <2>1, <2>4, <2>6 DEF Seed, server
    <2>8. /\ i \in DOMAIN futures' /\ futures'[i] = f /\ cursor' < i
      BY <1>0, <1>2, <1>3, <2>1, <2>5, <2>6
    <2>9. \A j \in Ahead' : (j \in Ahead /\ futures'[j] = futures[j]) \/ futures'[j] \in S
      <3> SUFFICES ASSUME NEW j \in Ahead', ~ (j \in Ahead /\ futures'[j] = futures[j])
                   PROVE  futures'[j] \in S
        OBVIOUS
      <3>1. j \in 1..Len(futures') /\ cursor < j
        BY <1>0, <2>1 DEF Ahead
      <3>2. ~ (j <= Len(futures))
        BY <1>0, <2>5, <2>6, <3>1 DEF Ahead
      <3>3. j - Len(futures) \in 1..Len(order) /\ futures'[j] = order[j - Len(futures)]
        BY <2>5, <3>1, <3>2
      <3> QED
        BY <2>4, <3>3
    <2>10. fut[f].parent \in Standalone \/ fut[f].parent \notin S
      <3>1. fut[f].parent \in Ids \cup {NoFuture} /\ fut[f].state # "NONE"
        BY <1>0, <1>3 DEF Futures, FutureObject, Seed
      <3>2. fut[f].parent # NoFuture => fut[fut[f].parent].state # "NONE"
        BY <3>1 DEF Now, DataInv, FutureInv, ParentMade
      <3>3. NoFuture \notin S
        BY <2>2, RootInIds
      <3> QED
        BY <2>4, <3>1, <3>2, <3>3
    <2>11. Stray(f)'
      <3>1. \/ fut'[f].parent \in Standalone
            \/ /\ current' # fut'[f].parent
               /\ \A j \in Ahead' : futures'[j] # fut'[f].parent
        BY <1>1, <2>1, <2>6, <2>7, <2>9, <2>10 DEF Stray
      <3>2. \E j \in Ahead' : futures'[j] = f
        BY <2>1, <2>8 DEF Ahead
      <3> QED
        BY <2>7, <3>1, <3>2 DEF Stray
    <2> QED
      BY <1>3, <2>1, <2>11 DEF Astray
  <1>8. CASE Kept /\ (Begins \/ Advances \/ Calls \/ UNCHANGED <<control, futures>>)
    <2>1. ~ (FutureDidRun /\ fut[f].parent = current)
      BY <1>4 DEF FutureDidRun
    <2>2. Seed(f)' /\ fut'[f].parent = fut[f].parent
      BY <1>3, <1>8, <2>1, SeedKept
    <2>3. /\ futures' = futures /\ work' = work
          /\ pc' \in {"loop", "pass", "executing", "nesting"} /\ (pc # "loop" => pc' # "loop")
      BY <1>3, <1>8 DEF Begins, Advances, Calls, control
    <2>4. pc = "pass" /\ pc' # pc => cursor < i
      BY <1>0, <1>2, <1>3, <1>8 DEF Begins, Advances, Calls, control
    <2>5. i \in Ahead'
      <3>1. CASE Begins
        BY <1>0, <1>3, <3>1 DEF Begins, Ahead
      <3>2. CASE Advances
        <4>1. pc = "pass" => i # cursor
          BY <1>2, <1>3, <3>2 DEF Advances
        <4> QED
          BY <1>0, <1>3, <3>2, <4>1 DEF Advances, Ahead
      <3>3. CASE Calls
        <4>1. i # cursor
          BY <1>2, <1>3, <3>3 DEF Calls
        <4> QED
          BY <1>0, <1>3, <3>3, <4>1 DEF Calls, Ahead
      <3>4. CASE UNCHANGED <<control, futures>>
        BY <1>2, <3>4 DEF control, Ahead
      <3> QED
        BY <1>8, <3>1, <3>2, <3>3, <3>4
    <2>6. \A j \in Ahead' : j \in Ahead
      BY <1>0, <1>3, <1>8 DEF Begins, Advances, Calls, control, Ahead
    <2>7. \/ fut[f].parent \in Standalone
          \/ /\ pc' \in {"executing", "nesting"} => current' # fut[f].parent
             /\ \A j \in Ahead' : futures[j] # fut[f].parent
      <3> SUFFICES ASSUME fut[f].parent \notin Standalone
                   PROVE  /\ pc' \in {"executing", "nesting"} => current' # fut[f].parent
                          /\ \A j \in Ahead' : futures[j] # fut[f].parent
        OBVIOUS
      <3>1. /\ pc \in {"executing", "nesting"} => current # fut[f].parent
            /\ \A j \in Ahead : futures[j] # fut[f].parent
        BY <1>1 DEF Stray
      <3>2. CASE Calls
        <4>1. cursor \in Ahead
          BY <1>0, <3>2 DEF Calls, Ahead
        <4> QED
          BY <2>6, <3>1, <3>2, <4>1 DEF Calls
      <3> QED
        BY <1>8, <2>6, <3>1, <3>2 DEF Begins, Advances, control
    <2>8. Stray(f)'
      BY <1>2, <2>2, <2>3, <2>5, <2>7 DEF Stray
    <2> QED
      BY <1>3, <2>3, <2>8 DEF Astray
  <1>9. Goes \/ (\E g \in Ids : Nests(g))
    BY <1>5, StepKinds DEF GivesUp, Succeeds, Ended
  <1> QED
    BY <1>5, <1>6, <1>7, <1>8, <1>9, Places DEF Goes

-----------------------------------------------------------------------------
(* The invariant is preserved. *)

\* What no step of those that are kept can make.
LEMMA RowlessStep ==
  ASSUME Now, JobsEndBeforeRetries, TypeOK', OrderInv, SeedInv, StatusInv, RowlessInv,
         [Next]_vars, pc' \notin Ended
  PROVE  RowlessInv'
  <1> SUFFICES ASSUME pc' # "down" PROVE RowlessInv'
    BY DEF RowlessInv
  <1>0. cursor \in Nat \ {0} /\ DOMAIN futures \subseteq Nat
    <2>1. futures \in Seq(Ids) /\ cursor \in Nat \ {0}
      BY DEF Now, TypeOK
    <2> QED
      BY <2>1
  <1>1. CASE Astray
    BY <1>1, AstrayStep DEF RowlessInv
  <1>2. CASE Restart /\ status = "RUNNING"
    <2> SUFFICES ASSUME NEW f \in Ids, run'[f] = "NONE" PROVE fut'[f].state = "NONE"
      BY DEF RowlessInv, Rowless
    <2>1. /\ fut'[f] = Rebuilt(f)
          /\ run'[f] = IF f \notin Standalone /\ run[f] = "SCHEDULED" THEN "RETRYING" ELSE run[f]
      BY <1>2 DEF Restart
    <2>2. run[f] = "NONE"
      BY <2>1
    <2>3. fut'[f] = NotMade
      BY <2>1, <2>2, RebuiltFields
    <2> QED
      BY <2>3 DEF NotMade, NewFuture
  <1>3. CASE pc = "down" /\ ~ (Restart /\ status = "RUNNING")
    <2>1. Restart /\ UNCHANGED <<memory, run>> /\ status = "SCHEDULED"
      <3>1. Restart
        BY <1>3, Places
           DEF Start, Begins, Advances, Calls, EndPass, Waits, Leaves, Nests, Evict, Active, control
      <3> QED
        BY <1>3, <3>1 DEF Restart
    <2>2. \A f \in Ids : ~ Rowless(f)
      BY <2>1 DEF Rowless, StatusInv, Now, DataInv
    <2>3. \A f \in Ids : ~ Rowless(f)'
      BY <2>1, <2>2 DEF Rowless, memory
    <2> QED
      BY <2>3 DEF RowlessInv
  <1>4. CASE Kept /\ \A f \in Ids : ~ Rowless(f)
    BY <1>4, RowlessKept DEF RowlessInv
  <1>5. ASSUME NEW f \in Ids, Nests(f), \A g \in Ids : ~ Rowless(g)
        PROVE  RowlessInv'
    <2>1. /\ \E S \in SUBSET Ids : \E order : Grows(f, S, order)
          /\ pc' = "nesting" /\ current' = f /\ UNCHANGED server
      BY <1>5, NestsGrows
    <2>2. PICK S \in SUBSET Ids : \E order : Grows(f, S, order)
      BY <2>1
    <2>3. PICK order : Grows(f, S, order)
      BY <2>2
    <2>4. ASSUME NEW g \in Ids, Rowless(g)' PROVE fut'[g].parent = current'
      <3>1. fut'[g].state # "NONE" /\ run[g] = "NONE" /\ fut[g].state = "NONE"
        BY <1>5, <2>1, <2>4 DEF Rowless, server
      <3>2. g \in S
        BY <2>3, <3>1 DEF Grows
      <3> QED
        BY <2>1, <2>3, <3>2 DEF Grows
    <2> QED
      BY <2>1, <2>4 DEF RowlessInv
  <1>6. CASE pc = "nesting" /\ \A f \in Ids : Rowless(f) => fut[f].parent = current
    <2>1. Kept
      <3>1. ~ Restart /\ \A f \in Ids : ~ Nests(f)
        BY <1>6 DEF Restart, Nests
      <3> QED
        BY <3>1, StepKinds DEF Goes, GivesUp, Succeeds, Ended
    <2>2. \A f \in Ids : Rowless(f)' =>
            Rowless(f) /\ fut[f].parent = current /\ fut'[f].parent = current
      BY <1>6, <2>1, RowlessKept
    <2>3. CASE FutureDidRun
      <3>1. run' = NestedRuns(current)
        BY <2>3 DEF FutureDidRun, SaveRuns
      <3>2. \A f \in Ids : fut[f].parent = current => run'[f] # "NONE"
        BY <3>1 DEF NestedRuns
      <3>3. \A f \in Ids : ~ Rowless(f)'
        BY <2>2, <3>2 DEF Rowless
      <3> QED
        BY <3>3 DEF RowlessInv
    <2>4. CASE UNCHANGED <<control, futures>>
      BY <1>6, <2>2, <2>4 DEF RowlessInv, control
    <2>5. CASE ~ FutureDidRun /\ (Advances \/ Leaves)
      <3>1. PICK f \in Ids : /\ Seed(f) /\ fut[f].parent = current
                             /\ \E i \in DOMAIN futures : futures[i] = f /\ (work = {} => cursor < i)
        BY <1>6 DEF SeedInv
      <3>2. PICK i \in DOMAIN futures : futures[i] = f /\ (work = {} => cursor < i)
        BY <3>1
      <3>3. Seed(f)' /\ fut'[f].parent = current
        BY <2>1, <2>5, <3>1, SeedKept
      <3>4. CASE Advances
        <4>1. /\ work = {} /\ pc' = "pass" /\ cursor' = cursor + 1
              /\ futures' = futures /\ work' = work
          BY <3>4 DEF Advances
        <4>2. i \in Ahead'
          <5>1. i \in Nat /\ cursor < i
            BY <1>0, <3>2, <4>1
          <5> QED
            BY <1>0, <4>1, <5>1 DEF Ahead
        <4>3. \A j \in Ahead' : j \in Ahead
          <5> SUFFICES ASSUME NEW j \in Ahead' PROVE j \in Ahead
            OBVIOUS
          <5>1. j \in DOMAIN futures /\ cursor + 1 <= j
            BY <4>1 DEF Ahead
          <5>2. j \in Nat
            BY <1>0, <5>1
          <5> QED
            BY <1>0, <1>6, <5>1, <5>2 DEF Ahead
        <4>4. \A j \in Ahead' : futures'[j] # fut'[f].parent
          BY <1>6, <3>3, <4>1, <4>3 DEF OrderInv
        <4>5. Stray(f)'
          BY <3>2, <3>3, <4>1, <4>2, <4>4 DEF Stray
        <4> QED
          BY <4>1, <4>5 DEF RowlessInv, Astray
      <3>5. CASE Leaves
        <4>1. pc' = "loop" /\ work' = {} /\ futures' = futures /\ current \in Standalone
          BY <1>6, <2>5, <3>5 DEF Leaves, Now, CurrentInv
        <4>2. i \in Ahead'
          BY <4>1 DEF Ahead
        <4>3. Stray(f)'
          BY <3>2, <3>3, <4>1, <4>2 DEF Stray
        <4> QED
          BY <4>1, <4>3 DEF RowlessInv, Astray
      <3> QED
        BY <2>5, <3>4, <3>5
    <2>6. UNCHANGED <<control, futures>> \/ Advances \/ Leaves
      <3>1. ~ Start /\ ~ Begins /\ ~ Calls /\ ~ EndPass /\ ~ Waits /\ ~ Evict /\ ~ Restart
            /\ \A f \in Ids : ~ Nests(f)
        BY <1>6 DEF Start, Begins, Calls, EndPass, Waits, Evict, Restart, Nests
      <3> QED
        BY <3>1, Places
    <2> QED
      BY <2>3, <2>4, <2>5, <2>6
  <1>7. Kept \/ (\E f \in Ids : Nests(f)) \/ (Restart /\ status = "RUNNING")
    BY StepKinds DEF Goes, GivesUp, Succeeds, Ended
  <1> QED
    BY <1>1, <1>2, <1>3, <1>4, <1>5, <1>6, <1>7 DEF RowlessInv

LEMMA AloneStep ==
  ASSUME Now, JobsEndBeforeRetries, TypeOK', AloneInv, [Next]_vars, pc' \notin Ended
  PROVE  AloneInv'
  <1> SUFFICES ASSUME Root \in Standalone
               PROVE  /\ fut'[Root].nested = NoFuture =>
                           \A f \in Ids \ {Root} : fut'[f].state = "NONE"
                      /\ fut'[Root].state \in {"CREATED", "RETRYING", "SCHEDULED"} =>
                           \A f \in Ids \ {Root} : run'[f] = "NONE"
    BY DEF AloneInv
  <1>1. /\ fut[Root].nested = NoFuture => \A f \in Ids \ {Root} : fut[f].state = "NONE"
        /\ fut[Root].state \in {"CREATED", "RETRYING", "SCHEDULED"} =>
             \A f \in Ids \ {Root} : run[f] = "NONE"
        /\ Root \in Ids /\ run[Root] # "NONE" /\ \A f \in Ids : FutureInv(f)
    BY RootInIds DEF AloneInv, Now, DataInv
  <1>2. CASE Kept
    <2>1. fut'[Root].nested = fut[Root].nested /\ \A f \in Ids : Moves(f)
      BY <1>1, <1>2 DEF Kept, SameGraph
    <2>2. \A f \in Ids : fut[f].state = "NONE" => fut'[f].state = "NONE"
      BY <1>2, NothingForgotten DEF Now
    <2>3. fut'[Root].state \in {"CREATED", "RETRYING", "SCHEDULED"} =>
            fut[Root].state \in {"CREATED", "RETRYING", "SCHEDULED"}
      BY <1>1, <2>1 DEF Moves, Stays, SameState, IsCalled, CalledInline, GetsValue, IsRetried,
           IsCanceled, HasRun, GetsRow, WorkerLeaves, Executable
    <2>4. ASSUME fut'[Root].state \in {"CREATED", "RETRYING", "SCHEDULED"},
                 NEW f \in Ids \ {Root}, run'[f] # "NONE"
          PROVE  FALSE
      <3>1. \A g \in Ids \ {Root} : run[g] = "NONE"
        BY <1>1, <2>3, <2>4
      <3>2. GetsRow(f)
        BY <1>1, <2>1, <2>4, <3>1 DEF Moves, Stays, SameState, IsCalled, CalledInline, GetsValue,
             IsRetried, IsCanceled, HasRun, WorkerLeaves, FutureInv, Agrees, OneWorker
      <3>3. fut[f].parent \in Ids /\ HasRun(fut[f].parent)
        BY <3>2 DEF GetsRow
      <3>4. fut[f].parent # Root
        BY <2>4, <3>3 DEF HasRun
      <3> QED
        BY <1>1, <3>1, <3>3, <3>4 DEF HasRun, FutureInv, Agrees
    <2> QED
      BY <1>1, <2>1, <2>2, <2>4
  <1>3. ASSUME NEW g \in Ids, Nests(g)
        PROVE  /\ fut'[Root].nested # NoFuture
               /\ fut'[Root].state = fut[Root].state /\ run' = run
    <2>1. /\ \E S \in SUBSET Ids : \E order : Grows(g, S, order)
          /\ UNCHANGED server
      BY <1>3, NestsGrows
    <2>2. PICK S \in SUBSET Ids : \E order : Grows(g, S, order)
      BY <2>1
    <2>3. PICK order : Grows(g, S, order)
      BY <2>2
    <2>4. Root \notin S
      BY <1>1, <2>3 DEF Grows
    <2>5. CASE g = Root
      BY <1>1, <2>1, <2>3, <2>4, <2>5 DEF Grows, server
    <2>6. CASE g # Root
      <3>1. fut[Root].nested # NoFuture
        BY <1>1, <2>3, <2>6 DEF Grows
      <3> QED
        BY <1>1, <2>1, <2>3, <2>4, <2>6, <3>1 DEF Grows, server
    <2> QED
      BY <2>5, <2>6
  <1>4. CASE Restart /\ status = "RUNNING"
    <2>1. \A f \in Ids :
            /\ fut'[f] = Rebuilt(f)
            /\ run[f] = "NONE" => run'[f] = "NONE" /\ fut'[f].state = "NONE"
      <3> SUFFICES ASSUME NEW f \in Ids
                   PROVE  /\ fut'[f] = Rebuilt(f)
                          /\ run[f] = "NONE" => run'[f] = "NONE" /\ fut'[f].state = "NONE"
        OBVIOUS
      <3>1. /\ fut'[f] = Rebuilt(f)
            /\ run'[f] = IF f \notin Standalone /\ run[f] = "SCHEDULED" THEN "RETRYING" ELSE run[f]
        BY <1>4 DEF Restart
      <3>2. run[f] = "NONE" => fut'[f] = NotMade
        BY <3>1, RebuiltFields
      <3> QED
        BY <3>1, <3>2 DEF NotMade, NewFuture
    <2>2. /\ fut'[Root].state = run[Root]
          /\ fut'[Root].nested = IF fut[Root].nested # NoFuture /\ run[fut[Root].nested] # "NONE"
                                 THEN fut[Root].nested ELSE NoFuture
      BY <1>1, <2>1, RebuiltFields
    <2>3. fut[Root].nested = NoFuture => \A f \in Ids \ {Root} : run[f] = "NONE"
      BY <1>1 DEF FutureInv, Agrees
    <2>4. NestsOnce(Root) /\ SavedInTime(Root) /\ RunsRemotely
      BY <1>1, <1>4 DEF FutureInv, Now, DownInv, Restart
    <2>5. fut'[Root].nested = NoFuture => \A f \in Ids \ {Root} : run[f] = "NONE"
      BY <1>1, <2>2, <2>3, <2>4 DEF SavedInTime, NestedSaved
    <2>6. fut'[Root].state \in {"CREATED", "RETRYING", "SCHEDULED"} =>
            \A f \in Ids \ {Root} : run[f] = "NONE"
      BY <2>2, <2>3, <2>4 DEF NestsOnce
    <2> QED
      BY <2>1, <2>5, <2>6
  <1>5. Kept \/ (\E f \in Ids : Nests(f)) \/ (Restart /\ status = "RUNNING")
    BY StepKinds DEF Goes, GivesUp, Succeeds, Ended
  <1> QED
    BY <1>1, <1>2, <1>3, <1>4, <1>5

LEMMA StatusStep ==
  ASSUME Now, JobsEndBeforeRetries, StatusInv, [Next]_vars, pc' \notin Ended
  PROVE  StatusInv' /\ (status = "CANCELED" => status' = "CANCELED")
  <1>1. status \in {"SCHEDULED", "RUNNING", "CANCELED"} /\ pc \notin Ended
    BY DEF StatusInv, Now
  <1>2. CASE Start
    BY <1>2 DEF Start, PipelineRunDidFail, Ends, Ended, StatusInv
  <1>3. CASE ServerCancels
    BY <1>3 DEF ServerCancels, StatusInv
  <1>4. CASE status' = status
    <2>1. ASSUME status = "SCHEDULED"
          PROVE  fut'[Root].state # "CANCELED" /\ \A f \in Ids \ {Root} : fut'[f].state = "NONE"
      <3>1. pc \in {"starting", "down"} /\ pc \notin Active
        BY <1>1, <2>1 DEF Now, InlineInv, TypeOK, Active
      <3>2. Kept
        <4>1. \A f \in Ids : ~ Nests(f)
          BY <3>1 DEF Nests
        <4> QED
          BY <2>1, <4>1, StepKinds DEF Goes, GivesUp, Succeeds, Ended
      <3>3. \A f \in Ids \ {Root} : fut'[f].state = "NONE"
        BY <2>1, <3>2, NothingForgotten DEF StatusInv, Now
      <3>4. fut'[Root].state # "CANCELED"
        <4>1. ~ CancelSignalFails /\ pc # "pass"
          BY <3>1 DEF CancelSignalFails
        <4>2. Restart => fut' = fut
          BY <2>1 DEF Restart, memory
        <4>3. fut[Root].state # "CANCELED"
          BY <2>1 DEF StatusInv
        <4> QED
          BY <4>1, <4>2, <4>3, BecomesCanceled, RootInIds
      <3> QED
        BY <3>3, <3>4
    <2> QED
      BY <1>1, <1>4, <2>1 DEF StatusInv
  <1> QED
    BY <1>2, <1>3, <1>4, Surroundings DEF Evict, Restart, server

\* A future that is CANCELED stays so, but for a pod that is back.
LEMMA CanceledStays ==
  ASSUME Now, JobsEndBeforeRetries, [Next]_vars, pc' \notin Ended,
         NEW f \in Ids, fut[f].state = "CANCELED"
  PROVE  fut'[f].state = "CANCELED" \/ (Restart /\ status = "RUNNING")
  <1>1. CASE Kept
    <2>1. Moves(f)
      BY <1>1 DEF Kept
    <2> QED
      BY <2>1 DEF Moves, Stays, SameState, IsCalled, CalledInline, GetsValue, IsRetried,
           IsCanceled, HasRun, GetsRow, WorkerLeaves, Executable
  <1>2. ASSUME NEW g \in Ids, Nests(g) PROVE fut'[f].state = "CANCELED"
    <2>1. PICK S \in SUBSET Ids : \E order : Grows(g, S, order)
      BY <1>2, NestsGrows
    <2>2. PICK order : Grows(g, S, order)
      BY <2>1
    <2> QED
      BY <2>2 DEF Grows
  <1> QED
    BY <1>1, <1>2, StepKinds DEF Goes, GivesUp, Succeeds, Ended

\* The handler that fails while a call goes on has canceled everything else.
LEMMA SignalFails ==
  ASSUME Now, CancelSignalFails, pc' \notin Ended
  PROVE  /\ pc \in {"executing", "nesting"} /\ work = {} /\ current \in Ids
         /\ fut' = MarkForRetry(CanceledFutures, current)
         /\ run' = [CancelNonTerminal(run) EXCEPT ![current] = "RETRYING"]
         /\ pc' = "pass" /\ run[current] # "NONE"
  <1>1. /\ pc \in {"executing", "nesting"}
        /\ fut' = MarkForRetry(CanceledFutures, current)
        /\ run' = [CancelNonTerminal(run) EXCEPT ![current] = "RETRYING"]
        /\ pc' = "pass" /\ (pc = "nesting" => work = {})
    BY DEF CancelSignalFails, HandleFutureFailure, PipelineRunDidFail, Ends, Ended, Advance, SaveRuns
  <1>2. work = {} /\ current \in Ids
    BY <1>1 DEF Now, InlineInv, CurrentKnown
  <1>3. run[current] # "NONE"
    BY <1>1, <1>2 DEF Now, CurrentInv, DataInv, FutureInv, Agrees
  <1> QED
    BY <1>1, <1>2, <1>3

LEMMA CanceledStep ==
  ASSUME Now, JobsEndBeforeRetries, StatusInv, CanceledInv, [Next]_vars, pc' \notin Ended
  PROVE  CanceledInv'
  <1> SUFFICES ASSUME run'[Root] = "CANCELED", RunsRemotely \/ fut'[Root].state # "CANCELED"
               PROVE  status' = "CANCELED"
    BY DEF CanceledInv
  <1>1. status = "CANCELED" => status' = "CANCELED"
    BY StatusStep
  <1>2. Root \in Ids /\ run[Root] # "NONE"
    BY RootInIds DEF Now, DataInv
  <1>3. CASE run[Root] = "CANCELED"
    <2>1. CASE RunsRemotely
      BY <1>1, <1>3, <2>1 DEF CanceledInv
    <2>2. CASE ~ RunsRemotely
      <3>1. ~ Restart
        BY <2>2 DEF Restart, Now, DownInv
      <3>2. fut[Root].state # "CANCELED"
        BY <1>2, <2>2, <3>1, CanceledStays
      <3> QED
        BY <1>1, <1>3, <3>2 DEF CanceledInv
    <2> QED
      BY <2>1, <2>2
  <1>4. CASE CancelSignalFails
    <2>1. /\ current \in Ids
          /\ fut' = MarkForRetry(CanceledFutures, current)
          /\ run' = [CancelNonTerminal(run) EXCEPT ![current] = "RETRYING"]
      BY <1>4, SignalFails
    <2>2. CancelNonTerminal(run)[Root]
            = IF run[Root] = "NONE" \/ IsTerminal(run[Root]) THEN run[Root] ELSE "CANCELED"
      BY <1>2 DEF CancelNonTerminal
    <2>3. DOMAIN CancelNonTerminal(run) = Ids
      BY DEF CancelNonTerminal
    <2>4. Root # current
      BY <1>2, <2>1, <2>3
    <2>5. CASE IsTerminal(run[Root])
      BY <1>2, <1>3, <2>1, <2>2, <2>3, <2>4, <2>5
    <2>6. CASE ~ IsTerminal(run[Root])
      <3>1. CanceledFutures \in Futures /\ fut \in Futures /\ "CANCELED" \in FutureState
        BY CanceledFuturesType DEF Now, TypeOK, Futures, FutureState
      <3>2. fut'[Root] = CanceledFutures[Root]
        BY <1>2, <2>1, <2>4, <3>1, MarkForRetryFields
      <3>3. CanceledFutures[Root] = SetState(fut, Root, "CANCELED")[Root]
        BY <1>2, <2>6 DEF CanceledFutures
      <3>4. SetState(fut, Root, "CANCELED")[Root].state = "CANCELED"
        BY <1>2, <3>1, SetStateFields
      <3>5. ~ RunsRemotely
        BY <1>4 DEF CancelSignalFails
      <3> QED
        BY <3>2, <3>3, <3>4, <3>5
    <2> QED
      BY <2>5, <2>6
  <1> QED
    BY <1>2, <1>3, <1>4, NothingCanceled

LEMMA RootStep ==
  ASSUME Now, Now', JobsEndBeforeRetries, OrderInv, SeedInv, RowlessInv, AloneInv, StatusInv,
         CanceledInv, RootInv, [Next]_vars, pc' \notin Ended
  PROVE  RootInv'
  <1> SUFFICES ASSUME fut'[Root].state = "CANCELED", pc' \in Active
               PROVE  Closed' \/ (Astray' /\ pc' # "loop")
    BY DEF RootInv
  <1>1. /\ Root \in Ids /\ run[Root] # "NONE" /\ FutureInv(Root)
        /\ TypeOK' /\ pc' # "down" /\ jobs[Root] \in [live : Nat, doomed : Nat]
    BY RootInIds DEF Now, DataInv, TypeOK, Active
  <1>2. ~ (Restart /\ status = "RUNNING")
    <2> SUFFICES ASSUME Restart, status = "RUNNING" PROVE FALSE
      OBVIOUS
    <2>1. fut'[Root] = Rebuilt(Root) /\ RunsRemotely
      BY <1>1 DEF Restart, Now, DownInv
    <2>2. run[Root] = "CANCELED"
      BY <1>1, <2>1, RebuiltFields
    <2> QED
      BY <2>1, <2>2 DEF CanceledInv
  <1>3. CASE fut[Root].state # "CANCELED"
    <2>1. CASE CancelSignalFails
      <3>1. /\ current \in Ids /\ run[current] # "NONE" /\ pc' = "pass"
            /\ run' = [CancelNonTerminal(run) EXCEPT ![current] = "RETRYING"]
            /\ pc \in {"executing", "nesting"}
        BY <2>1, SignalFails
      <3>2. PICK f \in Ids : fut[f].state # "NONE" /\ run[f] = "NONE"
        BY <2>1 DEF CancelSignalFails
      <3>3. run'[f] = "NONE"
        BY <3>1, <3>2 DEF CancelNonTerminal
      <3>4. Kept
        <4>1. CancelSignalFails => ~ SetNestedFuture(current)
          BY <3>1 DEF SetNestedFuture
        <4> QED
          BY <2>1, CancelFailsGoes DEF Goes, GivesUp, Ended
      <3>5. Rowless(f)'
        BY <3>2, <3>3, <3>4, NothingForgotten DEF Rowless, Now
      <3>6. RowlessInv'
        BY <1>1, RowlessStep
      <3> QED
        BY <3>1, <3>5, <3>6 DEF RowlessInv
    <2>2. ~ Restart
      BY <1>2, <1>3 DEF Restart, memory
    <2>3. CASE /\ ScheduleFuture(Root) /\ Advance(TRUE) /\ UNCHANGED server
               /\ run[Root] = "CANCELED" /\ pc = "pass"
      <3>1. /\ Root \in Standalone /\ fut[Root].state \in {"CREATED", "RETRYING"}
            /\ run' = run /\ jobs' = jobs /\ status' = status
            /\ pc' = "pass" /\ changed' = TRUE
        BY <2>3 DEF ScheduleFuture, Executable, Advance, server
      <3>2. status = "CANCELED"
        BY <1>3, <2>3 DEF CanceledInv
      <3>3. fut[Root].nested = NoFuture
        BY <1>1, <3>1 DEF FutureInv, NestsOnce
      <3>4. Out(Root) = 0
        BY <1>1, <3>1 DEF FutureInv, OneWorker, Out
      <3>5. Kept
        <4>1. \A f \in Ids : ~ Nests(f)
          BY <2>3 DEF Nests
        <4> QED
          BY <2>2, <4>1, StepKinds DEF Goes, GivesUp, Succeeds, Ended
      <3>6. \A f \in Ids \ {Root} : fut'[f].state = "NONE"
        BY <3>1, <3>3, <3>5, NothingForgotten DEF AloneInv, Now
      <3> QED
        BY <2>3, <3>1, <3>2, <3>4, <3>6 DEF Closed, Out, IsTerminal, TerminalStates
    <2> QED
      BY <1>1, <1>3, <2>1, <2>2, <2>3, BecomesCanceled
  <1>4. CASE fut[Root].state = "CANCELED" /\ pc \notin Active
    <2>1. ~ Start
      BY <1>4 DEF Start, PipelineRunDidFail, Ends, Ended, StatusInv
    <2>2. pc \in {"starting", "down"}
      BY <1>4 DEF Now, TypeOK
    <2>3. ~ Restart
      BY <1>1, <1>2 DEF Restart, Active
    <2>4. ~ UNCHANGED <<control, futures>>
      BY <1>4 DEF control
    <2> QED
      BY <1>1, <2>1, <2>2, <2>3, <2>4, Places
         DEF Begins, Advances, Calls, EndPass, Waits, Leaves, Nests, Evict
  <1>5. CASE fut[Root].state = "CANCELED" /\ Astray /\ pc # "loop"
    BY <1>1, <1>5, AstrayStep
  <1>6. CASE fut[Root].state = "CANCELED" /\ Closed
    <2>1. /\ status = "CANCELED" /\ IsTerminal(run[Root]) /\ Out(Root) = 0
          /\ \A f \in Ids \ {Root} : fut[f].state = "NONE"
          /\ pc \in {"loop", "pass"} /\ (pc = "pass" => changed)
      BY <1>6 DEF Closed
    <2>2. Kept
      <3>1. \A f \in Ids : ~ Nests(f)
        BY <2>1 DEF Nests
      <3> QED
        BY <1>2, <3>1, StepKinds DEF Goes, GivesUp, Succeeds, Ended
    <2>3. status' = "CANCELED"
      BY <2>1, StatusStep
    <2>4. \A f \in Ids \ {Root} : fut'[f].state = "NONE"
      BY <2>1, <2>2, NothingForgotten DEF Now
    <2>5. IsTerminal(run'[Root]) /\ Out(Root)' = 0
      <3>1. Moves(Root)
        BY <1>1, <2>2 DEF Kept
      <3> QED
        BY <1>1, <1>6, <2>1, <3>1 DEF Moves, Stays, SameState, IsCalled, CalledInline, GetsValue,
          IsRetried, IsCanceled, HasRun, GetsRow, WorkerLeaves, Executable, IsTerminal, TerminalStates
    <2>6. pc' \in {"loop", "pass"} /\ (pc' = "pass" => changed')
      <3>1. ~ Begins
        BY <1>6 DEF Begins, IsTerminal, TerminalStates
      <3>2. ~ Calls
        <4> SUFFICES ASSUME Calls PROVE FALSE
          OBVIOUS
        <4>1. pc' = "executing" /\ cursor \in DOMAIN futures /\ current' = futures[cursor]
          BY DEF Calls
        <4>2. futures[cursor] \in Ids
          <5>1. futures \in Seq(Ids)
            BY DEF Now, TypeOK
          <5> QED
            BY <4>1, <5>1
        <4>3. futures[cursor] = Root
          BY <2>1, <4>1, <4>2 DEF OrderInv
        <4>4. fut'[current'].state = "SCHEDULED"
          BY <4>1 DEF Now, CurrentInv
        <4> QED
          BY <4>1, <4>3, <4>4
      <3>3. CASE Advances
        BY <2>1, <3>3 DEF Advances
      <3>4. CASE EndPass
        BY <2>1, <3>4 DEF EndPass
      <3>5. CASE UNCHANGED <<control, futures>>
        BY <2>1, <3>5 DEF control
      <3>6. ~ Start /\ ~ Waits /\ ~ Leaves /\ ~ Evict /\ ~ Restart /\ \A f \in Ids : ~ Nests(f)
        BY <1>1, <2>1 DEF Start, Waits, Leaves, Evict, Restart, Nests
      <3> QED
        BY <3>1, <3>2, <3>3, <3>4, <3>5, <3>6, Places
    <2> QED
      BY <2>3, <2>4, <2>5, <2>6 DEF Closed
  <1> QED
    BY <1>3, <1>4, <1>5, <1>6 DEF RootInv

LEMMA EndStep ==
  ASSUME Now, Now', JobsEndBeforeRetries, EndInv, [Next]_vars
  PROVE  EndInv'
  <1>1. /\ OrderInv /\ SeedInv /\ RowlessInv /\ AloneInv /\ StatusInv /\ CanceledInv /\ RootInv
        /\ TypeOK' /\ pc' \notin Ended
    BY DEF EndInv, Now
  <1>2. OrderInv' /\ SeedInv' /\ RowlessInv'
    BY <1>1, OrderStep, SeedStep, RowlessStep
  <1>3. AloneInv' /\ StatusInv' /\ CanceledInv'
    BY <1>1, AloneStep, StatusStep, CanceledStep
  <1>4. RootInv'
    BY <1>1, RootStep
  <1> QED
    BY <1>2, <1>3, <1>4 DEF EndInv

LEMMA EndInit == Init => EndInv
  <1> SUFFICES ASSUME Init PROVE EndInv
    OBVIOUS
  <1>1. /\ \A f \in Ids : fut[f] = IF f = Root THEN NewFuture ELSE NotMade
        /\ \A f \in Ids : run[f] = IF f = Root THEN "CREATED" ELSE "NONE"
        /\ futures = <<Root>> /\ status = "SCHEDULED" /\ pc = "starting" /\ Root \in Ids
    BY RootInIds DEF Init
  <1>2. /\ \A f \in Ids : fut[f].state = IF f = Root THEN "CREATED" ELSE "NONE"
        /\ DOMAIN futures = {1} /\ futures[1] = Root
    BY <1>1 DEF NewFuture, NotMade
  <1>3. OrderInv /\ SeedInv
    BY <1>1, <1>2 DEF OrderInv, SeedInv
  <1>4. RowlessInv /\ AloneInv
    BY <1>1, <1>2 DEF RowlessInv, Rowless, AloneInv
  <1>5. StatusInv /\ CanceledInv /\ RootInv
    BY <1>1, <1>2 DEF StatusInv, CanceledInv, RootInv, Active
  <1> QED
    BY <1>3, <1>4, <1>5 DEF EndInv

\* Nothing is open on the server.
Tidied ==
  /\ status' \in TerminalStatuses
  /\ \A f \in Ids : run'[f] # "NONE" => IsTerminal(run'[f])

\* An error that leaves the loop leaves nothing open.
LEMMA DidFailTidies ==
  ASSUME status \in PipelineStatus, NEW F, NEW R, NEW e, PipelineRunDidFail(F, R, e)
  PROVE  Tidied
  <1>1. status' = UpdateStatus(status, "FAILED") /\ run' = MoveRunsToTerminalState(R)
    BY DEF PipelineRunDidFail, SaveRuns
  <1>2. status' \in TerminalStatuses
    BY <1>1 DEF UpdateStatus, StatusTransitions, PipelineStatus, TerminalStatuses
  <1>3. \A f \in Ids : run'[f] # "NONE" => IsTerminal(run'[f])
    BY <1>1 DEF MoveRunsToTerminalState, IsTerminal, TerminalStates
  <1> QED
    BY <1>2, <1>3 DEF Tidied

\* The runs that are canceled together are closed.
LEMMA CanceledRowsClosed ==
  ASSUME NEW f \in Ids, run' = CancelNonTerminal(run), run'[f] # "NONE"
  PROVE  IsTerminal(run'[f])
  BY DEF CancelNonTerminal, IsTerminal, TerminalStates

LEMMA TidyStep ==
  ASSUME Now, EndInv, [Next]_vars, pc' \in Ended
  PROVE  Tidied
  <1>0. /\ pc \in {"starting", "down"} \cup Active /\ status \in PipelineStatus /\ pc \notin Ended
        /\ pc' \in {"succeeded", "failed", "canceled"}
    BY DEF Now, TypeOK, Ended
  <1> DEFINE fails == \E F, R, e : PipelineRunDidFail(F, R, e)
  <1>1. fails => Tidied
    BY <1>0, DidFailTidies
  <1>2. CASE Start
    BY <1>0, <1>1, <1>2 DEF Start
  <1>3. CASE LoopHead
    <2>1. CASE status = "RUNNING" /\ status' = "COMPLETE" /\ SaveRuns(CancelNonTerminal(run))
      BY <2>1, CanceledRowsClosed DEF Tidied, TerminalStatuses, SaveRuns
    <2>2. CASE fut[Root].state = "CANCELED" /\ UNCHANGED server
      <3>1. pc = "loop" /\ pc \in Active
        BY <1>3 DEF LoopHead, Active
      <3>2. Closed
        BY <1>0, <2>2, <3>1 DEF EndInv, RootInv
      <3>3. \A f \in Ids \ {Root} : run[f] = "NONE"
        BY <3>2 DEF Closed, Now, DataInv, FutureInv, Agrees
      <3> QED
        BY <2>2, <3>2, <3>3 DEF Closed, Tidied, TerminalStatuses, server
    <2> QED
      BY <1>0, <1>1, <1>3, <2>1, <2>2 DEF LoopHead
  <1>4. ASSUME NEW f \in Ids, Visit(f) PROVE fails
    <2>1. ~ VisitIdle(f) /\ ~ CacheHit(f)
      BY <1>0 DEF VisitIdle, CacheHit, Advance
    <2>2. CASE RunNestedFuture(f)
      BY <1>0, <2>2 DEF RunNestedFuture, Advance
    <2>3. CASE ExecuteWithoutRun(f)
      BY <2>3 DEF ExecuteWithoutRun
    <2>4. CASE RunInline(f)
      BY <1>0, <2>4 DEF RunInline, HandleFutureFailure, Advance
    <2>5. CASE ScheduleFuture(f)
      BY <1>0, <2>5 DEF ScheduleFuture, Advance
    <2> QED
      BY <1>4, <2>1, <2>2, <2>3, <2>4, <2>5 DEF Visit
  <1>5. ~ EndPass /\ ~ FutureDidRun
    BY <1>0 DEF EndPass, FutureDidRun, Advance
  <1>6. CASE Execute
    <2>1. ~ FunctionReturnsValue /\ ~ FunctionReturnsFuture
      BY <1>0 DEF FunctionReturnsValue, FunctionReturnsFuture, SetNestedFuture, Advance
    <2>2. CASE FunctionRaises
      <3>1. PICK retriable \in BOOLEAN :
              HandleFutureFailure(fut, run, current, retriable, Advance(TRUE))
        BY <2>2 DEF FunctionRaises
      <3> QED
        BY <1>0, <1>1, <3>1 DEF HandleFutureFailure, Advance
    <2>3. CASE FunctionTimesOut
      BY <1>0, <1>1, <2>3 DEF FunctionTimesOut, HandleFutureFailure, Advance
    <2> QED
      BY <1>6, <2>1, <2>2, <2>3 DEF Execute
  <1>7. CASE Wait
    <2>1. CASE ProcessRunOutput
      BY <1>0, <1>1, <2>1 DEF ProcessRunOutput, SetNestedFuture, HandleFutureFailure
    <2> QED
      BY <1>0, <1>1, <1>7, <2>1 DEF Wait, WaitTimesOut, NothingToWaitFor, PollRuns, EndProcessing,
                        AlarmInterrupts, BackToLoop, HandleFutureFailure
  <1>8. CASE CancelSignal
    <2>1. /\ run' = CancelNonTerminal(run) /\ pc \in Active
          /\ status' = UpdateStatus(status, StatusAfterCleanUp(run'))
      BY <1>8 DEF CancelSignal, SaveRuns
    <2>2. status \in {"RUNNING", "CANCELED"}
      BY <1>0, <2>1 DEF EndInv, StatusInv, Now, InlineInv
    <2>3. StatusAfterCleanUp(run') \in TerminalStatuses
      BY DEF StatusAfterCleanUp, TerminalStatuses
    <2>4. status' \in TerminalStatuses
      BY <2>1, <2>2, <2>3 DEF UpdateStatus, StatusTransitions, PipelineStatus, TerminalStatuses
    <2> QED
      BY <2>1, <2>4, CanceledRowsClosed DEF Tidied
  <1>9. CASE CancelSignalFails
    BY <1>0, <1>1, <1>9 DEF CancelSignalFails, HandleFutureFailure, Advance
  <1>10. ~ Evict /\ ~ Restart /\ ~ ServerCancels /\ ~ UNCHANGED vars
         /\ \A f \in Ids : ~ WorkerEnds(f) /\ ~ PodKilled(f) /\ ~ TimePasses(f)
    BY <1>0 DEF Evict, Restart, ServerCancels, vars, control, WorkerEnds, PodKilled, TimePasses, Ended
  <1> QED
    BY <1>1, <1>2, <1>3, <1>4, <1>5, <1>6, <1>7, <1>8, <1>9, <1>10 DEF Next, Runner, Finished

\* run() leaves nothing open on the server, however it ends: after a success, a
\* failure of any kind, a signal, a cancellation that it only notices when it
\* schedules the root, and a call that was cut off between the futures it made
\* and their rows.
THEOREM EndsTidyAlways == JobsEndBeforeRetries /\ Spec => EndsTidy
  <1> DEFINE H == JobsEndBeforeRetries
             Inv == H /\ TypeOK /\ CurrentKnown /\ InlineInv /\ RunInv /\ EndInv
  <1>1. H /\ Init => Inv
    BY InitType, InlineInit, RunInit, EndInit DEF Init, CurrentKnown
  <1>2. Inv /\ [Next]_vars => Inv'
    <2> SUFFICES ASSUME Inv, [Next]_vars PROVE Inv'
      OBVIOUS
    <2>1. H' /\ TypeOK' /\ CurrentKnown' /\ InlineInv' /\ RunInv'
      BY TypeStep, CurrentStep, InlineStep, RunStep DEF JobsEndBeforeRetries
    <2>2. CASE pc' \in Ended
      BY <2>1, <2>2 DEF EndInv
    <2>3. CASE pc' \notin Ended
      <3>1. pc \notin Ended
        BY <2>3, EndedStays
      <3>2. Now
        BY <3>1 DEF Now, RunInv
      <3>3. Now'
        BY <2>1, <2>3 DEF Now, RunInv
      <3>4. EndInv'
        BY <3>2, <3>3, EndStep
      <3> QED
        BY <2>1, <3>4
    <2> QED
      BY <2>2, <2>3
  <1>3. Inv /\ [Next]_vars =>
          [pc \notin Ended /\ pc' \in Ended =>
             /\ status' \in TerminalStatuses
             /\ \A f \in Ids : run'[f] # "NONE" => IsTerminal(run'[f])]_vars
    <2> SUFFICES ASSUME Inv, [Next]_vars, pc \notin Ended, pc' \in Ended
                 PROVE  /\ status' \in TerminalStatuses
                        /\ \A f \in Ids : run'[f] # "NONE" => IsTerminal(run'[f])
      OBVIOUS
    <2>1. Now
      BY DEF Now, RunInv
    <2>2. Tidied
      BY <2>1, TidyStep
    <2> QED
      BY <2>2 DEF Tidied
  <1> QED
    BY <1>1, <1>2, <1>3, PTL DEF Spec, EndsTidy
=============================================================================
