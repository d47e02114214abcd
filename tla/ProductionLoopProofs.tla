------------------------- MODULE ProductionLoopProofs -------------------------
(* The quota gate of the production loop and its wake coordinator, for any   *)
(* projects and however often the environment acts on the worker.            *)
EXTENDS ProductionLoop, TLAPS

\* What the gate needs of the types.
QuotaTypes ==
    /\ cached \in Snapshots \union {None} /\ stored \in Snapshots \union {None}
    /\ usage \in Levels /\ lastRead \in Levels \union {None}
    /\ dropped \in BOOLEAN /\ behind \in BOOLEAN

(* The row carries the last answer once that is persisted, and so does what *)
(* the process holds, unless it fell behind the row.                        *)
ObservationsAgree ==
    /\ ~dropped /\ stored # None => stored.level = lastRead
    /\ ~dropped /\ ~behind /\ cached # None => cached.level = lastRead

\* What is about to be persisted is an answer.
AnswerRead == pc \in {"persist", "prune"} => lastRead \in Levels

\* A queued hand-over finds the loop where wait() left it.
WaiterWaits == waiter => pc = "waiting"

GateInv == QuotaTypes /\ AnswerRead /\ ObservationsAgree /\ BlockIsObeyed

(* At the start nobody waits, nothing is read and nothing is dispatched. *)
LEMMA GateInit == Init => WaiterWaits /\ GateInv
  BY DEF Init, WaiterWaits, GateInv, QuotaTypes, AnswerRead, ObservationsAgree, BlockIsObeyed,
         Dispatching, Levels

(* A waiter is registered only while the loop sleeps in wait. *)
LEMMA WaiterStep == WaiterWaits /\ [Next]_vars => WaiterWaits'
<1> SUFFICES ASSUME WaiterWaits, [Next]_vars
             PROVE  WaiterWaits'
  OBVIOUS
<1> USE DEF WaiterWaits
<1>1. CASE Start \/ Wait \/ Flush \/ Notified \/ Timeout \/ Crash
  BY <1>1 DEF Start, Wait, Flush, Notified, Timeout, Crash, WakeWith, Take
<1>2. CASE ReadMode \/ Refresh \/ Read \/ Store \/ Prune \/ Manual \/ Cycle \/ CycleFails \/ FallBack
  BY <1>2 DEF ReadMode, Refresh, Read, Store, Prune, Manual, Cycle, CycleFails,
         FallBack, coordinator,
              Dispatching
<1>3. CASE \/ Asks \/ Pause \/ Resume \/ Consume \/ Recover \/ Age \/ UNCHANGED vars
           \/ \E p \in Projects : GithubChanges(p)
  BY <1>3 DEF Asks, Pause, Resume, Consume, Recover, Age, GithubChanges, Environment, coordinator,
              vars
<1> QED
  BY <1>1, <1>2, <1>3 DEF Next, Worker

\* Ageing changes no level.
LEMMA OlderSnapshot ==
    ASSUME NEW s \in Snapshots \union {None}
    PROVE  /\ Older(s) \in Snapshots \union {None}
           /\ Older(s) # None => s # None /\ Older(s).level = s.level
  BY DEF Older, Snapshots

(* A decision on an observation of the last answer lets nothing through     *)
(* that the answer refused.                                                 *)
LEMMA DecideObeys ==
    ASSUME NEW s, ~dropped' /\ ~behind' /\ s # None => s.level = lastRead', Decide(s)
    PROVE  BlockIsObeyed' /\ pc' \notin {"persist", "prune"}
  BY DEF Decide, CanStart, Loop, BlockIsObeyed, Dispatching

(* What a call that is cut off leaves: the row as it was, or the answer in it,
   ahead of what the process holds.  *)
LEMMA CutOffAgrees ==
    ASSUME QuotaTypes, AnswerRead, ObservationsAgree, MayAppend,
           UNCHANGED <<cached, lastRead, usage>>
    PROVE  QuotaTypes' /\ ObservationsAgree'
<1>1. CASE UNCHANGED <<stored, dropped, behind>>
  BY <1>1 DEF QuotaTypes, ObservationsAgree
<1>2. CASE pc = "persist" /\ Appended
  <2>1. Observation \in Snapshots /\ Observation.level = lastRead
    BY <1>2 DEF AnswerRead, Observation, Snapshots
  <2> QED
    BY <1>2, <2>1 DEF Appended, QuotaTypes, ObservationsAgree
<1> QED
  BY <1>1, <1>2 DEF MayAppend

(* Every step keeps the row to the last answer that was persisted, and the
   process to the row unless it fell behind.  *)
LEMMA GateStep == WaiterWaits /\ GateInv /\ [Next]_vars => GateInv'
<1> SUFFICES ASSUME WaiterWaits, GateInv, [Next]_vars
             PROVE  GateInv'
  OBVIOUS
<1> USE DEF GateInv
\* Steps that leave the quota alone and do not begin to dispatch.
<1>1. ASSUME UNCHANGED quota, usage' = usage,
             pc' \notin {"persist", "prune"}, pc' \in Dispatching => pc \in Dispatching
      PROVE  GateInv'
  BY <1>1 DEF QuotaTypes, AnswerRead, ObservationsAgree, BlockIsObeyed, quota
<1>2. CASE Start \/ Wait \/ Timeout \/ ReadMode \/ Manual \/ Cycle
  <2>1. UNCHANGED quota /\ usage' = usage
    BY <1>2 DEF Start, Wait, Timeout, ReadMode, Manual, Cycle, world
  <2>2. pc' \notin {"persist", "prune"} /\ (pc' \in Dispatching => pc \in Dispatching)
    BY <1>2 DEF Start, Wait, Timeout, ReadMode, Manual, Cycle, Loop, Take,
                WakeWith, Dispatching, WaiterWaits
  <2> QED
    BY <1>1, <2>1, <2>2
<1>3. ASSUME UNCHANGED <<pc, quota>>, usage' \in Levels
      PROVE  GateInv'
  BY <1>3 DEF QuotaTypes, AnswerRead, ObservationsAgree, BlockIsObeyed, quota
<1>4. CASE \/ Asks \/ Pause \/ Resume \/ Consume \/ Recover \/ Notified
           \/ \E p \in Projects : GithubChanges(p)
  <2>1. UNCHANGED <<pc, quota>>
    BY <1>4 DEF Asks, Pause, Resume, Consume, Recover, Notified, GithubChanges,
                Environment, quota
  <2>2. usage' \in Levels
    BY <1>4 DEF Asks, Pause, Resume, Consume, Recover, Notified, GithubChanges, Environment,
                world, QuotaTypes, Levels
  <2> QED
    BY <1>3, <2>1, <2>2
<1>5. CASE Flush
  <2>1. UNCHANGED quota /\ usage' = usage
    BY <1>5 DEF Flush, world
  <2>2. CASE waiter /\ pending # None
    BY <1>5, <1>1, <2>1, <2>2 DEF Flush, Take, WaiterWaits, Dispatching
  <2>3. CASE ~(waiter /\ pending # None)
    BY <1>5, <1>3, <2>1, <2>3 DEF Flush, QuotaTypes
  <2> QED
    BY <2>2, <2>3
<1>6. CASE Crash
  <2>1. /\ pc' = "down" /\ cached' = None /\ behind' = FALSE
        /\ UNCHANGED <<lastRead, usage>>
    BY <1>6 DEF Crash, world
  <2>2. AnswerRead' /\ BlockIsObeyed'
    BY <2>1 DEF AnswerRead, BlockIsObeyed, Dispatching
  <2>3. CASE UNCHANGED <<stored, dropped>>
    BY <2>1, <2>2, <2>3 DEF QuotaTypes, ObservationsAgree
  <2>4. CASE pc = "persist" /\ stored' = Observation /\ dropped' = FALSE
    <3>1. Observation \in Snapshots /\ Observation.level = lastRead
      BY <2>4 DEF AnswerRead, Observation, Snapshots
    <3> QED
      BY <2>1, <2>2, <2>4, <3>1 DEF QuotaTypes, ObservationsAgree
  <2> QED
    BY <1>6, <2>3, <2>4 DEF Crash
<1>7. CASE CycleFails
  <2>1. UNCHANGED <<cached, lastRead, usage>> /\ MayAppend /\ pc' = "recovered"
    BY <1>7 DEF CycleFails, Loop, world
  <2>2. QuotaTypes' /\ ObservationsAgree'
    BY <2>1, CutOffAgrees
  <2> QED
    BY <2>1, <2>2 DEF AnswerRead, BlockIsObeyed, Dispatching
<1>8. CASE Refresh
  <2>1. UNCHANGED quota /\ usage' = usage
    BY <1>8 DEF Refresh, world
  <2>2. QuotaTypes' /\ ObservationsAgree'
    BY <2>1 DEF quota, QuotaTypes, ObservationsAgree
  <2>3. CASE pc' = "read"
    BY <2>1, <2>2, <2>3 DEF AnswerRead, BlockIsObeyed, Dispatching
  <2>4. CASE Decide(cached)
    <3>1. ~dropped' /\ ~behind' /\ cached # None => cached.level = lastRead'
      BY <2>1 DEF ObservationsAgree, quota
    <3>2. BlockIsObeyed' /\ pc' \notin {"persist", "prune"}
      BY <2>4, <3>1, DecideObeys
    <3> QED
      BY <2>2, <3>2 DEF AnswerRead
  <2> QED
    BY <1>8, <2>3, <2>4 DEF Refresh
<1>9. CASE Read
  BY <1>9 DEF Read, world, QuotaTypes, AnswerRead, ObservationsAgree, BlockIsObeyed, Dispatching
<1>10. CASE Store
  <2>1. /\ pc = "persist" /\ pc' = "prune" /\ Appended
        /\ UNCHANGED <<cached, lastRead, usage>>
    BY <1>10 DEF Store, world
  <2>2. QuotaTypes' /\ ObservationsAgree'
    BY <2>1, CutOffAgrees DEF MayAppend
  <2> QED
    BY <2>1, <2>2 DEF AnswerRead, BlockIsObeyed, Dispatching
<1>11. CASE Prune
  <2>1. lastRead \in Levels => Observation \in Snapshots /\ Observation.level = lastRead
    BY DEF Observation, Snapshots
  <2>2. /\ pc = "prune" /\ cached' = Observation /\ behind' = FALSE
        /\ UNCHANGED <<stored, lastRead, dropped, usage>> /\ Decide(Observation)
    BY <1>11 DEF Prune, world
  <2>3. lastRead \in Levels
    BY <2>2 DEF AnswerRead
  <2>4. BlockIsObeyed' /\ pc' \notin {"persist", "prune"}
    BY <2>1, <2>2, <2>3, DecideObeys
  <2> QED
    BY <2>1, <2>2, <2>3, <2>4 DEF QuotaTypes, AnswerRead, ObservationsAgree
<1>14. CASE FallBack
  <2>1. UNCHANGED <<cached, lastRead, usage>> /\ MayAppend /\ Decide(Latest')
    BY <1>14 DEF FallBack, world
  <2>2. QuotaTypes' /\ ObservationsAgree'
    BY <2>1, CutOffAgrees
  <2>3. ~dropped' /\ ~behind' /\ Latest' # None => Latest'.level = lastRead'
    BY <2>2 DEF ObservationsAgree, Latest
  <2>4. BlockIsObeyed' /\ pc' \notin {"persist", "prune"}
    BY <2>1, <2>3, DecideObeys
  <2> QED
    BY <2>2, <2>4 DEF AnswerRead
<1>12. CASE Age
  <2>1. UNCHANGED <<pc, lastRead, dropped, behind, usage>>
        /\ cached' = Older(cached) /\ stored' = Older(stored)
    BY <1>12 DEF Age, world
  <2>2. cached' \in Snapshots \union {None} /\ stored' \in Snapshots \union {None}
    BY <2>1, OlderSnapshot DEF QuotaTypes
  <2>3. ObservationsAgree'
    BY <2>1, OlderSnapshot DEF QuotaTypes, ObservationsAgree
  <2> QED
    BY <2>1, <2>2, <2>3 DEF QuotaTypes, AnswerRead, BlockIsObeyed
<1>13. CASE UNCHANGED vars
  BY <1>13, <1>3 DEF vars, quota, world, QuotaTypes
<1> QED
  BY <1>2, <1>4, <1>6, <1>7, <1>8, <1>9, <1>10, <1>11, <1>12, <1>13, <1>14, <1>5 DEF Next, Worker

(* BlockIsObeyed: nothing is dispatched after the provider refused work,    *)
(* whatever restarts, failing calls, ageing snapshots and merged events lie *)
(* between, unless that refusal was not persisted, or this process still    *)
(* holds the observation before it because the call after the append failed. *)
THEOREM GateIsObeyed == Spec => []BlockIsObeyed
<1>1. GateInv => BlockIsObeyed
  BY DEF GateInv
<1> QED
  BY <1>1, GateInit, WaiterStep, GateStep, PTL DEF Spec

-----------------------------------------------------------------------------
(* The wake coordinator.                                                    *)

(* WorkerWakeCoordinator: the loop never sleeps over a wakeup that came in, *)
(* unless the microtask that hands it over is queued.                       *)
NoWakeupIsLost == waiter /\ pending # None => flush

(* wait and merge: a full reconcile that was asked for remains asked for,   *)
(* whatever is merged into it, until the loop takes it or the process ends. *)
FullReconcileIsKept ==
    [][pending # None /\ pending.full /\ pc' # "down" =>
          \/ pending' # None /\ pending'.full
          \/ pc' = "taken" /\ event' # None /\ event'.full]_vars

\* What the loop is at, and the coordinator beside it.
LoopTypes ==
    /\ pending \in Events \union {None} /\ waiter \in BOOLEAN /\ flush \in BOOLEAN
    /\ inbox \in Seq(Events)
    /\ pc \in {"down", "recovered", "waiting", "taken", "refresh", "read", "persist",
              "prune"} \union Dispatching
    /\ event \in Events \union {None}
    /\ pc \notin {"down", "recovered", "waiting"} => event # None

\* The rest of the world.
WorldTypes ==
    /\ mode \in {"running", "paused"}
    /\ stale \in [Projects -> BOOLEAN] /\ tasks \in Nat
    /\ turns \in 0..MaxTurns

(* Wakeups are events, and merging one into another keeps the full          *)
(* reconcile of either.                                                     *)
LEMMA MergingKeepsFull ==
  /\ \A r \in {"startup", "quota-refresh", "reconcile", "project", "periodic"} :
        \A p \in Projects \union {None} : \A f \in BOOLEAN : Wakeup(r, p, f) \in Events
  /\ pending \in Events \union {None} =>
        \A e \in Events : /\ Merged(e) \in Events /\ Merged(e) # None
                          /\ ((pending # None /\ pending.full) \/ e.full) => Merged(e).full
<1>1. \A r \in {"startup", "quota-refresh", "reconcile", "project", "periodic"} :
        \A p \in Projects \union {None} : \A f \in BOOLEAN : Wakeup(r, p, f) \in Events
  BY DEF Events, Wakeup
<1>2. ASSUME NEW e \in Events, pending \in Events \union {None}
      PROVE  Merged(e) \in Events /\ Merged(e) # None
             /\ (((pending # None /\ pending.full) \/ e.full) => Merged(e).full)
  <2>1. Merged(e) \in Events /\ (((pending # None /\ pending.full) \/ e.full) => Merged(e).full)
    BY <1>2 DEF Merged, Events
  <2> QED
    BY <2>1, NothingIsSomething
<1> QED
  BY <1>1, <1>2

(* No step takes a type away, or leaves a waiter alone with a wakeup.       *)
LEMMA LoopStep ==
  ASSUME LoopTypes, NoWakeupIsLost, WaiterWaits, [Next]_vars
  PROVE  LoopTypes' /\ NoWakeupIsLost'
<1> USE DEF LoopTypes, NoWakeupIsLost
<1>0. None \notin Events
  BY NothingIsSomething
<1>1. CASE Start
  BY <1>1, MergingKeepsFull DEF Start, WakeWith
<1>2. CASE Notified
  <2>1. Head(inbox) \in Events /\ Tail(inbox) \in Seq(Events)
    BY <1>2 DEF Notified
  <2> QED
    BY <1>2, <2>1, MergingKeepsFull DEF Notified, WakeWith
<1>3. CASE Wait
  BY <1>0, <1>3 DEF Wait, Take, WaiterWaits, Dispatching
<1>8. CASE Flush
  BY <1>0, <1>8 DEF Flush, Take, WaiterWaits, Dispatching
<1>9. CASE Crash
  <2>1. /\ pc' = "down" /\ event' = None /\ inbox' = <<>>
        /\ pending' = None /\ waiter' = FALSE /\ flush' = FALSE
    BY <1>9 DEF Crash
  <2>2. inbox' \in Seq(Events)
    BY ONLY <2>1
  <2> QED
    BY <2>1, <2>2
<1>4. CASE Timeout
  BY <1>0, <1>4, MergingKeepsFull DEF Timeout, Take
<1>5. CASE ReadMode \/ Refresh \/ Read \/ Store \/ Prune \/ Manual \/ Cycle \/ CycleFails \/ FallBack
  <2>1. UNCHANGED <<coordinator, inbox>> /\ pc \notin {"down", "recovered", "waiting"}
    BY <1>5 DEF ReadMode, Refresh, Read, Store, Prune, Manual, Cycle, CycleFails,
         FallBack, Dispatching
  <2>2. \/ pc' = "recovered" /\ event' = None
        \/ pc' \in {"refresh", "read", "persist", "prune"} \union Dispatching /\ event' = event
    BY <1>5 DEF ReadMode, Refresh, Read, Store, Prune, Manual, Cycle, CycleFails,
         FallBack, Loop, Decide,
                Dispatching
  <2> QED
    BY <2>1, <2>2 DEF coordinator
<1>6. CASE \/ Asks \/ \E p \in Projects : GithubChanges(p)
  <2>1. UNCHANGED <<coordinator, pc, event>>
    BY <1>6 DEF Asks, GithubChanges, Environment
  <2>2. inbox' = inbox \/ \E e \in Events : Signal(e)
    BY <1>6, MergingKeepsFull DEF Asks, GithubChanges, Environment
  <2>3. inbox' \in Seq(Events)
    BY <2>2 DEF Signal
  <2> QED
    BY <2>1, <2>3 DEF coordinator
<1>7. CASE Pause \/ Resume \/ Consume \/ Recover \/ Age \/ UNCHANGED vars
  BY <1>7 DEF Pause, Resume, Consume, Recover, Age, Environment, coordinator, vars
<1> QED
  BY <1>1, <1>2, <1>3, <1>4, <1>5, <1>6, <1>7, <1>8, <1>9 DEF Next, Worker

\* Nor does one leave the bounds of the world.
LEMMA WorldStep ==
  ASSUME WorldTypes, [Next]_vars
  PROVE  WorldTypes'
<1> USE DEF WorldTypes
<1>1. turns' = turns \/ Turn
  BY DEF Next, Worker, Start, Wait, Flush, Notified, Timeout, Crash, ReadMode, Refresh, Read, Store, Prune,
         Manual, Cycle, CycleFails, FallBack, Asks, GithubChanges, Pause, Resume, Consume, Recover,
         Age, Environment, vars
<1>2. turns' \in 0..MaxTurns
  BY <1>1, ProjectsAssumption DEF Turn
<1>3. mode' \in {"running", "paused"}
  BY DEF Next, Worker, Start, Wait, Flush, Notified, Timeout, Crash, ReadMode, Refresh, Read, Store, Prune,
         Manual, Cycle, CycleFails, FallBack, Asks, GithubChanges, Pause, Resume, Consume, Recover,
         Age, Environment, world, vars
<1>4. \/ tasks' \in {tasks, tasks + 1}
      \/ tasks > 0 /\ tasks' = tasks - 1
  <2>1. CASE Manual
    BY <2>1 DEF Manual
  <2>2. CASE Asks \/ \E p \in Projects : GithubChanges(p)
    BY <2>2 DEF Asks, GithubChanges, Environment
  <2>3. CASE ~ (Manual \/ Asks \/ \E p \in Projects : GithubChanges(p))
    BY <2>3 DEF Next, Worker, Start, Wait, Flush, Notified, Timeout, Crash, ReadMode, Refresh, Read,
           Store, Prune, Cycle, CycleFails, FallBack, Pause, Resume, Consume, Recover, Age, Environment,
           world, vars
  <2> QED
    BY <2>1, <2>2, <2>3
<1>5. \/ stale' = stale \/ Cycle
      \/ \E p \in Projects : stale' = [stale EXCEPT ![p] = TRUE]
  BY DEF Next, Worker, Start, Wait, Flush, Notified, Timeout, Crash, ReadMode, Refresh, Read, Store, Prune,
         Manual, CycleFails, FallBack, Asks, GithubChanges, Pause, Resume, Consume, Recover,
         Age, Environment, world, vars
<1>6. stale' \in [Projects -> BOOLEAN]
  BY <1>5 DEF Cycle, Looked
<1>7. tasks' \in Nat
  BY <1>4
<1> QED
  BY <1>2, <1>3, <1>6, <1>7

LEMMA LoopInvariance == Spec => [](LoopTypes /\ WorldTypes /\ NoWakeupIsLost /\ WaiterWaits)
<1>1. Init => LoopTypes /\ WorldTypes /\ NoWakeupIsLost
  <2> SUFFICES ASSUME Init PROVE LoopTypes /\ WorldTypes /\ NoWakeupIsLost
    OBVIOUS
  <2>1. LoopTypes /\ NoWakeupIsLost
    <3>1. inbox = <<>>
      BY DEF Init
    <3>2. inbox \in Seq(Events)
      BY ONLY <3>1
    <3> QED
      BY <3>2 DEF Init, LoopTypes, NoWakeupIsLost
  <2>2. WorldTypes
    BY ProjectsAssumption DEF Init, WorldTypes
  <2> QED
    BY <2>1, <2>2
<1> QED
  BY <1>1, GateInit, WaiterStep, LoopStep, WorldStep, PTL DEF Spec

(* The types of the worker, the coordinator and the world.                  *)
THEOREM LoopTypesHold == Spec => []TypeOK
<1>1. LoopTypes /\ WorldTypes /\ WaiterWaits /\ GateInv => TypeOK
  BY DEF LoopTypes, WorldTypes, WaiterWaits, GateInv, QuotaTypes, TypeOK
<1> QED
  BY <1>1, LoopInvariance, GateInit, WaiterStep, GateStep, PTL DEF Spec

(* NoWakeupIsLost, whatever arrives while the loop works, goes to sleep or  *)
(* starts.                                                                  *)
THEOREM WakeupsReachTheLoop == Spec => []NoWakeupIsLost
  BY LoopInvariance, PTL

(* FullReconcileIsKept: merging, the timer and the hand-over between them   *)
(* drop no full reconcile.                                                  *)
THEOREM FullReconcilesReachTheLoop == Spec => FullReconcileIsKept
<1>1. ASSUME LoopTypes, [Next]_vars, pending # None, pending.full, pc' # "down"
      PROVE  \/ pending' # None /\ pending'.full
             \/ pc' = "taken" /\ event' # None /\ event'.full
  <2>1. CASE Start \/ Notified
    <3>1. \E e \in Events : pending' = Merged(e)
      <4>1. CASE Start
        BY <4>1, MergingKeepsFull DEF Start, WakeWith
      <4>2. CASE Notified
        BY <1>1, <4>2 DEF Notified, WakeWith, LoopTypes
      <4> QED
        BY <2>1, <4>1, <4>2
    <3> QED
      BY <1>1, <3>1, MergingKeepsFull DEF LoopTypes
  <2>2. CASE Wait \/ Flush
    <3>1. \/ pending' = pending
          \/ pc' = "taken" /\ event' = pending
      <4>1. CASE Wait
        BY <4>1 DEF Wait, Take
      <4>2. CASE Flush /\ waiter /\ pending # None
        BY <4>2 DEF Flush, Take
      <4>3. CASE Flush /\ ~(waiter /\ pending # None)
        BY <4>3 DEF Flush
      <4> QED
        BY <2>2, <4>1, <4>2, <4>3
    <3> QED
      BY <1>1, <3>1
  <2>5. CASE Timeout \/ Crash
    BY <1>1, <2>5 DEF Timeout, Crash
  <2>3. CASE ReadMode \/ Refresh \/ Read \/ Store \/ Prune \/ Manual \/ Cycle \/ CycleFails \/ FallBack
    BY <1>1, <2>3 DEF ReadMode, Refresh, Read, Store, Prune, Manual, Cycle, CycleFails,
         FallBack,
                      coordinator
  <2>4. CASE \/ Asks \/ Pause \/ Resume \/ Consume \/ Recover \/ Age \/ UNCHANGED vars
             \/ \E p \in Projects : GithubChanges(p)
    BY <1>1, <2>4 DEF Asks, Pause, Resume, Consume, Recover, Age, GithubChanges, Environment,
                      coordinator, vars
  <2> QED
    BY <1>1, <2>1, <2>2, <2>3, <2>4, <2>5 DEF Next, Worker
<1> QED
  BY <1>1, LoopInvariance, PTL DEF Spec, FullReconcileIsKept

===============================================================================
