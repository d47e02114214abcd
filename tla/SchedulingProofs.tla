--------------------------- MODULE SchedulingProofs ---------------------------
(* What the choice of the next issue guarantees for any projects, issues,   *)
(* priorities and any number of interleaved actions.                        *)
EXTENDS Scheduling, SequenceTheorems, FiniteSetTheorems, WellFoundedInduction, TLAPS

-----------------------------------------------------------------------------
(* Who writes what.                                                        *)

(* The queue is written by the transactions of the requests.               *)
LEMMA WritesQueue ==
  ASSUME [Next]_vars
  PROVE  UNCHANGED preference \/ \E o \in Operators : StorePreference(o) \/ StoreOrder(o)
BY DEF Next, WorkerStep, DashboardStep, RequestStep, EnvironmentStep, vars, Fetch, Choose,
       Reconcile, ScheduleWithLease, RunEndsWritten, RunEndsUnwritten, AdmitIssue, Admission,
       Readmit, RemoveIssue, ResolveDecision, SetQueuePreference, ReorderQueue,
       ApplyRecommendation, Asks, AdmitQueued, ReadPreferences, StorePreference, StoreOrder,
       RequestFails, ChangeSettings, EditMarker, CloseIssue, BlockIssue, WriteIssue,
       ProjectionExpires, BackoffEnds, ReconciliationFails, RecordAdeReadiness

(* A request is moved by its own steps.                                    *)
LEMMA WritesRequests ==
  ASSUME [Next]_vars
  PROVE  UNCHANGED requests \/ \E o \in Operators : RequestStep(o)
BY DEF Next, WorkerStep, DashboardStep, RequestStep, EnvironmentStep, vars, Fetch, Choose,
       Reconcile, ScheduleWithLease, RunEndsWritten, RunEndsUnwritten, AdmitIssue, Admission,
       Readmit, RemoveIssue, ResolveDecision, SetQueuePreference, ReorderQueue,
       ApplyRecommendation, Asks, AdmitQueued, ReadPreferences, StorePreference, StoreOrder,
       RequestFails, ChangeSettings, EditMarker, CloseIssue, BlockIssue, WriteIssue,
       ProjectionExpires, BackoffEnds, ReconciliationFails, RecordAdeReadiness

(* Rows are written by reconciliations, runs, decisions and removals, and  *)
(* outdated by whoever writes an issue.                                    *)
LEMMA WritesRows ==
  ASSUME [Next]_vars
  PROVE  \/ UNCHANGED rows \/ Reconcile
         \/ \E p, deferred : ReconciliationFails(p, deferred)
         \/ \E status : RunEndsWritten(status) \/ RunEndsUnwritten(status)
         \/ \E i : Outdated(i) \/ RemoveIssue(i) \/ ResolveDecision(i)
BY DEF Next, WorkerStep, DashboardStep, RequestStep, EnvironmentStep, vars, Fetch, Choose,
       Reconcile, ScheduleWithLease, RunEndsWritten, RunEndsUnwritten, AdmitIssue, Admission,
       Readmit, RemoveIssue, ResolveDecision, SetQueuePreference, ReorderQueue,
       ApplyRecommendation, Asks, AdmitQueued, ReadPreferences, StorePreference, StoreOrder,
       RequestFails, ChangeSettings, EditMarker, CloseIssue, BlockIssue, WriteIssue,
       ProjectionExpires, BackoffEnds, ReconciliationFails, RecordAdeReadiness

(* The worker moves by itself, or what it has fetched is outdated,         *)
(* forgotten or resolved.                                                  *)
LEMMA WritesWorker ==
  ASSUME [Next]_vars
  PROVE  \/ UNCHANGED worker \/ Reconcile \/ ScheduleWithLease
         \/ \E p \in Projects : Fetch(p) \/ Choose(p)
         \/ \E status : RunEndsWritten(status) \/ RunEndsUnwritten(status)
         \/ \E i : Outdated(i) \/ RemoveIssue(i) \/ ResolveDecision(i)
BY DEF Next, WorkerStep, DashboardStep, RequestStep, EnvironmentStep, vars, Fetch, Choose,
       Reconcile, ScheduleWithLease, RunEndsWritten, RunEndsUnwritten, AdmitIssue, Admission,
       Readmit, RemoveIssue, ResolveDecision, SetQueuePreference, ReorderQueue,
       ApplyRecommendation, Asks, AdmitQueued, ReadPreferences, StorePreference, StoreOrder,
       RequestFails, ChangeSettings, EditMarker, CloseIssue, BlockIssue, WriteIssue,
       ProjectionExpires, BackoffEnds, ReconciliationFails, RecordAdeReadiness

(* Successes are recorded by runs and forgotten by removals.               *)
LEMMA WritesSuccesses ==
  ASSUME [Next]_vars
  PROVE  \/ UNCHANGED successes
         \/ \E status : RunEndsWritten(status)
         \/ \E i \in Operated : RemoveIssue(i)
BY DEF Next, WorkerStep, DashboardStep, RequestStep, EnvironmentStep, vars, Fetch, Choose,
       Reconcile, ScheduleWithLease, RunEndsWritten, RunEndsUnwritten, AdmitIssue, Admission,
       Readmit, RemoveIssue, ResolveDecision, SetQueuePreference, ReorderQueue,
       ApplyRecommendation, Asks, AdmitQueued, ReadPreferences, StorePreference, StoreOrder,
       RequestFails, ChangeSettings, EditMarker, CloseIssue, BlockIssue, WriteIssue,
       ProjectionExpires, BackoffEnds, ReconciliationFails, RecordAdeReadiness

(* A profile is written by reconciliations, its expiry and initialisation. *)
LEMMA WritesProfile ==
  ASSUME [Next]_vars
  PROVE  \/ UNCHANGED profile \/ Reconcile
         \/ \E p \in Disturbed, b \in BOOLEAN : ReconciliationFails(p, b) \/ RecordAdeReadiness(p, b)
         \/ \E p \in Disturbed : ProjectionExpires(p)
BY DEF Next, WorkerStep, DashboardStep, RequestStep, EnvironmentStep, vars, Fetch, Choose,
       Reconcile, ScheduleWithLease, RunEndsWritten, RunEndsUnwritten, AdmitIssue, Admission,
       Readmit, RemoveIssue, ResolveDecision, SetQueuePreference, ReorderQueue,
       ApplyRecommendation, Asks, AdmitQueued, ReadPreferences, StorePreference, StoreOrder,
       RequestFails, ChangeSettings, EditMarker, CloseIssue, BlockIssue, WriteIssue,
       ProjectionExpires, BackoffEnds, ReconciliationFails, RecordAdeReadiness

(* A project is deferred by a failed reconciliation alone.                 *)
LEMMA WritesBackoff ==
  ASSUME [Next]_vars
  PROVE  \/ backoff' \subseteq backoff
         \/ \E p \in Disturbed, b \in BOOLEAN : ReconciliationFails(p, b)
BY DEF Next, WorkerStep, DashboardStep, RequestStep, EnvironmentStep, vars, Fetch, Choose,
       Reconcile, ScheduleWithLease, RunEndsWritten, RunEndsUnwritten, AdmitIssue, Admission,
       Readmit, RemoveIssue, ResolveDecision, SetQueuePreference, ReorderQueue,
       ApplyRecommendation, Asks, AdmitQueued, ReadPreferences, StorePreference, StoreOrder,
       RequestFails, ChangeSettings, EditMarker, CloseIssue, BlockIssue, WriteIssue,
       ProjectionExpires, BackoffEnds, ReconciliationFails, RecordAdeReadiness

(* Removals are made and taken back by operators alone.                    *)
LEMMA WritesRemoved ==
  ASSUME [Next]_vars
  PROVE  \/ UNCHANGED <<removed, readmitting>>
         \/ \E i : Readmit(i) \/ (Admission(i) /\ UNCHANGED removed)
         \/ \E i \in Operated : RemoveIssue(i)
BY DEF Next, WorkerStep, DashboardStep, RequestStep, EnvironmentStep, vars, Fetch, Choose,
       Reconcile, ScheduleWithLease, RunEndsWritten, RunEndsUnwritten, AdmitIssue, Admission,
       Readmit, RemoveIssue, ResolveDecision, SetQueuePreference, ReorderQueue,
       ApplyRecommendation, Asks, AdmitQueued, ReadPreferences, StorePreference, StoreOrder,
       RequestFails, ChangeSettings, EditMarker, CloseIssue, BlockIssue, WriteIssue,
       ProjectionExpires, BackoffEnds, ReconciliationFails, RecordAdeReadiness

(* Settings change by commands and observations.                           *)
LEMMA WritesSettings ==
  ASSUME [Next]_vars
  PROVE  UNCHANGED settings \/ ChangeSettings
BY DEF Next, WorkerStep, DashboardStep, RequestStep, EnvironmentStep, vars, Fetch, Choose,
       Reconcile, ScheduleWithLease, RunEndsWritten, RunEndsUnwritten, AdmitIssue, Admission,
       Readmit, RemoveIssue, ResolveDecision, SetQueuePreference, ReorderQueue,
       ApplyRecommendation, Asks, AdmitQueued, ReadPreferences, StorePreference, StoreOrder,
       RequestFails, ChangeSettings, EditMarker, CloseIssue, BlockIssue, WriteIssue,
       ProjectionExpires, BackoffEnds, ReconciliationFails, RecordAdeReadiness

(* A bounded action is counted once.                                       *)
LEMMA WritesActs ==
  ASSUME [Next]_vars
  PROVE  UNCHANGED acts \/ Act
BY DEF Next, WorkerStep, DashboardStep, RequestStep, EnvironmentStep, vars, Fetch, Choose,
       Reconcile, ScheduleWithLease, RunEndsWritten, RunEndsUnwritten, AdmitIssue, Admission,
       Readmit, RemoveIssue, ResolveDecision, SetQueuePreference, ReorderQueue,
       ApplyRecommendation, Asks, AdmitQueued, ReadPreferences, StorePreference, StoreOrder,
       RequestFails, ChangeSettings, EditMarker, CloseIssue, BlockIssue, WriteIssue,
       ProjectionExpires, BackoffEnds, ReconciliationFails, RecordAdeReadiness

(* An issue is written by admissions and humans, by runs, and by whoever   *)
(* resolves or removes what its marker names.                              *)
LEMMA WritesGithub ==
  ASSUME [Next]_vars
  PROVE  \/ UNCHANGED github
         \/ \E status : RunEndsWritten(status) \/ RunEndsUnwritten(status)
         \/ \E i : RemoveIssue(i) \/ ResolveDecision(i)
         \/ \E i : \/ WriteIssue(i, TRUE, "ready", "none") \/ WriteIssue(i, FALSE, "completed", "none")
                 \/ WriteIssue(i, TRUE, "blocked", "spent")
                 \/ WriteIssue(i, FALSE, github[i].state, github[i].asks)
                 \/ \E state \in {"ready", "failed"} : WriteIssue(i, TRUE, state, github[i].asks)
BY DEF Next, WorkerStep, DashboardStep, RequestStep, EnvironmentStep, vars, Fetch, Choose,
       Reconcile, ScheduleWithLease, RunEndsWritten, RunEndsUnwritten, AdmitIssue, Admission,
       Readmit, RemoveIssue, ResolveDecision, SetQueuePreference, ReorderQueue,
       ApplyRecommendation, Asks, AdmitQueued, ReadPreferences, StorePreference, StoreOrder,
       RequestFails, ChangeSettings, EditMarker, CloseIssue, BlockIssue, WriteIssue,
       ProjectionExpires, BackoffEnds, ReconciliationFails, RecordAdeReadiness

-----------------------------------------------------------------------------
(* Numbers.                                                                *)

(* The order of the natural numbers is well founded: a set of them that is *)
(* not empty has a least element.                                          *)
LEMMA LeastNumber ==
  ASSUME NEW S, S \subseteq Nat, S # {}
  PROVE  \E m \in S : \A n \in S : m <= n
<1> DEFINE R == {ss \in Nat \X Nat : ss[1] < ss[2]}
<1>1. IsWellFoundedOn(R, Nat)
  BY NatLessThanWellFounded DEF OpToRel
<1>2. \E m \in S : \A n \in S : <<n, m>> \notin R
  <2> HIDE DEF R
  <2> QED
    BY <1>1, WFMin
<1>3. PICK m \in S : \A n \in S : <<n, m>> \notin R
  BY <1>2
<1>4. \A n \in S : m <= n
  <2> TAKE n \in S
  <2>1. m \in Nat /\ n \in Nat
    OBVIOUS
  <2>2. <<n, m>> \in Nat \X Nat
    BY <2>1
  <2>3. ~(n < m)
    BY <1>3, <2>2
  <2> QED
    BY <2>1, <2>3
<1> QED
  BY <1>4

(* A set of numbers below a bound has a largest element, which Max returns. *)
LEMMA MaxIsThere ==
  ASSUME NEW b \in Nat, NEW S, S \subseteq -1..b, S # {}
  PROVE  Max(S) \in S /\ \A x \in S : x <= Max(S)
<1> DEFINE T == {b - x : x \in S}
<1>1. T \subseteq Nat /\ T # {}
  <2>1. \A x \in S : x \in -1..b
    OBVIOUS
  <2>2. \A x \in S : b - x \in Nat
    BY <2>1
  <2> QED
    BY <2>2
<1>2. PICK m \in T : \A n \in T : m <= n
  BY <1>1, LeastNumber
<1>3. PICK x \in S : m = b - x
  BY <1>2
<1>4. \A y \in S : x >= y
  <2> TAKE y \in S
  <2>1. b - y \in T
    OBVIOUS
  <2>2. b - x <= b - y
    BY <2>1, <1>2, <1>3
  <2>3. x \in -1..b /\ y \in -1..b
    OBVIOUS
  <2> QED
    BY ONLY <2>2, <2>3, b \in Nat
<1> HIDE DEF T
<1>5. Max(S) \in S /\ \A y \in S : Max(S) >= y
  BY <1>3, <1>4 DEF Max
<1>6. \A y \in S : y \in -1..b
  OBVIOUS
<1>7. ASSUME NEW y \in S PROVE y <= Max(S)
  <2>1. Max(S) \in -1..b /\ y \in -1..b /\ Max(S) >= y
    BY <1>5, <1>6
  <2> QED
    BY ONLY <2>1, b \in Nat
<1> QED
  BY <1>5, <1>7

-----------------------------------------------------------------------------
(* The queue.                                                              *)

\* No two issues of a project are at one position, below some bound.
DistinctIn(prefs) ==
  \A i, j \in Issues : (i # j /\ Owner[i] = Owner[j] /\ prefs[i] > 0) => prefs[i] # prefs[j]
Orderly(prefs) == (\E b \in Nat : prefs \in [Issues -> -1..b]) /\ DistinctIn(prefs)

(* An issue that is enabled stands after all others of its project.        *)
LEMMA LastIsLast ==
  ASSUME NEW b \in Nat, NEW prefs \in [Issues -> -1..b], NEW p
  PROVE  /\ LastPosition(prefs, p) \in 0..b
         /\ \A i \in IssuesOf(p) : prefs[i] <= LastPosition(prefs, p)
<1> DEFINE S == {0} \cup {prefs[i] : i \in IssuesOf(p)}
<1>1. S \subseteq -1..b /\ S # {}
  BY DEF IssuesOf
<1>2. Max(S) \in S /\ \A x \in S : x <= Max(S)
  BY <1>1, MaxIsThere
<1>3. 0 <= Max(S) /\ Max(S) \in -1..b
  BY <1>1, <1>2
<1>4. LastPosition(prefs, p) = Max(S)
  BY DEF LastPosition
<1>5. \A i \in IssuesOf(p) : prefs[i] \in S
  OBVIOUS
<1>6. Max(S) \in 0..b
  BY <1>3
<1> QED
  BY <1>2, <1>4, <1>5, <1>6

(* Holding or enabling an issue keeps the queue orderly.                   *)
LEMMA WithPreferenceIsOrderly ==
  ASSUME NEW prefs, Orderly(prefs), NEW i \in Issues, NEW on \in BOOLEAN
  PROVE  Orderly(WithPreference(prefs, i, on))
<1>1. PICK b \in Nat : prefs \in [Issues -> -1..b]
  BY DEF Orderly
<1> DEFINE last == LastPosition(prefs, Owner[i])
           new == IF ~on THEN Held ELSE IF prefs[i] > 0 THEN prefs[i] ELSE last + 1
<1>2. last \in 0..b /\ \A j \in IssuesOf(Owner[i]) : prefs[j] <= last
  BY <1>1, LastIsLast
<1> HIDE DEF last
<1>3. WithPreference(prefs, i, on) = [prefs EXCEPT ![i] = new]
  BY DEF WithPreference, last
<1>4. new \in -1..(b + 1) /\ b + 1 \in Nat
  BY <1>1, <1>2 DEF Held
<1>5. \A j \in Issues : j # i => prefs[j] \in -1..(b + 1)
  BY <1>1
<1>6. new > 0 => new = prefs[i] \/ new = last + 1
  BY DEF Held
<1> HIDE DEF new
<1>7. [prefs EXCEPT ![i] = new] \in [Issues -> -1..(b + 1)]
  BY <1>1, <1>4, <1>5
<1>8. DistinctIn([prefs EXCEPT ![i] = new])
  <2>1. ASSUME NEW j \in Issues, j # i, Owner[j] = Owner[i]
        PROVE  (new > 0 \/ prefs[j] > 0) => new # prefs[j]
    <3>1. j \in IssuesOf(Owner[i]) /\ prefs[j] \in Int /\ prefs[i] \in Int
      BY <2>1, <1>1 DEF IssuesOf
    <3>2. prefs[j] <= last /\ last \in Int
      BY <3>1, <1>2
    <3>3. prefs[i] > 0 => prefs[i] # prefs[j]
      BY <2>1 DEF Orderly, DistinctIn
    <3> QED
      BY <3>1, <3>2, <3>3, <1>4, <1>6
  <2>2. SUFFICES ASSUME NEW j \in Issues, NEW k \in Issues, j # k, Owner[j] = Owner[k],
                        [prefs EXCEPT ![i] = new][j] > 0
                 PROVE  [prefs EXCEPT ![i] = new][j] # [prefs EXCEPT ![i] = new][k]
    BY DEF DistinctIn
  <2>3. CASE j = i
    BY <2>1, <2>2, <2>3, <1>1
  <2>4. CASE k = i
    BY <2>1, <2>2, <2>4, <1>1
  <2>5. CASE j # i /\ k # i
    BY <2>2, <2>5, <1>1 DEF Orderly, DistinctIn
  <2> QED
    BY <2>3, <2>4, <2>5
<1> QED
  BY <1>3, <1>4, <1>7, <1>8 DEF Orderly

(* Every order of a set of issues is a sequence of them.                   *)
LEMMA OrdersAreSequences ==
  ASSUME NEW S \in SUBSET Issues, NEW order \in SetToSeqs(S)
  PROVE  order \in Seq(Issues)
<1>1. IsFiniteSet(S)
  BY FS_Subset, SchedulingAssumption
<1>2. Cardinality(S) \in Nat /\ order \in [1..Cardinality(S) -> S]
  BY <1>1, FS_CardinalityType DEF SetToSeqs
<1>3. order \in [1..Cardinality(S) -> Issues]
  BY <1>2
<1> QED
  BY <1>2, <1>3, SeqDef

(* An order that names every enabled issue of a project puts each of them  *)
(* at its place in it, and leaves the others where they were.              *)
LEMMA ReorderedIsOrderly ==
  ASSUME NEW prefs, Orderly(prefs), NEW p, NEW order \in Seq(Issues)
  PROVE  Orderly(ReorderOrKeep(prefs, p, order))
<1>1. CASE StoreEnabled(prefs, p) # Range(order)
  BY <1>1 DEF ReorderOrKeep
<1>2. CASE StoreEnabled(prefs, p) = Range(order)
  <2> DEFINE new == Reordered(prefs, order)
             place(i) == CHOOSE k \in DOMAIN order : order[k] = i
  <2>1. PICK b \in Nat : prefs \in [Issues -> -1..b]
    BY DEF Orderly
  <2>2. Len(order) \in Nat /\ DOMAIN order = 1..Len(order)
    BY LenProperties
  <2>3. \A i \in Issues : new[i] = IF i \in Range(order) THEN place(i) ELSE prefs[i]
    BY DEF Reordered
  <2>4. \A i \in Range(order) : place(i) \in 1..Len(order) /\ order[place(i)] = i
    BY <2>2 DEF Range
  <2>5. \A i \in Issues : i \in Range(order) <=> (Owner[i] = p /\ prefs[i] > 0)
    BY <1>2 DEF StoreEnabled, IssuesOf
  <2> HIDE DEF place
  <2>6. DistinctIn(new)
    <3> SUFFICES ASSUME NEW i \in Issues, NEW j \in Issues, i # j, Owner[i] = Owner[j],
                        new[i] > 0
                 PROVE  new[i] # new[j]
      BY DEF DistinctIn
    <3> HIDE DEF new
    <3>1. CASE i \in Range(order) /\ j \in Range(order)
      BY <3>1, <2>3, <2>4
    <3>2. CASE i \in Range(order) /\ j \notin Range(order)
      BY <3>2, <2>3, <2>5
    <3>3. CASE i \notin Range(order) /\ j \in Range(order)
      BY <3>3, <2>3, <2>5
    <3>4. CASE i \notin Range(order) /\ j \notin Range(order)
      BY <3>4, <2>3 DEF Orderly, DistinctIn
    <3> QED
      BY <3>1, <3>2, <3>3, <3>4
  <2>7. b + Len(order) \in Nat
    BY <2>1, <2>2
  <2>8. new \in [Issues -> -1..(b + Len(order))]
    <3>1. ASSUME NEW i \in Issues
          PROVE  new[i] \in -1..(b + Len(order))
      <4>1. CASE i \in Range(order)
        <5>1. new[i] \in 1..Len(order)
          BY <4>1, <2>3, <2>4
        <5> HIDE DEF new
        <5> QED
          BY <5>1, <2>1, <2>2
      <4>2. CASE i \notin Range(order)
        <5>1. new[i] \in -1..b
          BY <4>2, <2>1, <2>3
        <5> HIDE DEF new
        <5> QED
          BY <5>1, <2>1, <2>2
      <4> QED
        BY <4>1, <4>2
    <3> QED
      BY <3>1 DEF Reordered
  <2> QED
    BY <1>2, <2>6, <2>7, <2>8 DEF ReorderOrKeep, Orderly
<1> QED
  BY <1>1, <1>2

(* A bounded queue of that kind has the type of preferences.               *)
LEMMA OrderlyIsTyped ==
  ASSUME NEW prefs, Orderly(prefs), InBounds(prefs)
  PROVE  prefs \in [Issues -> -1..MaxPosition]
<1>1. PICK b \in Nat : prefs \in [Issues -> -1..b]
  BY DEF Orderly
<1>2. \A i \in Issues : prefs[i] \in -1..MaxPosition
  <2> TAKE i \in Issues
  <2>1. prefs[i] \in -1..b /\ prefs[i] <= MaxPosition /\ MaxPosition \in Nat
    BY <1>1, SchedulingAssumption DEF InBounds
  <2> QED
    BY ONLY <2>1, b \in Nat
<1> QED
  BY <1>1, <1>2

(* The next issue of a request, if it is none of the issues, is stored to  *)
(* no effect.                                                              *)
LEMMA StoredIsOrderly ==
  ASSUME NEW prefs, Orderly(prefs), NEW i, NEW on \in BOOLEAN
  PROVE  Orderly(WithPreference(prefs, i, on))
<1>1. CASE i \in Issues
  BY <1>1, WithPreferenceIsOrderly
<1>2. CASE i \notin Issues
  <2>1. PICK b \in Nat : prefs \in [Issues -> -1..b]
    BY DEF Orderly
  <2>2. WithPreference(prefs, i, on) = prefs
    BY <1>2, <2>1 DEF WithPreference
  <2> QED
    BY <2>2
<1> QED
  BY <1>1, <1>2

(* The queue after a step: every transaction of a request, whatever was    *)
(* stored since it loaded its page, finds an orderly queue and leaves one. *)
LEMMA QueueStep ==
  ASSUME preference \in [Issues -> -1..MaxPosition], PositionsDistinct,
         requests \in [Operators -> Requests], [Next]_vars
  PROVE  preference' \in [Issues -> -1..MaxPosition] /\ PositionsDistinct'
<1>1. Orderly(preference)
  BY SchedulingAssumption DEF Orderly, DistinctIn, PositionsDistinct
<1>2. CASE UNCHANGED preference
  BY <1>2 DEF PositionsDistinct
<1>3. ASSUME NEW o \in Operators, StorePreference(o)
      PROVE  Orderly(preference') /\ InBounds(preference')
  <2> DEFINE i == Upcoming(requests[o])
             on == i \in Range(requests[o].order)
  <2>1. preference' = WithPreference(preference, i, on) /\ InBounds(preference')
    BY <1>3 DEF StorePreference
  <2>2. on \in BOOLEAN
    OBVIOUS
  <2> HIDE DEF i, on
  <2> QED
    BY <1>1, <2>1, <2>2, StoredIsOrderly
<1>4. ASSUME NEW o \in Operators, StoreOrder(o)
      PROVE  Orderly(preference') /\ InBounds(preference')
  <2>1. requests[o].order \in Seq(Issues)
    BY DEF Requests
  <2>2. /\ preference' = ReorderOrKeep(preference, requests[o].project, requests[o].order)
        /\ InBounds(preference')
    BY <1>4 DEF StoreOrder
  <2> QED
    BY <1>1, <2>1, <2>2, ReorderedIsOrderly
<1>5. CASE Orderly(preference') /\ InBounds(preference')
  <2>1. preference' \in [Issues -> -1..MaxPosition]
    BY <1>5, OrderlyIsTyped
  <2> QED
    BY <1>5, <2>1 DEF Orderly, DistinctIn, PositionsDistinct
<1> QED
  BY <1>2, <1>3, <1>4, <1>5, WritesQueue

(* A request starts with a page and an order, both of issues of its        *)
(* project, and its later steps only take issues off the page.             *)
LEMMA RequestTypes ==
  ASSUME requests \in [Operators -> Requests], [Next]_vars
  PROVE  requests' \in [Operators -> Requests]
<1>1. \A o \in Operators : requests[o] \in Requests
  OBVIOUS
<1>2. ASSUME NEW o \in Operators, NEW r \in Requests, requests' = [requests EXCEPT ![o] = r]
      PROVE  requests' \in [Operators -> Requests]
  BY <1>2
<1>3. NoRequest \in Requests
  <2>1. <<>> \in Seq(Issues)
    BY ONLY EmptySeq
  <2> QED
    BY <2>1 DEF NoRequest, Requests
<1>4. ASSUME NEW o \in Operators, NEW i \in Operated, NEW on \in BOOLEAN,
             SetQueuePreference(o, i, on)
      PROVE  requests' \in [Operators -> Requests]
  <2> DEFINE order == IF on THEN <<i>> ELSE <<>>
             r == [kind |-> "patch", project |-> Owner[i], page |-> <<i>>, todo |-> {i},
                   order |-> order, read |-> ~on]
  <2>1. i \in Issues /\ Owner[i] \in Nat
    BY SchedulingAssumption
  <2>2. <<i>> \in Seq(Issues) /\ <<>> \in Seq(Issues)
    BY <2>1, EmptySeq
  <2>3. order \in Seq(Issues)
    BY <2>2
  <2>4. requests' = [requests EXCEPT ![o] = r]
    BY <1>4 DEF SetQueuePreference, Asks
  <2> HIDE DEF order
  <2>5. r \in Requests
    BY <2>1, <2>2, <2>3 DEF Requests
  <2> HIDE DEF r
  <2> QED
    BY <1>2, <2>4, <2>5
<1>5. ASSUME NEW p \in Disturbed
      PROVE  p \in Nat
  BY SchedulingAssumption DEF Disturbed
<1>6. ASSUME NEW o \in Operators, NEW p \in Disturbed, ReorderQueue(o, p)
      PROVE  requests' \in [Operators -> Requests]
  <2>1. Enabled(p) \in SUBSET Issues
    BY DEF Enabled, Listed, IssuesOf
  <2>2. PICK order \in SetToSeqs(Enabled(p)), items \in SetToSeqs(Enabled(p)) :
          requests' = [requests EXCEPT ![o] =
            [kind |-> "reorder", project |-> p, page |-> items, todo |-> Enabled(p),
             order |-> order, read |-> FALSE]]
    BY <1>6 DEF ReorderQueue, Asks
  <2> DEFINE r == [kind |-> "reorder", project |-> p, page |-> items, todo |-> Enabled(p),
                   order |-> order, read |-> FALSE]
  <2>3. order \in Seq(Issues) /\ items \in Seq(Issues)
    BY <2>1, OrdersAreSequences
  <2>4. r \in Requests
    BY <1>5, <2>1, <2>3 DEF Requests
  <2> HIDE DEF r
  <2> QED
    BY <1>2, <2>2, <2>4 DEF r
<1>7. ASSUME NEW o \in Operators, NEW p \in Disturbed, ApplyRecommendation(o, p)
      PROVE  requests' \in [Operators -> Requests]
  <2>1. Listed(p) \in SUBSET Issues /\ Recommended(p) \in SUBSET Issues
    BY DEF Recommended, Listed, IssuesOf
  <2>2. PICK order \in SetToSeqs(Recommended(p)), items \in SetToSeqs(Listed(p)) :
          requests' = [requests EXCEPT ![o] =
            [kind |-> "recommendation", project |-> p, page |-> items, todo |-> Listed(p),
             order |-> order, read |-> FALSE]]
    BY <1>7 DEF ApplyRecommendation, Asks
  <2> DEFINE r == [kind |-> "recommendation", project |-> p, page |-> items, todo |-> Listed(p),
                   order |-> order, read |-> FALSE]
  <2>3. order \in Seq(Issues) /\ items \in Seq(Issues)
    BY <2>1, OrdersAreSequences
  <2>4. r \in Requests
    BY <1>5, <2>1, <2>3 DEF Requests
  <2> HIDE DEF r
  <2> QED
    BY <1>2, <2>2, <2>4 DEF r
<1>8. ASSUME NEW r \in Requests, NEW S, NEW b \in BOOLEAN
      PROVE  /\ [r EXCEPT !.read = b] \in Requests
             /\ [r EXCEPT !.todo = r.todo \ S] \in Requests
             /\ [r EXCEPT !.todo = r.todo \ S, !.read = b] \in Requests
  BY DEF Requests
<1>9. ASSUME NEW o \in Operators,
             AdmitQueued(o) \/ ReadPreferences(o) \/ StorePreference(o)
      PROVE  requests' \in [Operators -> Requests]
  <2> DEFINE r == requests[o]
  <2>1. r \in Requests
    BY <1>1
  <2>2. CASE AdmitQueued(o)
    <3>1. requests' = [requests EXCEPT ![o] = [r EXCEPT !.read = TRUE]]
      BY <2>2 DEF AdmitQueued
    <3> HIDE DEF r
    <3> QED
      BY <1>2, <1>8, <2>1, <3>1
  <2>3. CASE StorePreference(o)
    <3>1. requests' = [requests EXCEPT ![o] =
            IF r.kind = "patch" THEN NoRequest
            ELSE [r EXCEPT !.todo = r.todo \ {Upcoming(r)}, !.read = (r.kind = "recommendation")]]
      BY <2>3 DEF StorePreference
    <3> HIDE DEF r
    <3>2. [r EXCEPT !.todo = r.todo \ {Upcoming(r)}, !.read = (r.kind = "recommendation")] \in Requests
      BY <1>8, <2>1
    <3> QED
      BY <1>2, <1>3, <3>1, <3>2
  <2>4. CASE ReadPreferences(o)
    <3> DEFINE S == {i \in r.todo : ~Differs(i, r.order)}
    <3>1. requests' = [requests EXCEPT ![o] =
            IF r.kind = "recommendation"
            THEN [r EXCEPT !.todo = r.todo \ S, !.read = TRUE]
            ELSE IF preference[Upcoming(r)] = Unset THEN [r EXCEPT !.read = TRUE]
            ELSE [r EXCEPT !.todo = r.todo \ {Upcoming(r)}]]
      <4>1. {i \in r.todo : Differs(i, r.order)} = r.todo \ S
        OBVIOUS
      <4> QED
        BY <2>4, <4>1 DEF ReadPreferences
    <3> HIDE DEF r, S
    <3>2. /\ [r EXCEPT !.todo = r.todo \ S, !.read = TRUE] \in Requests
          /\ [r EXCEPT !.read = TRUE] \in Requests
          /\ [r EXCEPT !.todo = r.todo \ {Upcoming(r)}] \in Requests
      BY <1>8, <2>1
    <3> QED
      BY <1>2, <3>1, <3>2
  <2> QED
    BY <1>9, <2>2, <2>3, <2>4
<1>10. ASSUME NEW o \in Operators, StoreOrder(o) \/ RequestFails(o)
       PROVE  requests' \in [Operators -> Requests]
  BY <1>2, <1>3, <1>10 DEF StoreOrder, RequestFails
<1> QED
  BY <1>4, <1>6, <1>7, <1>9, <1>10, WritesRequests DEF RequestStep

-----------------------------------------------------------------------------
(* The choice.                                                             *)

(* While a project has a ready issue, one of them runs before the others:  *)
(* the first by queue rank, declared priority and number.                  *)
LEMMA ItemIsFirst ==
  ASSUME preference \in [Issues -> -1..MaxPosition], NEW p, Ready(p) # {}
  PROVE  Item(p) \in Ready(p) /\ \A j \in Ready(p) \ {Item(p)} : RunsBefore(Item(p), j)
<1> DEFINE Ranks == {QueueRank(i) : i \in Ready(p)}
<1>1. \A i \in Ready(p) : i \in Nat /\ i \in Issues /\ Priority[i] \in 0..100 /\ QueueRank(i) \in Nat
  <2> TAKE i \in Ready(p)
  <2>1. i \in Issues
    BY DEF Ready, InState, Present, IssuesOf
  <2>2. preference[i] \in -1..MaxPosition /\ MaxPosition \in Nat
    BY <2>1, SchedulingAssumption
  <2> QED
    BY <2>1, <2>2, SchedulingAssumption DEF QueueRank
<1>2. PICK i1 \in Ready(p) : \A j \in Ready(p) : QueueRank(i1) <= QueueRank(j)
  <2>1. Ranks \subseteq Nat /\ Ranks # {}
    BY <1>1
  <2>2. PICK m \in Ranks : \A n \in Ranks : m <= n
    BY <2>1, LeastNumber
  <2> QED
    BY <2>2
<1> DEFINE Foremost == {i \in Ready(p) : QueueRank(i) = QueueRank(i1)}
           Gaps == {100 - Priority[i] : i \in Foremost}
<1>3. PICK i2 \in Foremost : \A j \in Foremost : Priority[i2] >= Priority[j]
  <2>1. Gaps \subseteq Nat /\ Gaps # {}
    BY <1>1, <1>2
  <2>2. PICK m \in Gaps : \A n \in Gaps : m <= n
    BY <2>1, LeastNumber
  <2>3. PICK i \in Foremost : m = 100 - Priority[i]
    BY <2>2
  <2>4. ASSUME NEW j \in Foremost PROVE Priority[i] >= Priority[j]
    <3>1. 100 - Priority[i] <= 100 - Priority[j]
      BY <2>2, <2>3
    <3>2. Priority[i] \in 0..100 /\ Priority[j] \in 0..100
      BY <1>1
    <3>3. \A x, y \in 0..100 : 100 - x <= 100 - y => x >= y
      OBVIOUS
    <3> QED
      BY <3>1, <3>2, <3>3
  <2> QED
    BY <2>4
<1> DEFINE Best == {i \in Foremost : Priority[i] = Priority[i2]}
<1>4. PICK i \in Best : \A j \in Best : i <= j
  <2>1. Best \subseteq Nat /\ Best # {}
    BY <1>1, <1>3
  <2> QED
    BY <2>1, LeastNumber
<1>5. i \in Ready(p)
  BY <1>4
<1>6. \A j \in Ready(p) \ {i} : RunsBefore(i, j)
  <2> TAKE j \in Ready(p) \ {i}
  <2>1. QueueRank(i) = QueueRank(i1) /\ Priority[i] = Priority[i2]
    BY <1>4
  <2>2. QueueRank(i) <= QueueRank(j)
    BY <1>2, <2>1
  <2>3. QueueRank(i) = QueueRank(j) => Priority[i] >= Priority[j]
    BY <1>3, <2>1
  <2>4. (QueueRank(i) = QueueRank(j) /\ Priority[i] = Priority[j]) => i <= j
    BY <1>4, <2>1
  <2>5. /\ i \in Nat /\ j \in Nat /\ i # j /\ Priority[i] \in Int /\ Priority[j] \in Int
        /\ QueueRank(i) \in Int /\ QueueRank(j) \in Int
    BY <1>1, <1>5
  <2> QED
    BY ONLY <2>2, <2>3, <2>4, <2>5 DEF RunsBefore
<1> HIDE DEF Best
<1> QED
  BY <1>5, <1>6 DEF Item

(* Of some issues one comes first: the declared priority decides, then the *)
(* number.                                                                 *)
LEMMA FirstIsThere ==
  ASSUME NEW S \in SUBSET Issues, S # {}
  PROVE  First(S) \in S
<1>1. \A i \in S : i \in Nat /\ Priority[i] \in 0..100
  BY SchedulingAssumption
<1> DEFINE Gaps == {100 - Priority[i] : i \in S}
<1>2. PICK i1 \in S : \A j \in S : Priority[i1] >= Priority[j]
  <2>1. Gaps \subseteq Nat /\ Gaps # {}
    BY <1>1
  <2>2. PICK m \in Gaps : \A n \in Gaps : m <= n
    BY <2>1, LeastNumber
  <2>3. PICK i \in S : m = 100 - Priority[i]
    BY <2>2
  <2>4. ASSUME NEW j \in S PROVE Priority[i] >= Priority[j]
    <3>1. 100 - Priority[i] <= 100 - Priority[j]
      BY <2>2, <2>3
    <3>2. Priority[i] \in 0..100 /\ Priority[j] \in 0..100
      BY <1>1
    <3>3. \A x, y \in 0..100 : 100 - x <= 100 - y => x >= y
      OBVIOUS
    <3> QED
      BY <3>1, <3>2, <3>3
  <2> QED
    BY <2>4
<1> DEFINE Best == {i \in S : Priority[i] = Priority[i1]}
<1>3. PICK i \in Best : \A j \in Best : i <= j
  <2>1. Best \subseteq Nat /\ Best # {}
    BY <1>1
  <2> QED
    BY <2>1, LeastNumber
<1>4. \A j \in S \ {i} : Priority[i] > Priority[j] \/ (Priority[i] = Priority[j] /\ i < j)
  <2> TAKE j \in S \ {i}
  <2>1. Priority[i] = Priority[i1] /\ Priority[i] >= Priority[j]
    BY <1>2, <1>3
  <2>2. Priority[i] = Priority[j] => i <= j
    BY <1>3, <2>1
  <2>3. i \in Nat /\ j \in Nat /\ i # j /\ Priority[i] \in Int /\ Priority[j] \in Int
    BY <1>1, <1>3
  <2> QED
    BY ONLY <2>1, <2>2, <2>3
<1>5. i \in S
  BY <1>3
<1> HIDE DEF Best
<1> QED
  BY <1>4, <1>5 DEF First

\* Which project the worker selects work in, and when it finds it eligible.
Open(p) == settings.mode = "running" /\ settings.control[p] = "enabled"
Unleased(p) == ~HasActiveLease(p) /\ settings.runner = "online"
Projectable(p) ==
  profile[p].compatible = "yes" /\ profile[p].ade /\ profile[p].fresh /\ Present(p) # {}

(* A project has work to select that its choice names; when it asks for a  *)
(* decision that is resolved, something in it waits.                       *)
LEMMA ChoiceOf ==
  ASSUME NEW p
  PROVE  /\ Choice(p).available = "ready" <=> Ready(p) # {}
         /\ Ready(p) # {} => Choice(p).items = {Item(p)}
         /\ (Ready(p) = {} /\ Resumed(p) # {}) =>
              /\ Choice(p).available = "waiting-human"
              /\ Choice(p).items = {First(InState(p, "waiting-human"))}
              /\ InState(p, "waiting-human") # {}
         /\ Choice(p).available # "none"
<1>1. Resumed(p) # {} => InState(p, "waiting-human") # {}
  BY DEF Resumed, Asking
<1> QED
  BY <1>1 DEF Choice, Named

\* What the worker has to find for a project to be eligible.
Eligibility(p) ==
  /\ Open(p) /\ Projectable(p) /\ Unleased(p)
  /\ Ready(p) # {} \/ Resumed(p) # {}
  /\ Resumed(p) = {} => Ready(p) # {} /\ ~rows[Item(p)].attempted

LEMMA EligibleMeans ==
  ASSUME NEW p, Eligible(p)
  PROVE  Eligibility(p)
<1>1. Exclusion(p, "worker") = "none"
  BY DEF Eligible
<1>2. /\ Open(p)
      /\ Selection(p, "worker").available = "ready"
      /\ ~Resumes(p, "worker") => \A i \in Selection(p, "worker").items : ~rows[i].attempted
      /\ Unleased(p)
  <2>1. Selection(p, "worker").available # "none"
    BY ChoiceOf DEF Selection
  <2> QED
    BY <1>1, <2>1 DEF Exclusion, Open, Unleased
<1>3. Projectable(p) /\ (Resumed(p) = {} => Selection(p, "worker") = Choice(p))
  BY <1>2 DEF Selection, Projectable, Readable, Resumes
<1> QED
  BY <1>2, <1>3, ChoiceOf DEF Eligibility, Resumes

(* The item of an eligible project is one of its issues that are present.  *)
LEMMA CandidateIsThere ==
  ASSUME preference \in [Issues -> -1..MaxPosition], NEW p, Eligible(p)
  PROVE  CandidateItem(p) \in Present(p)
<1>1. Ready(p) # {} \/ Resumed(p) # {}
  BY EligibleMeans DEF Eligibility
<1>2. CASE Ready(p) # {}
  <2>1. Item(p) \in Ready(p) /\ Choice(p).items = {Item(p)}
    BY <1>2, ItemIsFirst, ChoiceOf
  <2>2. CandidateItem(p) = Item(p)
    BY <2>1 DEF CandidateItem
  <2> QED
    BY <2>1, <2>2 DEF Ready, InState
<1>3. CASE Ready(p) = {}
  <2> DEFINE S == InState(p, "waiting-human")
  <2>1. S # {} /\ Choice(p).items = {First(S)}
    BY <1>1, <1>3, ChoiceOf
  <2>2. S \in SUBSET Issues /\ S \subseteq Present(p)
    BY DEF InState, Present, IssuesOf
  <2> HIDE DEF S
  <2>3. First(S) \in S /\ CandidateItem(p) = First(S)
    BY <2>1, <2>2, FirstIsThere DEF CandidateItem
  <2> QED
    BY <2>2, <2>3
<1> QED
  BY <1>2, <1>3

(* What the worker would dispatch the overview finds too, or the quota is  *)
(* in the way, or the project is resumed: then the overview, which does    *)
(* not know of the decision, shows the issue that waits, or the attempt    *)
(* (candidateExclusion, the worker's selection and the overview's).        *)
THEOREM OverviewSeesWhatRuns == Spec => []NothingRunsUnseen
<1>1. NothingRunsUnseen
  <2> SUFFICES ASSUME NEW p \in Projects, Eligible(p)
               PROVE  \/ Exclusion(p, "overview") \in {"none", "quota"}
                      \/ /\ Resumed(p) # {}
                         /\ Exclusion(p, "overview") \in {"waiting-human", "reconcile-first"}
    BY DEF NothingRunsUnseen
  <2>1. Eligibility(p)
    BY EligibleMeans
  <2>2. Selection(p, "overview") = Choice(p) /\ ~Resumes(p, "overview")
    BY <2>1 DEF Eligibility, Projectable, Selection, Readable, Resumes
  <2>3. CASE Resumed(p) = {}
    <3>1. Choice(p).available = "ready" /\ \A i \in Choice(p).items : ~rows[i].attempted
      BY <2>1, <2>3, ChoiceOf DEF Eligibility
    <3> QED
      BY <2>1, <2>2, <3>1 DEF Exclusion, Eligibility, Open, Unleased
  <2>4. CASE Resumed(p) # {} /\ Ready(p) # {}
    <3>1. Choice(p).available = "ready"
      BY <2>4, ChoiceOf
    <3> QED
      BY <2>1, <2>2, <2>4, <3>1 DEF Exclusion, Eligibility, Open, Unleased
  <2>5. CASE Resumed(p) # {} /\ Ready(p) = {}
    <3>1. Choice(p).available = "waiting-human"
      BY <2>5, ChoiceOf
    <3> QED
      BY <2>1, <2>2, <2>5, <3>1 DEF Exclusion, Eligibility, Open
  <2> QED
    BY <2>3, <2>4, <2>5
<1> QED
  BY <1>1, PTL
-----------------------------------------------------------------------------
(* Types.                                                                  *)

(* What the worker holds at each of its steps.                             *)
LEMMA WorkerShapes ==
  ASSUME worker \in Workers
  PROVE  /\ worker.step = "fetched" =>
              worker \in [step : {"fetched"}, project : Projects, seen : [Issues -> Rows]]
         /\ worker.step = "chosen" =>
              worker \in [step : {"chosen"}, issue : Issues, resumes : SUBSET Issues,
                          replaced : BOOLEAN]
         /\ worker.step = "running" =>
              worker \in [step : {"running"}, issue : Issues, resumes : SUBSET Issues]
<1> HIDE DEF Rows
<1> QED
  BY DEF Workers, Idle

LEMMA WorkerHolds ==
  ASSUME worker \in Workers
  PROVE  /\ worker.step = "fetched" =>
              worker.project \in Projects /\ worker.seen \in [Issues -> Rows]
         /\ worker.step = "chosen" =>
              worker.issue \in Issues /\ worker.resumes \in SUBSET Issues
         /\ worker.step = "running" =>
              worker.issue \in Issues /\ worker.resumes \in SUBSET Issues
<1> HIDE DEF Rows
<1> QED
  BY WorkerShapes

\* What is written to a row keeps it one, stored and present as it was.
Edited(e, r) == e \in Rows /\ e.stored = r.stored /\ e.present = r.present
Stale(r) == [r EXCEPT !.current = FALSE]
Tried(r, b) == [r EXCEPT !.attempted = b]
StaleTried(r, b) == [r EXCEPT !.current = FALSE, !.attempted = b]

LEMMA RowEdits ==
  ASSUME NEW r \in Rows
  PROVE  /\ Edited(Stale(r), r)
         /\ \A b \in BOOLEAN : Edited(Tried(r, b), r) /\ Edited(StaleTried(r, b), r)
         /\ Edited(Spent(r), r) /\ Edited(Resolve(r), r) /\ Edited(Forgotten(r), r)
<1>1. Edited(Stale(r), r)
  BY DEF Edited, Rows, Stale
<1>2. ASSUME NEW b \in BOOLEAN
      PROVE  Edited(Tried(r, b), r) /\ Edited(StaleTried(r, b), r)
  BY DEF Edited, Rows, Tried, StaleTried
<1>3. Edited(Spent(r), r) /\ Edited(Resolve(r), r)
  BY DEF Edited, Spent, Resolve, Rows, Decisions
<1>4. Edited(Forgotten(r), r)
  <2> DEFINE a == IF r.asks = "none" THEN r.asks ELSE "spent"
  <2>1. a \in Decisions
    BY DEF Rows, Decisions
  <2>2. Forgotten(r) = [r EXCEPT !.attempted = FALSE, !.asks = a]
    BY DEF Forgotten, Rows
  <2> HIDE DEF a
  <2> QED
    BY <2>1, <2>2 DEF Edited, Rows
<1> QED
  BY <1>1, <1>2, <1>3, <1>4

(* A row written by a projection is a row.                                 *)
LEMMA ProjectedIsARow ==
  ASSUME rows \in [Issues -> Rows], NEW i \in Issues, NEW seen \in [Issues -> Rows]
  PROVE  Projected(i, seen) \in Rows
<1>1. seen[i] \in Rows /\ rows[i] \in Rows
  OBVIOUS
<1>2. NoRow \in Rows
  BY DEF NoRow, Rows, States, Decisions
<1>3. \A r \in Rows : [r EXCEPT !.stored = TRUE] \in Rows
  BY DEF Rows
<1>4. [NoRow EXCEPT !.stored = TRUE] \in Rows
  BY ONLY <1>2, <1>3
<1> QED
  BY <1>1, <1>2, <1>4 DEF Projected, AbsentRow

\* The two ways in which the rows change: row by row, each still stored and
\* present if it was, and by a projection.
RowsAlike ==
  /\ rows' \in [Issues -> Rows]
  /\ \A i \in Issues : rows'[i].stored = rows[i].stored /\ rows'[i].present = rows[i].present
RowsProjected ==
  \E p : \E seen \in [Issues -> Rows] :
    rows' = [i \in Issues |-> IF Owner[i] = p THEN Projected(i, seen) ELSE rows[i]]

LEMMA RowMoves ==
  ASSUME rows \in [Issues -> Rows], worker \in Workers, [Next]_vars
  PROVE  RowsAlike \/ RowsProjected \/ \E i : RemoveIssue(i)
<1>0. \A i \in Issues : rows[i] \in Rows
  OBVIOUS
<1>1. CASE Reconcile
  <2>1. worker.seen \in [Issues -> Rows]
    BY <1>1, WorkerHolds DEF Reconcile
  <2> QED
    BY <1>1, <2>1 DEF Reconcile, StoreProjection, RowsProjected
<1>2. ASSUME NEW p, NEW deferred, ReconciliationFails(p, deferred)
      PROVE  RowsProjected
  <2>1. NoRow \in Rows
    BY DEF NoRow, Rows, States, Decisions
  <2>2. [i \in Issues |-> NoRow] \in [Issues -> Rows]
    BY <2>1
  <2> QED
    BY <1>2, <2>2 DEF ReconciliationFails, StoreProjection, RowsProjected
<1>3. ASSUME NEW named \in [Issues -> Rows], NEW status, rows' = SpentBy(status, named),
             \A i \in Issues : named[i].stored = rows[i].stored /\ named[i].present = rows[i].present
      PROVE  RowsAlike
  <2>1. ASSUME NEW i \in Issues
        PROVE  /\ rows'[i] \in Rows
               /\ rows'[i].stored = rows[i].stored /\ rows'[i].present = rows[i].present
    <3>1. rows'[i] = named[i] \/ rows'[i] = Spent(named[i])
      BY <1>3 DEF SpentBy
    <3>2. /\ named[i] \in Rows /\ Spent(named[i]) \in Rows
          /\ Spent(named[i]).stored = named[i].stored /\ Spent(named[i]).present = named[i].present
      BY <1>3, RowEdits DEF Edited
    <3> QED
      BY <1>3, <3>1, <3>2
  <2>2. rows' \in [Issues -> Rows]
    BY <1>3, <2>1 DEF SpentBy
  <2> QED
    BY <2>1, <2>2 DEF RowsAlike
<1>4. ASSUME NEW i, NEW e, i \in Issues => Edited(e, rows[i])
      PROVE  /\ [rows EXCEPT ![i] = e] \in [Issues -> Rows]
             /\ \A j \in Issues : /\ [rows EXCEPT ![i] = e][j].stored = rows[j].stored
                                 /\ [rows EXCEPT ![i] = e][j].present = rows[j].present
  BY <1>0, <1>4 DEF Edited
<1>5. ASSUME NEW status, RunEndsWritten(status)
      PROVE  RowsAlike
  <2> DEFINE i == worker.issue
             b == rows[i].attempted \/ Recorded(status)
             e == StaleTried(rows[i], b)
  <2>1. i \in Issues
    BY <1>5, WorkerHolds DEF RunEndsWritten
  <2>2. rows' = SpentBy(status, [rows EXCEPT ![i] = e])
    <3>1. [rows EXCEPT ![i].current = FALSE, ![i].attempted = @ \/ Recorded(status)]
            = [rows EXCEPT ![i] = e]
      BY <1>0, <2>1 DEF Rows, StaleTried
    <3> QED
      BY <1>5, <3>1 DEF RunEndsWritten
  <2>3. b \in BOOLEAN /\ rows[i] \in Rows
    BY <1>0, <2>1 DEF Recorded
  <2> HIDE DEF i, b
  <2>4. Edited(e, rows[i])
    BY <2>3, RowEdits
  <2> HIDE DEF e
  <2> DEFINE named == [rows EXCEPT ![i] = e]
  <2>5. /\ named \in [Issues -> Rows]
        /\ \A j \in Issues : named[j].stored = rows[j].stored /\ named[j].present = rows[j].present
    BY <1>4, <2>4
  <2>6. rows' = SpentBy(status, named)
    BY <2>2
  <2> HIDE DEF named
  <2> QED
    BY <1>3, <2>5, <2>6
<1>6. ASSUME NEW status, RunEndsUnwritten(status)
      PROVE  RowsAlike
  <2> DEFINE i == worker.issue
             b == rows[i].attempted \/ Recorded(status)
             e == Tried(rows[i], b)
  <2>1. i \in Issues
    BY <1>6, WorkerHolds DEF RunEndsUnwritten
  <2>2. rows' = SpentBy(status, [rows EXCEPT ![i] = e])
    BY <1>6 DEF RunEndsUnwritten, Tried
  <2>3. b \in BOOLEAN /\ rows[i] \in Rows
    BY <1>0, <2>1 DEF Recorded
  <2> HIDE DEF i, b
  <2>4. Edited(e, rows[i])
    BY <2>3, RowEdits
  <2> HIDE DEF e
  <2> DEFINE named == [rows EXCEPT ![i] = e]
  <2>5. /\ named \in [Issues -> Rows]
        /\ \A j \in Issues : named[j].stored = rows[j].stored /\ named[j].present = rows[j].present
    BY <1>4, <2>4
  <2>6. rows' = SpentBy(status, named)
    BY <2>2
  <2> HIDE DEF named
  <2> QED
    BY <1>3, <2>5, <2>6
<1>7. ASSUME NEW i, Outdated(i)
      PROVE  RowsAlike
  <2> DEFINE e == Stale(rows[i])
  <2>1. rows' = [rows EXCEPT ![i] = e]
    BY <1>7 DEF Outdated, Stale
  <2>2. i \in Issues => Edited(e, rows[i])
    BY <1>0, RowEdits
  <2> HIDE DEF e
  <2> QED
    BY <1>4, <2>1, <2>2 DEF RowsAlike
<1>8. ASSUME NEW i, ResolveDecision(i)
      PROVE  RowsAlike
  <2>1. rows' = [rows EXCEPT ![i] = Resolve(rows[i])]
    BY <1>8 DEF ResolveDecision
  <2>2. i \in Issues => Edited(Resolve(rows[i]), rows[i])
    BY <1>0, RowEdits
  <2> QED
    BY <1>4, <2>1, <2>2 DEF RowsAlike
<1>9. UNCHANGED rows => RowsAlike
  BY DEF RowsAlike
<1> QED
  BY <1>1, <1>2, <1>5, <1>6, <1>7, <1>8, <1>9, WritesRows

(* Rows keep their type, and one that is stored was so, or is projected    *)
(* from an issue that is not removed.                                      *)
LEMMA RowTypes ==
  ASSUME rows \in [Issues -> Rows], worker \in Workers, [Next]_vars
  PROVE  /\ rows' \in [Issues -> Rows]
         /\ \A i \in Issues :
              \/ rows'[i].stored = rows[i].stored /\ rows'[i].present = rows[i].present
              \/ i \in removed' /\ ~rows'[i].stored /\ ~rows'[i].present
              \/ \E seen : rows'[i] = Projected(i, seen)
<1>1. CASE RowsAlike
  BY <1>1 DEF RowsAlike
<1>2. CASE RowsProjected
  <2>1. PICK p : \E seen \in [Issues -> Rows] :
          rows' = [i \in Issues |-> IF Owner[i] = p THEN Projected(i, seen) ELSE rows[i]]
    BY <1>2 DEF RowsProjected
  <2>2. PICK seen \in [Issues -> Rows] :
          rows' = [i \in Issues |-> IF Owner[i] = p THEN Projected(i, seen) ELSE rows[i]]
    BY <2>1
  <2>3. \A i \in Issues : Projected(i, seen) \in Rows /\ rows[i] \in Rows
    BY ProjectedIsARow
  <2> QED
    BY <2>2, <2>3
<1>3. ASSUME NEW i, RemoveIssue(i)
      PROVE  /\ rows' \in [Issues -> Rows]
             /\ \A j \in Issues :
                  \/ rows'[j].stored = rows[j].stored /\ rows'[j].present = rows[j].present
                  \/ j \in removed' /\ ~rows'[j].stored /\ ~rows'[j].present
  <2>1. NoRow \in Rows /\ ~NoRow.stored /\ ~NoRow.present
    BY DEF NoRow, Rows, States, Decisions
  <2>2. rows' = [rows EXCEPT ![i] = NoRow] /\ i \in removed'
    BY <1>3 DEF RemoveIssue
  <2> QED
    BY <2>1, <2>2
<1> QED
  BY <1>1, <1>2, <1>3, RowMoves

IssueMarks == [open : BOOLEAN, state : States, asks : Decisions, attempted : BOOLEAN]

(* The worker goes on with what it holds, or with an issue that is chosen. *)
LEMMA WorkerTypes ==
  ASSUME github \in [Issues -> IssueMarks], rows \in [Issues -> Rows],
         worker \in Workers, preference \in [Issues -> -1..MaxPosition], [Next]_vars
  PROVE  worker' \in Workers
<1>0. /\ Idle \in Workers
      /\ \A p \in Projects, s \in [Issues -> Rows] :
           [step |-> "fetched", project |-> p, seen |-> s] \in Workers
      /\ \A i \in Issues, r \in SUBSET Issues, b \in BOOLEAN :
           [step |-> "chosen", issue |-> i, resumes |-> r, replaced |-> b] \in Workers
      /\ \A i \in Issues, r \in SUBSET Issues :
           [step |-> "running", issue |-> i, resumes |-> r] \in Workers
  BY DEF Workers
<1>1. ASSUME NEW i, NEW e, worker.step = "fetched", i \in Issues => e \in Rows,
             worker' = [worker EXCEPT !.seen = [worker.seen EXCEPT ![i] = e]]
      PROVE  worker' \in Workers
  <2> HIDE DEF Rows
  <2>1. worker \in [step : {"fetched"}, project : Projects, seen : [Issues -> Rows]]
    BY <1>1, WorkerShapes
  <2> DEFINE s == [worker.seen EXCEPT ![i] = e]
  <2>2. s \in [Issues -> Rows]
    BY <1>1, <2>1
  <2>3. worker' = [worker EXCEPT !.seen = s]
    BY <1>1
  <2> HIDE DEF s
  <2>4. worker' \in [step : {"fetched"}, project : Projects, seen : [Issues -> Rows]]
    BY <2>1, <2>2, <2>3
  <2> QED
    BY <2>4 DEF Workers
<1>2. ASSUME NEW i \in Issues, worker.step = "fetched"
      PROVE  worker.seen[i] \in Rows
  BY <1>2, WorkerHolds
<1>3. ASSUME NEW i, Outdated(i)
      PROVE  worker' \in Workers
  <2>1. CASE worker.step = "fetched"
    <3> DEFINE e == Stale(worker.seen[i])
    <3>1. i \in Issues => e \in Rows
      BY <1>2, <2>1, RowEdits DEF Edited
    <3>2. worker' = [worker EXCEPT !.seen = [worker.seen EXCEPT ![i] = e]]
      BY <1>3, <2>1 DEF Outdated, Stale
    <3> HIDE DEF e
    <3> QED
      BY <1>1, <2>1, <3>1, <3>2
  <2>2. CASE worker.step # "fetched"
    BY <1>3, <2>2 DEF Outdated
  <2> QED
    BY <2>1, <2>2
<1>4. ASSUME NEW i, ResolveDecision(i)
      PROVE  worker' \in Workers
  <2>1. CASE worker.step = "fetched"
    <3>1. i \in Issues => Resolve(worker.seen[i]) \in Rows
      BY <1>2, <2>1, RowEdits DEF Edited
    <3>2. worker' = [worker EXCEPT !.seen = [worker.seen EXCEPT ![i] = Resolve(worker.seen[i])]]
      BY <1>4, <2>1 DEF ResolveDecision
    <3> QED
      BY <1>1, <2>1, <3>1, <3>2
  <2>2. CASE worker.step # "fetched"
    BY <1>4, <2>2 DEF ResolveDecision
  <2> QED
    BY <2>1, <2>2
<1>5. ASSUME NEW i, RemoveIssue(i)
      PROVE  worker' \in Workers
  <2>1. CASE worker.step = "chosen" /\ worker.issue = i
    <3>1. worker \in [step : {"chosen"}, issue : Issues, resumes : SUBSET Issues, replaced : BOOLEAN]
      BY <2>1, WorkerShapes
    <3>2. [worker EXCEPT !.replaced = TRUE]
            \in [step : {"chosen"}, issue : Issues, resumes : SUBSET Issues, replaced : BOOLEAN]
      BY <3>1
    <3>3. worker' = [worker EXCEPT !.replaced = TRUE]
      BY <1>5, <2>1 DEF RemoveIssue
    <3> QED
      BY <3>2, <3>3 DEF Workers
  <2>2. CASE worker.step = "fetched"
    <3>1. i \in Issues => Forgotten(worker.seen[i]) \in Rows
      BY <1>2, <2>2, RowEdits DEF Edited
    <3>2. worker' = [worker EXCEPT !.seen = [worker.seen EXCEPT ![i] = Forgotten(worker.seen[i])]]
      BY <1>5, <2>2 DEF RemoveIssue
    <3> QED
      BY <1>1, <2>2, <3>1, <3>2
  <2>3. CASE ~(worker.step = "chosen" /\ worker.issue = i) /\ worker.step # "fetched"
    BY <1>5, <2>3 DEF RemoveIssue
  <2> QED
    BY <2>1, <2>2, <2>3
<1>6. ASSUME NEW p \in Projects, Fetch(p)
      PROVE  worker' \in Workers
  <2> DEFINE listed == {i \in IssuesOf(p) : github[i].state # "none"}
             row(i) == [stored |-> TRUE, present |-> TRUE, state |-> github[i].state,
                        asks |-> github[i].asks, current |-> TRUE,
                        attempted |-> github[i].attempted]
             s == [i \in Issues |-> IF i \in listed THEN row(i) ELSE NoRow]
  <2>1. worker' = [step |-> "fetched", project |-> p, seen |-> s]
    BY <1>6 DEF Fetch
  <2>2. NoRow \in Rows /\ \A i \in Issues : row(i) \in Rows
    BY DEF NoRow, Rows, States, Decisions, IssueMarks
  <2> HIDE DEF row, listed
  <2>3. s \in [Issues -> Rows]
    BY <2>2
  <2> HIDE DEF s
  <2> QED
    BY <1>0, <2>1, <2>3
<1>7. ASSUME NEW p \in Projects, Choose(p)
      PROVE  worker' \in Workers
  <2>1. CandidateItem(p) \in Issues
    BY <1>7, CandidateIsThere DEF Choose, Selected, Present, IssuesOf
  <2>2. Resumed(p) \in SUBSET Issues
    BY DEF Resumed, Asking, InState, Present, IssuesOf
  <2> QED
    BY <1>0, <1>7, <2>1, <2>2 DEF Choose
<1>8. CASE ScheduleWithLease
  BY <1>0, <1>8, WorkerHolds DEF ScheduleWithLease
<1>9. ASSUME \/ Reconcile
             \/ \E status : RunEndsWritten(status) \/ RunEndsUnwritten(status)
      PROVE  worker' \in Workers
  BY <1>0, <1>9 DEF Reconcile, RunEndsWritten, RunEndsUnwritten
<1> QED
  BY <1>3, <1>4, <1>5, <1>6, <1>7, <1>8, <1>9, WritesWorker

(* What GitHub says of an issue is a mark of an issue, whoever wrote it.   *)
LEMMA GithubTypes ==
  ASSUME github \in [Issues -> IssueMarks], rows \in [Issues -> Rows], worker \in Workers,
         [Next]_vars
  PROVE  github' \in [Issues -> IssueMarks]
<1>0. \A i \in Issues : github[i] \in IssueMarks /\ rows[i] \in Rows
  OBVIOUS
<1>1. ASSUME NEW i, NEW m, i \in Issues => m \in IssueMarks
      PROVE  [github EXCEPT ![i] = m] \in [Issues -> IssueMarks]
  BY <1>1
<1>2. ASSUME NEW i, NEW open \in BOOLEAN, NEW state, NEW asks,
             i \in Issues => state \in States /\ asks \in Decisions,
             WriteIssue(i, open, state, asks)
      PROVE  github' \in [Issues -> IssueMarks]
  <2> DEFINE m == [open |-> open, state |-> state, asks |-> asks, attempted |-> FALSE]
  <2>1. i \in Issues => m \in IssueMarks
    BY <1>2 DEF IssueMarks
  <2>2. github' = [github EXCEPT ![i] = m]
    BY <1>2 DEF WriteIssue
  <2> HIDE DEF m
  <2> QED
    BY <1>1, <2>1, <2>2
<1>3. ASSUME NEW m \in IssueMarks, NEW b \in BOOLEAN
      PROVE  /\ Spent(m) \in IssueMarks /\ Resolve(m) \in IssueMarks
             /\ Forgotten(m) \in IssueMarks /\ [m EXCEPT !.attempted = b] \in IssueMarks
  <2>1. [m EXCEPT !.attempted = b] \in IssueMarks
    BY DEF IssueMarks
  <2>2. Spent(m) \in IssueMarks /\ Resolve(m) \in IssueMarks
    BY DEF Spent, Resolve, IssueMarks, Decisions
  <2> DEFINE a == IF m.asks = "none" THEN m.asks ELSE "spent"
  <2>3. a \in Decisions
    BY DEF IssueMarks, Decisions
  <2>4. Forgotten(m) = [m EXCEPT !.attempted = FALSE, !.asks = a]
    BY DEF Forgotten, IssueMarks
  <2> HIDE DEF a
  <2>5. Forgotten(m) \in IssueMarks
    BY <2>3, <2>4 DEF IssueMarks
  <2> QED
    BY <2>1, <2>2, <2>5
<1>4. ASSUME NEW i, RemoveIssue(i) \/ ResolveDecision(i)
      PROVE  github' \in [Issues -> IssueMarks]
  <2>1. \/ github' = [github EXCEPT ![i] = Forgotten(github[i])]
        \/ github' = [github EXCEPT ![i] = Resolve(github[i])]
    BY <1>4 DEF RemoveIssue, ResolveDecision
  <2>2. i \in Issues => Forgotten(github[i]) \in IssueMarks /\ Resolve(github[i]) \in IssueMarks
    BY <1>0, <1>3
  <2> QED
    BY <1>1, <2>1, <2>2
<1>5. ASSUME NEW i, NEW state \in {"ready", "failed"},
             \/ WriteIssue(i, TRUE, "ready", "none") \/ WriteIssue(i, FALSE, "completed", "none")
             \/ WriteIssue(i, TRUE, "blocked", "spent")
             \/ WriteIssue(i, FALSE, github[i].state, github[i].asks)
             \/ WriteIssue(i, TRUE, state, github[i].asks)
      PROVE  github' \in [Issues -> IssueMarks]
  <2>1. i \in Issues => github[i].state \in States /\ github[i].asks \in Decisions
    BY <1>0 DEF IssueMarks
  <2>2. {"ready", "failed", "completed", "blocked"} \subseteq States
        /\ {"none", "spent"} \subseteq Decisions
    BY DEF States, Decisions
  <2> QED
    BY <1>2, <1>5, <2>1, <2>2
<1>6. ASSUME NEW named \in [Issues -> IssueMarks], NEW status, github' = SpentBy(status, named)
      PROVE  github' \in [Issues -> IssueMarks]
  BY <1>3, <1>6 DEF SpentBy
<1>7. ASSUME NEW status, RunEndsWritten(status)
      PROVE  github' \in [Issues -> IssueMarks]
  <2>1. worker.issue \in Issues
    BY <1>7, WorkerHolds DEF RunEndsWritten
  <2>2. PICK mark \in Left(worker.issue, status) :
          github' = SpentBy(status, [github EXCEPT ![worker.issue] = mark])
    BY <1>7 DEF RunEndsWritten
  <2>3. mark \in IssueMarks
    <3> DEFINE asked == github[worker.issue].asks
    <3>1. asked \in Decisions
      BY <1>0, <2>1 DEF IssueMarks
    <3>2. \E state \in {"waiting-human", "running", "cancelled"}, asks \in {"open", "none", asked} :
            mark = [open |-> TRUE, state |-> state, asks |-> asks, attempted |-> FALSE]
      BY DEF Left
    <3> HIDE DEF asked
    <3> QED
      BY <3>1, <3>2 DEF IssueMarks, States, Decisions
  <2> QED
    BY <1>1, <1>6, <2>2, <2>3
<1>8. ASSUME NEW status, RunEndsUnwritten(status)
      PROVE  github' \in [Issues -> IssueMarks]
  <2> DEFINE i == worker.issue
             b == github[i].attempted \/ (Recorded(status) /\ rows[i].current)
  <2>1. i \in Issues
    BY <1>8, WorkerHolds DEF RunEndsUnwritten
  <2>2. github' = SpentBy(status, [github EXCEPT ![i] = [github[i] EXCEPT !.attempted = b]])
    BY <1>8 DEF RunEndsUnwritten
  <2>3. b \in BOOLEAN
    BY DEF Recorded
  <2>4. [github[i] EXCEPT !.attempted = b] \in IssueMarks
    BY <1>0, <1>3, <2>1, <2>3
  <2> HIDE DEF i, b
  <2> QED
    BY <1>1, <1>6, <2>2, <2>4
<1> QED
  BY <1>4, <1>5, <1>7, <1>8, WritesGithub
-----------------------------------------------------------------------------
(* Successes.                                                              *)

LEMMA RemoveAtProperties ==
  ASSUME NEW S, NEW s \in Seq(S), NEW n \in 1..Len(s)
  PROVE  /\ RemoveAt(s, n) \in Seq(S)
         /\ Len(RemoveAt(s, n)) = Len(s) - 1
         /\ \A k \in 1..(Len(s) - 1) : RemoveAt(s, n)[k] = IF k < n THEN s[k] ELSE s[k + 1]
<1> DEFINE a == SubSeq(s, 1, n - 1)
           b == SubSeq(s, n + 1, Len(s))
<1>1. Len(s) \in Nat /\ \A k \in 1..Len(s) : s[k] \in S
  OBVIOUS
<1>2. /\ a \in Seq(S) /\ Len(a) = n - 1
      /\ \A k \in 1..(n - 1) : a[k] = s[k]
  <2>1. 1 \in Int /\ n - 1 \in Int /\ \A k \in 1..(n - 1) : s[k] \in S
    BY <1>1
  <2>2. /\ a \in Seq(S) /\ Len(a) = IF 1 <= n - 1 THEN (n - 1) - 1 + 1 ELSE 0
        /\ \A k \in 1..((n - 1) - 1 + 1) : a[k] = s[1 + k - 1]
    BY <2>1, SubSeqProperties
  <2> HIDE DEF a
  <2> QED
    BY <2>2, <1>1
<1>3. /\ b \in Seq(S) /\ Len(b) = Len(s) - n
      /\ \A k \in 1..(Len(s) - n) : b[k] = s[n + k]
  <2>1. n + 1 \in Int /\ Len(s) \in Int /\ \A k \in (n + 1)..Len(s) : s[k] \in S
    BY <1>1
  <2>2. /\ b \in Seq(S) /\ Len(b) = IF n + 1 <= Len(s) THEN Len(s) - (n + 1) + 1 ELSE 0
        /\ \A k \in 1..(Len(s) - (n + 1) + 1) : b[k] = s[n + 1 + k - 1]
    BY <2>1, SubSeqProperties
  <2> HIDE DEF b
  <2> QED
    BY <2>2, <1>1
<1> HIDE DEF a, b
<1>4. /\ a \o b \in Seq(S)
      /\ Len(a \o b) = Len(a) + Len(b)
      /\ \A k \in 1..(Len(a) + Len(b)) : (a \o b)[k] = IF k <= Len(a) THEN a[k] ELSE b[k - Len(a)]
  BY <1>2, <1>3, ConcatProperties
<1>5. RemoveAt(s, n) = a \o b
  BY DEF RemoveAt, a, b
<1>6. ASSUME NEW k \in 1..(Len(s) - 1)
      PROVE  (a \o b)[k] = IF k < n THEN s[k] ELSE s[k + 1]
  <2>1. CASE k < n
    <3>1. k \in 1..(Len(a) + Len(b)) /\ k <= Len(a) /\ k \in 1..(n - 1)
      BY <2>1, <1>1, <1>2, <1>3
    <3> QED
      BY <3>1, <2>1, <1>2, <1>4
  <2>2. CASE ~(k < n)
    <3>1. /\ k \in 1..(Len(a) + Len(b)) /\ ~(k <= Len(a))
          /\ k - Len(a) \in 1..(Len(s) - n) /\ n + (k - Len(a)) = k + 1
      BY <2>2, <1>1, <1>2, <1>3
    <3> QED
      BY <3>1, <2>2, <1>3, <1>4
  <2> QED
    BY <2>1, <2>2
<1>7. (n - 1) + (Len(s) - n) = Len(s) - 1
  BY <1>1
<1> QED
  BY ONLY <1>2, <1>3, <1>4, <1>5, <1>6, <1>7

\* The place of a project's last success among some successes.
LatestOf(s, p) == Max({0} \cup {k \in DOMAIN s : Owner[s[k]] = p})

LEMMA LastIs ==
  ASSUME NEW s \in Seq(Issues), NEW p
  PROVE  /\ LatestOf(s, p) \in 0..Len(s)
         /\ LatestOf(s, p) # 0 => Owner[s[LatestOf(s, p)]] = p
         /\ \A k \in 1..Len(s) : Owner[s[k]] = p => k <= LatestOf(s, p)
<1> DEFINE S == {0} \cup {k \in DOMAIN s : Owner[s[k]] = p}
<1>1. Len(s) \in Nat /\ DOMAIN s = 1..Len(s)
  BY LenProperties
<1>2. S \subseteq -1..Len(s) /\ S # {}
  BY <1>1
<1>3. Max(S) \in S /\ \A k \in S : k <= Max(S)
  BY <1>1, <1>2, MaxIsThere
<1>4. LatestOf(s, p) = Max(S)
  BY DEF LatestOf
<1>5. Max(S) \in 0..Len(s) /\ (Max(S) # 0 => Owner[s[Max(S)]] = p)
  BY <1>1, <1>3
<1>6. \A k \in 1..Len(s) : Owner[s[k]] = p => k <= Max(S)
  BY <1>1, <1>3
<1> HIDE DEF S
<1> QED
  BY <1>4, <1>5, <1>6

\* What is left of s without its place n, which held i unless n is past its end.
TakenOut(s, i, n, r) ==
  /\ r \in Seq(Issues)
  /\ Len(r) = IF n <= Len(s) THEN Len(s) - 1 ELSE Len(s)
  /\ \A k \in 1..Len(r) : r[k] = IF k < n THEN s[k] ELSE s[k + 1]
  /\ n <= Len(s) => s[n] = i

(* Forgetting the earlier success of an issue takes at most one place out. *)
LEMMA WithoutProperties ==
  ASSUME NEW s \in Seq(Issues), NEW i \in Issues
  PROVE  \E n \in 1..(Len(s) + 1) : TakenOut(s, i, n, WithoutIssue(s, i))
<1>1. Len(s) \in Nat /\ DOMAIN s = 1..Len(s)
  BY LenProperties
<1>2. CASE i \in Range(s)
  <2> DEFINE n == CHOOSE k \in DOMAIN s : s[k] = i
  <2>1. n \in 1..Len(s) /\ s[n] = i
    BY <1>1, <1>2 DEF Range
  <2>2. WithoutIssue(s, i) = RemoveAt(s, n)
    BY <1>2 DEF WithoutIssue
  <2> HIDE DEF n
  <2>3. /\ RemoveAt(s, n) \in Seq(Issues)
        /\ Len(RemoveAt(s, n)) = Len(s) - 1
        /\ \A k \in 1..(Len(s) - 1) : RemoveAt(s, n)[k] = IF k < n THEN s[k] ELSE s[k + 1]
    BY <2>1, RemoveAtProperties
  <2>4. n \in 1..(Len(s) + 1) /\ n <= Len(s)
    BY <1>1, <2>1
  <2>5. TakenOut(s, i, n, RemoveAt(s, n))
    BY <2>1, <2>3, <2>4 DEF TakenOut
  <2> QED
    BY <2>2, <2>4, <2>5
<1>3. CASE i \notin Range(s)
  <2>1. WithoutIssue(s, i) = s
    BY <1>3 DEF WithoutIssue
  <2>2. Len(s) + 1 \in 1..(Len(s) + 1) /\ ~(Len(s) + 1 <= Len(s))
        /\ \A k \in 1..Len(s) : k < Len(s) + 1
    BY <1>1
  <2>3. TakenOut(s, i, Len(s) + 1, s)
    BY <2>2, <1>1 DEF TakenOut
  <2> QED
    BY <2>1, <2>2, <2>3
<1> QED
  BY <1>2, <1>3
\* Where a place of s is after place n has been taken out.
Shifted(n, k) == IF k < n THEN k ELSE k - 1

(* Recording a success of an issue puts its project last, and keeps the    *)
(* order in which all other projects last succeeded.                       *)
LEMMA RecordKeepsOrder ==
  ASSUME NEW s \in Seq(Issues), NEW i \in Issues
  PROVE  LET t == Append(WithoutIssue(s, i), i) IN
         /\ t \in Seq(Issues) /\ Len(t) >= Len(s) /\ t # <<>> /\ t[Len(t)] = i
         /\ LatestOf(t, Owner[i]) = Len(t)
         /\ \A p : p # Owner[i] => LatestOf(t, p) < Len(t)
         /\ \A p, q : (p # Owner[i] /\ q # Owner[i] /\ LatestOf(s, p) < LatestOf(s, q))
                        => LatestOf(t, p) < LatestOf(t, q)
<1> DEFINE r == WithoutIssue(s, i)
           t == Append(r, i)
<1>1. PICK n \in 1..(Len(s) + 1) : TakenOut(s, i, n, r)
  BY WithoutProperties
<1>2. /\ r \in Seq(Issues) /\ Len(s) \in Nat /\ Len(r) \in Nat
      /\ Len(r) = IF n <= Len(s) THEN Len(s) - 1 ELSE Len(s)
      /\ \A k \in 1..Len(r) : r[k] = IF k < n THEN s[k] ELSE s[k + 1]
      /\ n <= Len(s) => s[n] = i
  BY <1>1, LenProperties DEF TakenOut
<1> HIDE DEF r
<1>3. /\ t \in Seq(Issues) /\ t # <<>> /\ Len(t) = Len(r) + 1
      /\ \A k \in 1..Len(r) : t[k] = r[k]
      /\ t[Len(r) + 1] = i
  BY <1>2, AppendProperties
<1> HIDE DEF t
<1>4. Len(t) >= Len(s) /\ Len(t) \in Nat /\ t[Len(t)] = i
  BY <1>2, <1>3
<1>5. LatestOf(t, Owner[i]) = Len(t)
  <2>1. /\ LatestOf(t, Owner[i]) \in 0..Len(t)
        /\ \A k \in 1..Len(t) : Owner[t[k]] = Owner[i] => k <= LatestOf(t, Owner[i])
    BY <1>3, LastIs
  <2>2. Len(t) \in 1..Len(t) /\ Owner[t[Len(t)]] = Owner[i]
    BY <1>2, <1>3, <1>4
  <2> QED
    BY <2>1, <2>2, <1>4
<1>6. ASSUME NEW p, p # Owner[i]
      PROVE  /\ LatestOf(s, p) \in 0..Len(s) /\ LatestOf(s, p) # n
             /\ LatestOf(t, p) = Shifted(n, LatestOf(s, p)) /\ LatestOf(t, p) < Len(t)
  <2> DEFINE a == LatestOf(s, p)
             b == LatestOf(t, p)
  <2>1. /\ a \in 0..Len(s) /\ (a # 0 => Owner[s[a]] = p)
        /\ \A k \in 1..Len(s) : Owner[s[k]] = p => k <= a
    BY LastIs
  <2>2. /\ b \in 0..Len(t) /\ (b # 0 => Owner[t[b]] = p)
        /\ \A k \in 1..Len(t) : Owner[t[k]] = p => k <= b
    BY <1>3, LastIs
  <2> HIDE DEF a, b
  <2>3. a # n
    BY <2>1, <1>2, <1>6
  <2>4. b # Len(t)
    BY <2>2, <1>2, <1>3, <1>4, <1>6
  <2>5. b < Len(t) /\ b \in 0..Len(r)
    BY <2>2, <2>4, <1>2, <1>3
  <2>6. a # 0 => Shifted(n, a) <= b
    <3>1. ASSUME a # 0
          PROVE  Shifted(n, a) \in 1..Len(r) /\ r[Shifted(n, a)] = s[a]
      BY <3>1, <2>1, <2>3, <1>2 DEF Shifted
    <3> DEFINE k == Shifted(n, a)
    <3> HIDE DEF k
    <3>2. ASSUME a # 0
          PROVE  k \in 1..Len(t) /\ Owner[t[k]] = p
      <4>1. k \in 1..Len(r) /\ r[k] = s[a] /\ Owner[s[a]] = p
        BY <3>1, <3>2, <2>1 DEF k
      <4> QED
        BY <4>1, <1>2, <1>3
    <3> QED
      BY <3>2, <2>2 DEF k
  <2>7. b # 0 => (IF b < n THEN b ELSE b + 1) <= a
    <3>1. ASSUME b # 0
          PROVE  LET g == IF b < n THEN b ELSE b + 1
                 IN  g \in 1..Len(s) /\ Owner[s[g]] = p
      <4>1. b \in 1..Len(r) /\ t[b] = r[b] /\ Owner[t[b]] = p
        BY <3>1, <2>2, <2>5, <1>3
      <4>2. CASE b < n
        BY <4>1, <4>2, <1>2
      <4>3. CASE ~(b < n)
        BY <4>1, <4>3, <1>2
      <4> QED
        BY <4>2, <4>3
    <3> QED
      BY <3>1, <2>1
  <2>8. b = Shifted(n, a)
    BY <2>1, <2>3, <2>5, <2>6, <2>7, <1>2 DEF Shifted
  <2> QED
    BY <2>1, <2>3, <2>5, <2>8 DEF a, b
<1>7. ASSUME NEW p, NEW q, p # Owner[i], q # Owner[i], LatestOf(s, p) < LatestOf(s, q)
      PROVE  LatestOf(t, p) < LatestOf(t, q)
  <2>1. /\ LatestOf(s, p) \in 0..Len(s) /\ LatestOf(s, p) # n /\ LatestOf(t, p) = Shifted(n, LatestOf(s, p))
        /\ LatestOf(s, q) \in 0..Len(s) /\ LatestOf(s, q) # n /\ LatestOf(t, q) = Shifted(n, LatestOf(s, q))
    BY <1>6, <1>7
  <2> QED
    BY <2>1, <1>2, <1>7 DEF Shifted
<1> QED
  BY <1>3, <1>4, <1>5, <1>6, <1>7 DEF t, r
-----------------------------------------------------------------------------
(* The invariant of a run.                                                 *)

(* Successes are recorded of issues; a shorter history is a removal.       *)
LEMMA SuccessMoves ==
  ASSUME worker \in Workers, successes \in Seq(Issues), [Next]_vars
  PROVE  /\ successes' \in Seq(Issues)
         /\ \/ UNCHANGED successes
            \/ \E i \in Operated : RemoveIssue(i)
            \/ /\ worker.step = "running"
               /\ successes' = Append(WithoutIssue(successes, worker.issue), worker.issue)
<1>1. ASSUME NEW status, RunEndsWritten(status), ~UNCHANGED successes
      PROVE  /\ successes' \in Seq(Issues)
             /\ worker.step = "running"
             /\ successes' = Append(WithoutIssue(successes, worker.issue), worker.issue)
  <2>1. /\ worker.step = "running" /\ worker.issue \in Issues
        /\ successes' = Append(WithoutIssue(successes, worker.issue), worker.issue)
    BY <1>1, WorkerHolds DEF RunEndsWritten, RecordSuccess
  <2> QED
    BY <2>1, RecordKeepsOrder
<1>2. ASSUME NEW i \in Operated, RemoveIssue(i)
      PROVE  successes' \in Seq(Issues)
  <2>1. i \in Issues /\ successes' = WithoutIssue(successes, i)
    BY <1>2, SchedulingAssumption DEF RemoveIssue
  <2> QED
    BY <2>1, WithoutProperties DEF TakenOut
<1> QED
  BY <1>1, <1>2, WritesSuccesses

(* Profiles, settings, removals and the bounded actions keep their types.  *)
LEMMA SmallTypes ==
  ASSUME TypeOK, [Next]_vars
  PROVE  /\ profile' \in [Projects -> [compatible : {"unread", "yes", "no"},
                                       ade : BOOLEAN, fresh : BOOLEAN]]
         /\ backoff' \subseteq Projects
         /\ removed' \subseteq Issues /\ readmitting' \subseteq removed'
         /\ settings' \in Settings
         /\ acts' \in 0..MaxActs
<1>0. Disturbed \subseteq Projects /\ Operated \subseteq Issues
  BY SchedulingAssumption DEF Disturbed
<1> DEFINE Profiles == [compatible : {"unread", "yes", "no"}, ade : BOOLEAN, fresh : BOOLEAN]
<1>1. profile' \in [Projects -> Profiles]
  <2>1. \A p \in Projects : profile[p] \in Profiles
    BY DEF TypeOK
  <2>2. ASSUME NEW p \in Projects, NEW r \in Profiles, profile' = [profile EXCEPT ![p] = r]
        PROVE  profile' \in [Projects -> Profiles]
    BY <2>2 DEF TypeOK
  <2>3. ASSUME NEW p \in Projects, NEW seen, NEW c \in {"yes", "no"}, StoreProjection(p, seen, c)
        PROVE  profile' \in [Projects -> Profiles]
    <3> DEFINE r == [profile[p] EXCEPT !.compatible = c, !.fresh = TRUE]
    <3>1. r \in Profiles
      BY <2>1
    <3>2. profile' = [profile EXCEPT ![p] = r]
      BY <2>3 DEF StoreProjection, TypeOK
    <3> HIDE DEF r, Profiles
    <3> QED
      BY <2>2, <3>1, <3>2
  <2>4. CASE Reconcile
    <3>1. worker.project \in Projects
      BY <2>4, WorkerHolds DEF Reconcile, TypeOK
    <3> QED
      BY <2>3, <2>4, <3>1 DEF Reconcile
  <2>5. ASSUME NEW p \in Disturbed, NEW deferred, ReconciliationFails(p, deferred)
        PROVE  profile' \in [Projects -> Profiles]
    BY <1>0, <2>3, <2>5 DEF ReconciliationFails
  <2>6. ASSUME NEW p \in Disturbed, ProjectionExpires(p)
        PROVE  profile' \in [Projects -> Profiles]
    <3> DEFINE r == [profile[p] EXCEPT !.fresh = FALSE]
    <3>1. p \in Projects /\ r \in Profiles
      BY <1>0, <2>1
    <3>2. profile' = [profile EXCEPT ![p] = r]
      BY <2>6 DEF ProjectionExpires
    <3> HIDE DEF r, Profiles
    <3> QED
      BY <2>2, <3>1, <3>2
  <2>7. ASSUME NEW p \in Disturbed, NEW b \in BOOLEAN, RecordAdeReadiness(p, b)
        PROVE  profile' \in [Projects -> Profiles]
    <3> DEFINE r == [profile[p] EXCEPT !.ade = b]
    <3>1. p \in Projects /\ r \in Profiles
      BY <1>0, <2>1
    <3>2. profile' = [profile EXCEPT ![p] = r]
      BY <2>7 DEF RecordAdeReadiness
    <3> HIDE DEF r, Profiles
    <3> QED
      BY <2>2, <3>1, <3>2
  <2>8. UNCHANGED profile => profile' \in [Projects -> Profiles]
    BY DEF TypeOK
  <2> HIDE DEF Profiles
  <2> QED
    BY <2>4, <2>5, <2>6, <2>7, <2>8, WritesProfile
<1>2. backoff' \subseteq Projects
  <2>1. ASSUME NEW p \in Disturbed, NEW deferred, ReconciliationFails(p, deferred)
        PROVE  backoff' \subseteq Projects
    BY <1>0, <2>1 DEF ReconciliationFails, TypeOK
  <2>2. backoff \subseteq Projects
    BY DEF TypeOK
  <2> QED
    BY <2>1, <2>2, WritesBackoff
<1>3. removed' \subseteq Issues /\ readmitting' \subseteq removed'
  <2>1. removed \subseteq Issues /\ readmitting \subseteq removed
    BY DEF TypeOK
  <2>2. ASSUME NEW i, Readmit(i) \/ (Admission(i) /\ UNCHANGED removed)
        PROVE  removed' \subseteq Issues /\ readmitting' \subseteq removed'
    BY <2>1, <2>2 DEF Admission, Readmit
  <2>3. ASSUME NEW i \in Operated, RemoveIssue(i)
        PROVE  removed' \subseteq Issues /\ readmitting' \subseteq removed'
    BY <1>0, <2>1, <2>3 DEF RemoveIssue
  <2> QED
    BY <2>1, <2>2, <2>3, WritesRemoved
<1>4. settings' \in Settings
  <2>1. settings \in Settings
    BY DEF TypeOK
  <2>2. ASSUME ChangeMode \/ DrainRunner \/ EnsureLocalRunner
        PROVE  settings' \in Settings
    BY <2>1, <2>2 DEF ChangeMode, DrainRunner, EnsureLocalRunner, Settings
  <2>3. ASSUME NEW p \in Disturbed, ChangeControl(p)
        PROVE  settings' \in Settings
    <3> DEFINE c == [settings.control EXCEPT ![p] = IF settings.control[p] = "enabled"
                                                    THEN "paused" ELSE "enabled"]
    <3>1. settings.control \in [Projects -> {"enabled", "paused"}]
      BY <2>1 DEF Settings
    <3>2. c \in [Projects -> {"enabled", "paused"}]
      BY <3>1
    <3>3. settings' = [settings EXCEPT !.control = c]
      BY <2>3 DEF ChangeControl
    <3> HIDE DEF c
    <3> QED
      BY <2>1, <3>2, <3>3 DEF Settings
  <2>4. ASSUME NEW q \in {"normal", "throttled"}, ObserveQuota(q) \/ EditPolicy(q)
        PROVE  settings' \in Settings
    BY <2>1, <2>4 DEF ObserveQuota, EditPolicy, Settings
  <2> QED
    BY <2>1, <2>2, <2>3, <2>4, WritesSettings DEF ChangeSettings
<1>5. acts' \in 0..MaxActs
  <2>1. acts \in 0..MaxActs /\ MaxActs \in Nat
    BY SchedulingAssumption DEF TypeOK
  <2> QED
    BY <2>1, WritesActs DEF Act
<1> QED
  BY <1>1, <1>2, <1>3, <1>4, <1>5

\* An issue that was removed has no row any more, and does not run.
RemovedAreGone ==
  \A i \in removed : /\ ~rows[i].stored /\ ~rows[i].present
                     /\ ~(worker.step = "running" /\ worker.issue = i)
\* What holds along a run: types, queues, and what a removal means.
SchedulingInv == TypeOK /\ PositionsDistinct /\ RemovedAreGone

(* An issue starts to run only when its lease is taken, which looks at the *)
(* removals.                                                               *)
LEMMA RunningMoves ==
  ASSUME worker \in Workers, [Next]_vars, worker'.step = "running"
  PROVE  UNCHANGED worker \/ (ScheduleWithLease /\ worker'.issue \notin removed)
<1> HIDE DEF Rows
<1>1. ASSUME NEW i, Outdated(i) \/ ResolveDecision(i) \/ RemoveIssue(i)
      PROVE  UNCHANGED worker
  <2>1. CASE worker.step = "fetched"
    <3>1. worker \in [step : {"fetched"}, project : Projects, seen : [Issues -> Rows]]
      BY <2>1, WorkerShapes
    <3>2. \E seen : worker' = [worker EXCEPT !.seen = seen]
      BY <1>1, <2>1 DEF Outdated, ResolveDecision, RemoveIssue
    <3>3. PICK seen : worker' = [worker EXCEPT !.seen = seen]
      BY <3>2
    <3>4. worker'.step = "fetched"
      BY ONLY <3>1, <3>3
    <3> QED
      BY <3>4
  <2>2. CASE worker.step = "chosen"
    <3>1. worker \in [step : {"chosen"}, issue : Issues, resumes : SUBSET Issues,
                      replaced : BOOLEAN]
      BY <2>2, WorkerShapes
    <3>2. UNCHANGED worker \/ worker' = [worker EXCEPT !.replaced = TRUE]
      BY <1>1, <2>2 DEF Outdated, ResolveDecision, RemoveIssue
    <3>3. worker' = [worker EXCEPT !.replaced = TRUE] => worker'.step = "chosen"
      BY ONLY <3>1
    <3> QED
      BY <3>2, <3>3
  <2>3. CASE worker.step # "fetched" /\ worker.step # "chosen"
    BY <1>1, <2>3 DEF Outdated, ResolveDecision, RemoveIssue
  <2> QED
    BY <2>1, <2>2, <2>3
<1>2. CASE ScheduleWithLease
  BY <1>2 DEF ScheduleWithLease, Idle
<1>3. ASSUME \/ Reconcile \/ \E status : RunEndsWritten(status) \/ RunEndsUnwritten(status)
      PROVE  FALSE
  <2>1. worker' = Idle
    BY ONLY <1>3 DEF Reconcile, RunEndsWritten, RunEndsUnwritten
  <2> QED
    BY <2>1 DEF Idle
<1>4. ASSUME NEW p, Fetch(p)
      PROVE  FALSE
  <2>1. \E seen : worker' = [step |-> "fetched", project |-> p, seen |-> seen]
    BY <1>4 DEF Fetch
  <2> QED
    BY <2>1
<1>5. ASSUME NEW p, Choose(p)
      PROVE  FALSE
  <2>1. \E i, r : worker' = [step |-> "chosen", issue |-> i, resumes |-> r, replaced |-> FALSE]
    BY <1>5 DEF Choose
  <2> QED
    BY <2>1
<1> QED
  BY <1>1, <1>2, <1>3, <1>4, <1>5, WritesWorker

(* Only an operator removes an issue, and never the one that runs.         *)
LEMMA RemovalMoves ==
  ASSUME [Next]_vars, NEW i, i \in removed', i \notin removed
  PROVE  i \in Operated /\ RemoveIssue(i)
<1>1. ASSUME NEW j \in Operated, RemoveIssue(j)
      PROVE  i \in Operated /\ RemoveIssue(i)
  <2>1. i = j
    BY <1>1 DEF RemoveIssue
  <2> QED
    BY <1>1, <2>1
<1>2. ASSUME NEW j, Readmit(j)
      PROVE  removed' \subseteq removed
  BY <1>2 DEF Readmit
<1> QED
  BY <1>1, <1>2, WritesRemoved

LEMMA StartsRight == Init => SchedulingInv
<1> SUFFICES ASSUME Init PROVE SchedulingInv
  OBVIOUS
<1>1. /\ github \in [Issues -> [open : BOOLEAN, state : States, asks : Decisions,
                                attempted : BOOLEAN]]
      /\ rows \in [Issues -> Rows]
  BY DEF Init, States, Decisions, Rows, NoRow
<1>2. profile \in [Projects -> [compatible : {"unread", "yes", "no"}, ade : BOOLEAN, fresh : BOOLEAN]]
  BY DEF Init
<1>3. /\ backoff \subseteq Projects /\ removed \subseteq Issues /\ readmitting \subseteq removed
      /\ preference \in [Issues -> -1..MaxPosition] /\ PositionsDistinct /\ RemovedAreGone
  BY SchedulingAssumption DEF Init, Unset, PositionsDistinct, RemovedAreGone
<1>4. settings \in Settings
  BY DEF Init, Settings
<1>7. requests \in [Operators -> Requests]
  <2>1. <<>> \in Seq(Issues)
    BY ONLY EmptySeq
  <2> QED
    BY <2>1 DEF Init, NoRequest, Requests
<1>5. successes \in Seq(Issues) /\ worker \in Workers /\ acts \in 0..MaxActs
  BY SchedulingAssumption DEF Init, Workers
<1>6. overtaken \in [Projects -> SUBSET Projects]
  BY DEF Init
<1> QED
  BY <1>1, <1>2, <1>3, <1>4, <1>5, <1>6, <1>7 DEF SchedulingInv, TypeOK

(* What is counted against a project are projects.                         *)
LEMMA OvertakenTypes ==
  ASSUME overtaken \in [Projects -> SUBSET Projects], successes \in Seq(Issues),
         successes' \in Seq(Issues), [Next]_vars
  PROVE  overtaken' \in [Projects -> SUBSET Projects]
<1>1. CASE UNCHANGED vars
  BY <1>1 DEF vars
<1>2. CASE Next
  <2>1. Successful => Winner \in Projects
    <3> SUFFICES ASSUME Successful PROVE Winner \in Projects
      OBVIOUS
    <3>1. Len(successes) \in Nat /\ Len(successes') \in Nat
      BY LenProperties
    <3>2. Len(successes') # 0
      <4>1. Len(successes') = 0 => Len(successes) = 0
        BY <3>1 DEF Successful
      <4> QED
        BY <4>1, EmptySeq, SeqEqual DEF Successful
    <3>3. successes'[Len(successes')] \in Issues
      BY <3>1, <3>2, ElementOfSeq
    <3> QED
      BY <3>3, SchedulingAssumption DEF Winner
  <2>2. Overtake
    BY <1>2 DEF Next
  <2> QED
    BY <2>1, <2>2 DEF Overtake, Counted
<1> QED
  BY <1>1, <1>2

(* The invariant is inductive.                                             *)
LEMMA SchedulingStep ==
  ASSUME SchedulingInv, [Next]_vars
  PROVE  SchedulingInv'
<1>1. /\ github \in [Issues -> IssueMarks] /\ rows \in [Issues -> Rows] /\ worker \in Workers
      /\ preference \in [Issues -> -1..MaxPosition] /\ successes \in Seq(Issues)
      /\ overtaken \in [Projects -> SUBSET Projects] /\ removed \subseteq Issues
      /\ requests \in [Operators -> Requests]
      /\ TypeOK /\ PositionsDistinct /\ RemovedAreGone
  BY DEF SchedulingInv, TypeOK, IssueMarks
<1>2. github' \in [Issues -> IssueMarks] /\ worker' \in Workers
  BY <1>1, GithubTypes, WorkerTypes
<1>3. requests' \in [Operators -> Requests]
  BY <1>1, RequestTypes
<1>4. /\ rows' \in [Issues -> Rows]
      /\ \A i \in Issues :
           \/ rows'[i].stored = rows[i].stored /\ rows'[i].present = rows[i].present
           \/ i \in removed' /\ ~rows'[i].stored /\ ~rows'[i].present
           \/ \E seen : rows'[i] = Projected(i, seen)
  BY <1>1, RowTypes
<1>5. preference' \in [Issues -> -1..MaxPosition] /\ PositionsDistinct'
  BY <1>1, QueueStep
<1>6. successes' \in Seq(Issues)
  BY <1>1, SuccessMoves
<1>7. overtaken' \in [Projects -> SUBSET Projects]
  BY <1>1, <1>6, OvertakenTypes
<1>8. TypeOK'
  <2> HIDE DEF SchedulingInv
  <2>1. /\ profile' \in [Projects -> [compatible : {"unread", "yes", "no"},
                                      ade : BOOLEAN, fresh : BOOLEAN]]
        /\ backoff' \subseteq Projects
        /\ removed' \subseteq Issues /\ readmitting' \subseteq removed'
        /\ settings' \in Settings
        /\ acts' \in 0..MaxActs
    BY <1>1, SmallTypes
  <2> QED
    BY <1>2, <1>3, <1>4, <1>5, <1>6, <1>7, <2>1 DEF TypeOK, IssueMarks
<1>9. RemovedAreGone'
  <2> SUFFICES ASSUME NEW i \in removed'
               PROVE  /\ ~rows'[i].stored /\ ~rows'[i].present
                      /\ ~(worker'.step = "running" /\ worker'.issue = i)
    BY DEF RemovedAreGone
  <2>1. i \in Issues
    BY <1>8 DEF TypeOK
  <2>2. CASE i \in removed
    <3>1. ~rows[i].stored /\ ~rows[i].present /\ ~(worker.step = "running" /\ worker.issue = i)
      BY <1>1, <2>2 DEF RemovedAreGone
    <3>2. \A seen : Projected(i, seen) = NoRow
      BY <2>2, <3>1 DEF Projected, AbsentRow
    <3>3. ~rows'[i].stored /\ ~rows'[i].present
      BY <1>4, <2>1, <3>1, <3>2 DEF NoRow
    <3>4. ~(worker'.step = "running" /\ worker'.issue = i)
      BY <1>1, <2>2, <3>1, RunningMoves
    <3> QED
      BY <3>3, <3>4
  <2>3. CASE i \notin removed
    <3>1. RemoveIssue(i)
      BY <2>3, RemovalMoves
    <3>2. rows' = [rows EXCEPT ![i] = NoRow]
      BY <3>1 DEF RemoveIssue
    <3>3. ~rows'[i].stored /\ ~rows'[i].present
      BY <1>1, <2>1, <3>2 DEF NoRow
    <3>4. ~(worker'.step = "running" /\ worker'.issue = i)
      <4> SUFFICES ASSUME worker'.step = "running", worker'.issue = i
                   PROVE  FALSE
        OBVIOUS
      <4>1. UNCHANGED worker \/ ScheduleWithLease
        BY <1>1, RunningMoves
      <4>2. ~ScheduleWithLease
        BY <2>3, <3>1 DEF RemoveIssue, ScheduleWithLease
      <4> QED
        BY <3>1, <4>1, <4>2 DEF RemoveIssue
    <3> QED
      BY <3>3, <3>4
  <2> QED
    BY <2>2, <2>3
<1> QED
  BY <1>5, <1>8, <1>9 DEF SchedulingInv

LEMMA SchedulingInvariance == Spec => []SchedulingInv
<1>1. SchedulingInv /\ [Next]_vars => SchedulingInv'
  BY SchedulingStep
<1> QED
  BY <1>1, StartsRight, PTL DEF Spec

(* Every actor of the schedule keeps the types of what it writes.          *)
THEOREM SchedulingTypes == Spec => []TypeOK
<1>1. SchedulingInv => TypeOK
  BY DEF SchedulingInv
<1> QED
  BY <1>1, SchedulingInvariance, PTL

(* An issue an operator removed is neither projected nor run again before  *)
(* it is readmitted: the projection and the lease both look at the         *)
(* removals, and a removal takes the row away (remove,                     *)
(* storeProjection, scheduleWithLease).                                    *)
THEOREM RemovalHolds == Spec => []RemovedStaysRemoved
<1>1. SchedulingInv => RemovedStaysRemoved
  BY DEF SchedulingInv, RemovedAreGone, RemovedStaysRemoved
<1> QED
  BY <1>1, SchedulingInvariance, PTL

(* Two issues of a project are never at one position of its queue, however *)
(* the transactions of the requests on it interleave.  The queue being     *)
(* orderly is inductive, whatever a request once read: an enabled issue    *)
(* goes behind all that are in the queue then, and a reorder is accepted   *)
(* only when it names all that are enabled then (setQueuePreference and    *)
(* reorderQueue).                                                          *)
THEOREM QueueStaysOrderly == Spec => []PositionsDistinct
<1>1. SchedulingInv => PositionsDistinct
  BY DEF SchedulingInv
<1> QED
  BY <1>1, SchedulingInvariance, PTL

-----------------------------------------------------------------------------
(* Aging.                                                                  *)

\* Whoever is counted against a project succeeded after it, and a project is
\* counted against only while it stays eligible.
OvertakenLater ==
  \A p \in Projects : \A q \in overtaken[p] :
    Eligible(p) /\ p # q /\ LatestOf(successes, p) < LatestOf(successes, q)

LEMMA LastOfSuccesses == \A p : LastSuccess(p) = LatestOf(successes, p)
  BY DEF LastSuccess, LatestOf

(* A project whose issue runs is not eligible.                             *)
LEMMA RunningIsNotEligible ==
  ASSUME worker.step = "running"
  PROVE  ~Eligible(Owner[worker.issue])
<1>1. ASSUME Eligible(Owner[worker.issue])
      PROVE  FALSE
  <2>1. Unleased(Owner[worker.issue])
    BY <1>1, EligibleMeans DEF Eligibility
  <2> QED
    BY <2>1 DEF Unleased, HasActiveLease
<1> QED
  BY <1>1

(* Eligibility is read from the variables.                                 *)
LEMMA EligibleStutters ==
  ASSUME UNCHANGED vars, NEW p
  PROVE  Eligible(p)' <=> Eligible(p)
<1>1. \A q : Present(q)' = Present(q)
  BY DEF vars, Present, IssuesOf
<1>2. \A q, state : InState(q, state)' = InState(q, state)
  BY <1>1 DEF vars, InState
<1>3. Ready(p)' = Ready(p) /\ Dependent(p)' = Dependent(p)
  BY <1>2 DEF vars, Ready, Dependent, Wanted, Satisfied
<1>4. Item(p)' = Item(p)
  <2>1. \A i, j : RunsBefore(i, j)' <=> RunsBefore(i, j)
    BY DEF vars, RunsBefore, QueueRank
  <2> QED
    BY <1>3, <2>1 DEF Item
<1>5. Choice(p)' = Choice(p)
  BY <1>2, <1>3, <1>4 DEF Choice
<1>6. Resumed(p)' = Resumed(p)
  <2>1. Asking(p)' = Asking(p)
    BY <1>2 DEF vars, Asking
  <2> QED
    BY <2>1 DEF vars, Resumed
<1>7. Selection(p, "worker")' = Selection(p, "worker")
  BY <1>1, <1>5, <1>6 DEF vars, Selection, Readable, Resumes
<1>8. CandidatePriority(p)' = CandidatePriority(p) /\ (HasActiveLease(p)' <=> HasActiveLease(p))
  BY <1>5 DEF vars, CandidatePriority, CandidateItem, HasActiveLease
<1>9. Exclusion(p, "worker")' = Exclusion(p, "worker")
  BY <1>6, <1>7, <1>8 DEF vars, Exclusion, Resumes, QuotaOf
<1> QED
  BY <1>9 DEF Eligible

LEMMA OvertakenLaterStep ==
  ASSUME SchedulingInv, OvertakenLater, [Next]_vars
  PROVE  OvertakenLater'
<1>1. /\ successes \in Seq(Issues) /\ worker \in Workers
      /\ overtaken \in [Projects -> SUBSET Projects]
  BY DEF SchedulingInv, TypeOK
<1>2. CASE UNCHANGED vars
  <2>1. \A p : Eligible(p)' <=> Eligible(p)
    BY <1>2, EligibleStutters
  <2> QED
    BY <1>2, <2>1 DEF vars, OvertakenLater, LatestOf
<1>3. CASE Next
  <2> SUFFICES ASSUME NEW p \in Projects, NEW q \in overtaken'[p]
               PROVE  Eligible(p)' /\ p # q /\ LatestOf(successes', p) < LatestOf(successes', q)
    BY DEF OvertakenLater
  <2>1. /\ Eligible(p)' /\ removed' \subseteq removed
        /\ q \in overtaken[p] \/ (Successful /\ q = Winner /\ q # p)
    BY <1>3 DEF Next, Overtake, Counted
  <2>2. q \in overtaken[p] => /\ Eligible(p) /\ p # q /\ q \in Projects
                              /\ LatestOf(successes, p) < LatestOf(successes, q)
    BY <1>1 DEF OvertakenLater
  <2>3. p # q
    BY <2>1, <2>2
  <2>4. CASE UNCHANGED successes
    BY <2>1, <2>2, <2>3, <2>4 DEF Successful, LatestOf
  <2>5. CASE ~UNCHANGED successes
    <3>1. \A i \in Operated : ~RemoveIssue(i)
      BY <2>1 DEF RemoveIssue
    <3> DEFINE i == worker.issue
               t == Append(WithoutIssue(successes, i), i)
    <3>2. worker.step = "running" /\ successes' = t
      BY <1>1, <2>5, <3>1, SuccessMoves
    <3>3. i \in Issues /\ ~Eligible(Owner[i])
      BY <1>1, <3>2, WorkerShapes, RunningIsNotEligible
    <3>4. /\ t[Len(t)] = i
          /\ LatestOf(t, Owner[i]) = Len(t)
          /\ \A r : r # Owner[i] => LatestOf(t, r) < Len(t)
          /\ \A r, s : (r # Owner[i] /\ s # Owner[i] /\ LatestOf(successes, r) < LatestOf(successes, s))
                         => LatestOf(t, r) < LatestOf(t, s)
      BY <1>1, <3>3, RecordKeepsOrder
    <3> HIDE DEF t, i
    <3>5. Winner = Owner[i]
      BY <3>2, <3>4 DEF Winner
    <3>6. p # Owner[i]
      BY <2>1, <2>2, <3>3, <3>5
    <3>7. CASE q = Owner[i]
      BY <2>1, <2>3, <3>2, <3>4, <3>6, <3>7
    <3>8. CASE q # Owner[i]
      BY <2>1, <2>2, <2>3, <3>2, <3>4, <3>5, <3>6, <3>8
    <3> QED
      BY <3>7, <3>8
  <2> QED
    BY <2>4, <2>5
<1> QED
  BY <1>2, <1>3

(* An idle worker that has chosen an issue has taken the choice's step.    *)
LEMMA OnlyChoiceChooses ==
  ASSUME [Next]_vars, worker.step = "idle", worker # worker', worker'.step = "chosen"
  PROVE  \E p \in Projects : Choose(p)
<1>1. ASSUME NEW i, Outdated(i) \/ ResolveDecision(i) \/ RemoveIssue(i)
      PROVE  FALSE
  BY <1>1 DEF Outdated, ResolveDecision, RemoveIssue
<1>2. ASSUME NEW p, Fetch(p)
      PROVE  FALSE
  <2>1. \E seen : worker' = [step |-> "fetched", project |-> p, seen |-> seen]
    BY <1>2 DEF Fetch
  <2> QED
    BY <2>1
<1>3. ASSUME \/ Reconcile \/ ScheduleWithLease
             \/ \E status : RunEndsWritten(status) \/ RunEndsUnwritten(status)
      PROVE  FALSE
  BY <1>3 DEF Reconcile, ScheduleWithLease, RunEndsWritten, RunEndsUnwritten
<1> QED
  BY <1>1, <1>2, <1>3, WritesWorker

(* Aging keeps equal priorities fair: while a project stays eligible,      *)
(* another of no higher priority is chosen at most until its first success *)
(* (compareSchedulerCandidates).  Whoever is counted succeeded later, and  *)
(* of two eligible projects of one priority the one that succeeded earlier *)
(* is chosen.                                                              *)
THEOREM AgingIsFair == Spec => OvertakenOnce
<1> DEFINE I == SchedulingInv /\ OvertakenLater
           Once == \A p, q \in Projects :
                     (worker'.step = "chosen" /\ worker # worker' /\ worker.step = "idle"
                      /\ Owner[worker'.issue] = q /\ q \in overtaken[p] /\ Eligible(p))
                       => CandidatePriority(q) > CandidatePriority(p)
<1>1. Init => I
  BY StartsRight DEF Init, OvertakenLater
<1>2. I /\ [Next]_vars => I'
  BY SchedulingStep, OvertakenLaterStep
<1>3. ASSUME I, [Next]_vars PROVE [Once]_vars
  <2> SUFFICES ASSUME NEW p \in Projects, NEW q \in Projects,
                      worker'.step = "chosen", worker # worker', worker.step = "idle",
                      Owner[worker'.issue] = q, q \in overtaken[p], Eligible(p)
               PROVE  CandidatePriority(q) > CandidatePriority(p)
    OBVIOUS
  <2>1. PICK r \in Projects : Choose(r)
    BY <1>3, OnlyChoiceChooses
  <2>2. CandidateItem(r) \in Present(r) /\ worker'.issue = CandidateItem(r)
    BY <1>3, <2>1, CandidateIsThere DEF Choose, Selected, SchedulingInv, TypeOK
  <2>3. r = q
    BY <2>2 DEF Present, IssuesOf
  <2>4. p # q /\ LatestOf(successes, p) < LatestOf(successes, q)
    BY <1>3 DEF OvertakenLater
  <2>5. GoesBefore(q, p)
    BY <2>1, <2>3, <2>4 DEF Choose, Selected
  <2>6. LastSuccess(p) < LastSuccess(q) /\ LastSuccess(p) \in Nat /\ LastSuccess(q) \in Nat
    BY <1>3, <2>4, LastOfSuccesses, LastIs DEF SchedulingInv, TypeOK
  <2> QED
    BY <2>5, <2>6 DEF GoesBefore
<1>4. Spec => [][Once]_vars
  BY <1>1, <1>2, <1>3, PTL DEF Spec
<1> QED
  BY <1>4 DEF OvertakenOnce
=============================================================================
