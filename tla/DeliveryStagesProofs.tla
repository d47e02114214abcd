------------------------- MODULE DeliveryStagesProofs -------------------------
(* What a delivery session promises for any number of profiles, reviews,     *)
(* edits, sessions and faults: only what every gate passed is committed, the *)
(* runtime goes through the gates that packages/core states, and every step  *)
(* brings a session closer to its end.                                       *)
EXTENDS DeliveryStages, TLAPS

-----------------------------------------------------------------------------
(* The inductive invariant.                                                *)

\* The counter of the loop, from the plan to the commit.
AttemptsCounted ==
    /\ attempt <= MaximumAttempts
    /\ pc \in {"plan", "implement"} \union Preparing => attempt = 0
    /\ pc \in {"stage", "correct"} => attempt < MaximumAttempts
    /\ pc \in {"deterministic", "profiles", "gate", "commit", "committed"} => attempt > 0
    /\ pc = "profiles" => reviewer \in Reviewers

\* A profile before the present one let the attempt pass, or something blocks it.
ReviewedSoFar ==
    pc = "profiles" /\ Passes(blocking) =>
        \A r \in Reviewers : r < reviewer => approved[r] = attempt

\* What each place of the session knows about the checkout.
GatesPassed ==
    /\ pc \in CommandSteps \union {"gate"} => head = 0
    /\ pc \in {"profiles", "gate", "commit"} => checked = index
    /\ ReviewedSoFar
    /\ pc \in {"gate", "commit"} => \A r \in Reviewers : approved[r] = attempt
    /\ pc = "commit" => plan.ready

\* The comment about p that is just being recorded.
Recording(p) == pc = "remember" /\ purpose = p

(* The comments of a purpose are those whose record failed, and one that is *)
(* recorded or just being recorded.                                         *)
CommentsCounted ==
    \A p \in Purposes :
        created[p] = IF known[p] # 0 \/ Recording(p) THEN unrecorded[p] + 1 ELSE unrecorded[p]
CommentsPaid ==
    /\ CommentsCounted
    /\ pc \in {"create", "remember"} => known[purpose] = 0

SessionInv == TypeOK /\ AttemptsCounted /\ GatesPassed /\ CommittedIsReviewed /\ CommentsPaid

\* TypeOK in the parts that the steps disturb together.
PlaceTypes ==
    /\ pc \in CommandSteps \union Over \union {"gate", "failed", Blocked}
    /\ child \in {"none", "running", "signalled", "killed"} /\ aborted \in BOOLEAN
    /\ (child # "none" => pc \in CommandSteps)
LoopTypes ==
    /\ plan \in [allowed : Allowed, ready : BOOLEAN]
    /\ attempt \in 0..5 /\ reviewer \in 0..Profiles
    /\ blocking \subseteq [profile : Reviewers, attempt : 1..attempt]
    /\ approved \in [Reviewers -> 0..attempt]
VersionTypes ==
    tree \in 0..MaxEdits /\ index \in 0..tree /\ head \in 0..index /\ checked \in 0..tree
CounterTypes ==
    /\ purpose \in Purposes
    /\ created \in [Purposes -> Nat] /\ known \in [Purposes -> Nat]
    /\ unrecorded \in [Purposes -> Nat]
    /\ sessions \in 0..MaxSessions /\ faults \in 0..MaxFaults

(* The parts are the type invariant. *)
LEMMA TypeParts == TypeOK <=> PlaceTypes /\ LoopTypes /\ VersionTypes /\ CounterTypes
  BY DEF TypeOK, PlaceTypes, LoopTypes, VersionTypes, CounterTypes

(* The same of the next state. *)
LEMMA NextTypeParts ==
    TypeOK' <=> PlaceTypes' /\ LoopTypes' /\ VersionTypes' /\ CounterTypes'
  BY TypeParts, PTL

(* A plan of packages/core allows at least one attempt and at most five. *)
LEMMA MaximumTypes ==
    plan \in [allowed : Allowed, ready : BOOLEAN] => MaximumAttempts \in 1..5
<1> SUFFICES ASSUME plan \in [allowed : Allowed, ready : BOOLEAN] PROVE MaximumAttempts \in 1..5
  OBVIOUS
<1>1. plan.allowed \in 0..5
  BY StagesAssumption
<1> QED
  BY <1>1 DEF MaximumAttempts

(* The same of the next state. *)
LEMMA NextMaximumTypes ==
    plan' \in [allowed : Allowed, ready : BOOLEAN] => MaximumAttempts' \in 1..5
<1> SUFFICES ASSUME plan' \in [allowed : Allowed, ready : BOOLEAN] PROVE MaximumAttempts' \in 1..5
  OBVIOUS
<1>1. plan'.allowed \in 0..5
  BY StagesAssumption
<1> QED
  BY <1>1 DEF MaximumAttempts

(* A checkout that is fresh: the start of everything, and of every session. *)
LEMMA FreshCheckout ==
    ASSUME plan' \in [allowed : Allowed, ready : BOOLEAN],
           attempt' = 0, reviewer' = 0, blocking' = {},
           tree' = 0, index' = 0, head' = 0, checked' = 0,
           approved' = [r \in Reviewers |-> 0], pc' = "plan" 
    PROVE  LoopTypes' /\ VersionTypes' /\ AttemptsCounted' /\ GatesPassed' /\ CommittedIsReviewed'
<1>1. MaximumAttempts' \in 1..5
  BY NextMaximumTypes
<1>2. LoopTypes'
  <2>1. blocking' \subseteq [profile : Reviewers, attempt : 1..attempt']
    OBVIOUS
  <2>2. attempt' \in 0..5 /\ reviewer' \in 0..Profiles /\ approved' \in [Reviewers -> 0..attempt']
    BY StagesAssumption
  <2> QED
    BY <2>1, <2>2 DEF LoopTypes
<1>3. VersionTypes'
  BY StagesAssumption DEF VersionTypes
<1>4. AttemptsCounted'
  BY <1>1 DEF AttemptsCounted
<1>5. GatesPassed' /\ CommittedIsReviewed'
  BY DEF GatesPassed, ReviewedSoFar, CommittedIsReviewed
<1> QED
  BY <1>2, <1>3, <1>4, <1>5

(* At the start nothing has been prepared, reviewed, committed or announced. *)
LEMMA SessionInit == Init => SessionInv
<1> SUFFICES ASSUME Init PROVE SessionInv
  OBVIOUS
<1> USE StagesAssumption DEF Init
<1>1. PlaceTypes
  BY DEF PlaceTypes, Over
<1>2. LoopTypes
  <2>1. blocking \subseteq [profile : Reviewers, attempt : 1..attempt]
    OBVIOUS
  <2>2. attempt \in 0..5 /\ reviewer \in 0..Profiles /\ approved \in [Reviewers -> 0..attempt]
    OBVIOUS
  <2> QED
    BY <2>1, <2>2 DEF LoopTypes
<1>3. VersionTypes /\ CounterTypes
  BY DEF VersionTypes, CounterTypes, Purposes
<1>4. AttemptsCounted
  BY MaximumTypes DEF AttemptsCounted, Preparing
<1>5. GatesPassed /\ CommittedIsReviewed /\ CommentsPaid
  BY DEF GatesPassed, CommandSteps, Preparing, AgentSteps, ReviewedSoFar, CommittedIsReviewed,
         CommentsPaid, CommentsCounted, Recording
<1> QED
  BY <1>1, <1>2, <1>3, <1>4, <1>5, TypeParts DEF SessionInv

(* A command that ended by itself or was killed leads to the same steps.   *)
LEMMA CommandsEnd == CommandExits \/ CommandKilled => Step(TRUE)
  BY DEF CommandExits, CommandKilled, Step, Prepares, Implements, Stages, Validates, Reviews,
         Corrects, Commits, Closed

(* A step that leaves the checkout and the gates alone, and stays or leaves *)
(* the commands behind.                                                    *)
LEMMA GatesRest ==
    ASSUME SessionInv, UNCHANGED <<checkout, gateVars>>,
           pc' = pc \/ pc' \in {"idle", "down", "failed"} \union NotifySteps
    PROVE  LoopTypes' /\ VersionTypes' /\ AttemptsCounted' /\ GatesPassed' /\ CommittedIsReviewed'
<1>t. LoopTypes /\ VersionTypes
  BY TypeParts DEF SessionInv
<1>g. AttemptsCounted /\ GatesPassed /\ CommittedIsReviewed
  BY DEF SessionInv
<1>m. MaximumAttempts' = MaximumAttempts
  BY DEF MaximumAttempts, gateVars
<1>1. LoopTypes' /\ VersionTypes'
  BY <1>t DEF LoopTypes, VersionTypes, checkout, gateVars
<1>2. AttemptsCounted'
  BY <1>g, <1>m DEF AttemptsCounted, gateVars, NotifySteps, Preparing
<1>3. GatesPassed'
  BY <1>g DEF GatesPassed, ReviewedSoFar, Passes, checkout, gateVars, NotifySteps, Preparing,
              CommandSteps, AgentSteps
<1>4. CommittedIsReviewed'
  BY <1>g DEF CommittedIsReviewed, checkout, gateVars
<1> QED
  BY <1>1, <1>2, <1>3, <1>4

(* A step that is not the notifier's leaves its comments paid for. *)
LEMMA CommentsRest ==
    ASSUME SessionInv, UNCHANGED commentVars, pc' \notin {"create", "remember"}, pc # "remember",
           faults' = faults \/ Fault, sessions' \in 0..MaxSessions
    PROVE  CommentsPaid' /\ CounterTypes'
<1>1. CounterTypes /\ CommentsPaid
  BY TypeParts DEF SessionInv
<1>2. CounterTypes'
  BY <1>1, StagesAssumption DEF CounterTypes, commentVars, Fault
<1>3. CommentsPaid'
  BY <1>1 DEF CommentsPaid, CommentsCounted, Recording, commentVars
<1> QED
  BY <1>2, <1>3

(* A step of the notifier: looking a comment up, creating it, recording it, *)
(* or failing at that, leaves every comment paid for.                       *)
LEMMA NotifierKeeps ==
    ASSUME SessionInv,
           \/ AnnounceChange \/ Announce \/ FindComment \/ UpdateComment \/ CreateComment
           \/ RememberComment \/ (Crash /\ pc = "remember")
    PROVE  CommentsPaid' /\ CounterTypes'
<1>t. CounterTypes /\ CommentsPaid /\ PlaceTypes
  BY TypeParts DEF SessionInv
<1>f. faults' \in 0..MaxFaults /\ sessions' = sessions
  BY <1>t, StagesAssumption
     DEF CounterTypes, AnnounceChange, Announce, FindComment, UpdateComment, CreateComment,
         RememberComment, Crash, Notifies, Post, Fault
<1>p. purpose \in Purposes
  BY <1>t DEF CounterTypes
<1>1. CASE AnnounceChange \/ Announce
  <2>1. /\ pc' \in {"find", "idle"} /\ pc # "remember" /\ purpose' \in Purposes
        /\ UNCHANGED <<created, known, unrecorded>>
    BY <1>1 DEF AnnounceChange, Announce, Notifies, Post, Blocked, Purposes
  <2>2. CounterTypes'
    BY <2>1, <1>f, <1>t DEF CounterTypes
  <2> QED
    BY <2>1, <2>2, <1>t DEF CommentsPaid, CommentsCounted, Recording
<1>2. CASE FindComment \/ UpdateComment
  <2>1. /\ pc' \in {"create", "update", "idle"} /\ pc # "remember"
        /\ pc' = "create" => known[purpose] = 0
        /\ UNCHANGED <<purpose, created, known, unrecorded>>
    BY <1>2 DEF FindComment, UpdateComment, Notifies, commentVars
  <2>2. CounterTypes'
    BY <2>1, <1>f, <1>t DEF CounterTypes
  <2> QED
    BY <2>1, <2>2, <1>t DEF CommentsPaid, CommentsCounted, Recording
<1>3. CASE CreateComment
  <2>0. /\ pc = "create" /\ UNCHANGED <<purpose, known>> /\ known[purpose] = 0
        /\ created[purpose] = unrecorded[purpose]
    BY <1>3, <1>t, <1>p DEF CreateComment, CommentsPaid, CommentsCounted, Recording
  <2>1. CASE Notifies("remember") /\ Creates /\ UNCHANGED unrecorded
    <3>1. CounterTypes'
      BY <2>0, <2>1, <1>f, <1>t DEF CounterTypes, Creates
    <3>2. pc' = "remember"
      BY <2>1 DEF Notifies
    <3>3. \A p \in Purposes : created'[p] = IF p = purpose THEN created[p] + 1 ELSE created[p]
      BY <2>1, <1>t DEF Creates, CounterTypes
    <3> QED
      BY <3>1, <3>2, <3>3, <2>0, <2>1, <1>t DEF CommentsPaid, CommentsCounted, Recording
  <2>2. CASE Notifies("idle") /\ UNCHANGED <<created, unrecorded>>
    <3>1. CounterTypes'
      BY <2>0, <2>2, <1>f, <1>t DEF CounterTypes
    <3> QED
      BY <3>1, <2>0, <2>2, <1>t DEF CommentsPaid, CommentsCounted, Recording, Notifies
  <2>3. CASE Notifies("idle") /\ Creates /\ Unrecorded
    <3>1. CounterTypes'
      BY <2>0, <2>3, <1>f, <1>t DEF CounterTypes, Creates, Unrecorded
    <3>2. pc' = "idle"
      BY <2>3 DEF Notifies
    <3>3. \A p \in Purposes :
             /\ created'[p] = IF p = purpose THEN created[p] + 1 ELSE created[p]
             /\ unrecorded'[p] = IF p = purpose THEN unrecorded[p] + 1 ELSE unrecorded[p]
      BY <2>3, <1>t DEF Creates, Unrecorded, CounterTypes
    <3> QED
      BY <3>1, <3>2, <3>3, <2>0, <1>t DEF CommentsPaid, CommentsCounted, Recording
  <2> QED
    BY <1>3, <2>1, <2>2, <2>3 DEF CreateComment
<1>4. CASE RememberComment \/ (Crash /\ pc = "remember")
  <2>0. /\ pc = "remember" /\ pc' \in {"idle", "down"} /\ UNCHANGED <<purpose, created>>
        /\ known[purpose] = 0 /\ created[purpose] = unrecorded[purpose] + 1
    BY <1>4, <1>t, <1>p
       DEF RememberComment, Crash, Notifies, CommentsPaid, CommentsCounted, Recording
  <2>1. CASE known' = [known EXCEPT ![purpose] = created[purpose]] /\ UNCHANGED unrecorded
    <3>1. CounterTypes'
      BY <2>0, <2>1, <1>f, <1>t DEF CounterTypes
    <3>2. \A p \in Purposes : known'[p] = IF p = purpose THEN created[p] ELSE known[p]
      BY <2>1, <1>t DEF CounterTypes
    <3>3. created[purpose] # 0
      BY <2>0, <1>t, <1>p DEF CounterTypes
    <3> QED
      BY <3>1, <3>2, <3>3, <2>0, <2>1, <1>t DEF CommentsPaid, CommentsCounted, Recording
  <2>2. CASE UNCHANGED known /\ Unrecorded
    <3>1. CounterTypes'
      BY <2>0, <2>2, <1>f, <1>t DEF CounterTypes, Unrecorded
    <3>2. \A p \in Purposes :
             unrecorded'[p] = IF p = purpose THEN unrecorded[p] + 1 ELSE unrecorded[p]
      BY <2>2, <1>t DEF Unrecorded, CounterTypes
    <3> QED
      BY <3>1, <3>2, <2>0, <2>2, <1>t DEF CommentsPaid, CommentsCounted, Recording
  <2> QED
    BY <1>4, <2>1, <2>2 DEF RememberComment, Crash
<1> QED
  BY <1>1, <1>2, <1>3, <1>4

(* What has to be shown of a step. *)
LEMMA InvFromParts ==
    /\ PlaceTypes' /\ LoopTypes' /\ VersionTypes' /\ CounterTypes'
    /\ AttemptsCounted' /\ GatesPassed' /\ CommittedIsReviewed' /\ CommentsPaid'
    => SessionInv'
  BY NextTypeParts DEF SessionInv

(* Every step of a session that is not the end of a command. *)
LEMMA OtherSteps ==
    ASSUME SessionInv,
           \/ Session \/ StartSession \/ AnnounceChange \/ Abort \/ ForceKill \/ AgentEdits
           \/ Crash \/ UNCHANGED vars
    PROVE  SessionInv'
<1>t. PlaceTypes /\ LoopTypes /\ VersionTypes /\ CounterTypes /\ MaximumAttempts \in 1..5
  BY TypeParts, MaximumTypes DEF SessionInv, LoopTypes
<1>g. AttemptsCounted /\ GatesPassed /\ CommittedIsReviewed /\ CommentsPaid
  BY DEF SessionInv
<1>1. CASE StartSession
  <2>1. PlaceTypes'
    BY <1>1, <1>t DEF StartSession, PlaceTypes, CommandSteps, Over, NotifySteps
  <2>2. LoopTypes' /\ VersionTypes' /\ AttemptsCounted' /\ GatesPassed' /\ CommittedIsReviewed'
    BY <1>1, FreshCheckout DEF StartSession
  <2>3. sessions' \in 0..MaxSessions
    BY <1>1, <1>t, StagesAssumption DEF StartSession, CounterTypes
  <2>4. CounterTypes' /\ CommentsPaid'
    BY <1>1, <2>3, CommentsRest DEF StartSession
  <2> QED
    BY <2>1, <2>2, <2>4, InvFromParts
<1>2. CASE \/ Restart \/ Spawn \/ Abort \/ ForceKill \/ SessionEnds
           \/ (Crash /\ pc # "remember")
  <2> USE DEF Crash, Restart, Spawn, Abort, ForceKill, SessionEnds, Notifies
  <2>1. PlaceTypes'
    BY <1>2, <1>t DEF PlaceTypes, CommandSteps, Over, NotifySteps, Preparing, AgentSteps, Blocked
  <2>2. /\ UNCHANGED <<checkout, gateVars>>
        /\ pc' = pc \/ pc' \in {"idle", "down", "failed"} \union NotifySteps
    BY <1>2 DEF NotifySteps, checkout, gateVars
  <2>3. UNCHANGED <<commentVars, sessions>> /\ pc' \notin {"create", "remember"}
    BY <1>2, <1>t DEF Blocked, CommandSteps, Preparing, AgentSteps, commentVars, PlaceTypes
  <2>4. pc # "remember" /\ (faults' = faults \/ Fault)
    BY <1>2, <1>t DEF Blocked, CommandSteps, Preparing, AgentSteps, PlaceTypes
  <2>5. sessions' \in 0..MaxSessions
    BY <2>3, <1>t DEF CounterTypes
  <2> HIDE DEF Crash, Restart, Spawn, Abort, ForceKill, SessionEnds, Notifies
  <2>6. LoopTypes' /\ VersionTypes' /\ AttemptsCounted' /\ GatesPassed' /\ CommittedIsReviewed'
    BY <2>2, GatesRest
  <2>7. CounterTypes' /\ CommentsPaid'
    BY <2>3, <2>4, <2>5, CommentsRest
  <2> QED
    BY <2>1, <2>6, <2>7, InvFromParts
<1>3. CASE \/ AnnounceChange \/ Announce \/ FindComment \/ UpdateComment \/ CreateComment
           \/ RememberComment \/ (Crash /\ pc = "remember")
  <2> USE DEF AnnounceChange, Announce, FindComment, UpdateComment, CreateComment, RememberComment,
              Crash, Notifies
  <2>1. PlaceTypes'
    BY <1>3, <1>t DEF PlaceTypes, CommandSteps, Over, NotifySteps, Preparing, AgentSteps, Blocked
  <2>2. /\ UNCHANGED <<checkout, gateVars>>
        /\ pc' = pc \/ pc' \in {"idle", "down", "failed"} \union NotifySteps
    BY <1>3 DEF NotifySteps, checkout, gateVars
  <2> HIDE DEF AnnounceChange, Announce, FindComment, UpdateComment, CreateComment,
               RememberComment, Crash
  <2>3. CounterTypes' /\ CommentsPaid'
    BY <1>3, NotifierKeeps
  <2>4. LoopTypes' /\ VersionTypes' /\ AttemptsCounted' /\ GatesPassed' /\ CommittedIsReviewed'
    BY <2>2, GatesRest
  <2> QED
    BY <2>1, <2>3, <2>4, InvFromParts
<1>4. CASE AgentEdits
  <2>1. PlaceTypes' /\ LoopTypes' /\ VersionTypes' /\ head' = 0
    BY <1>4, <1>t, <1>g, StagesAssumption DEF AgentEdits, PlaceTypes, LoopTypes, VersionTypes,
       gateVars,
                              GatesPassed, CommandSteps
  <2>2. AttemptsCounted'
    BY <1>4, <1>g DEF AgentEdits, AttemptsCounted, MaximumAttempts, gateVars
  <2>3. GatesPassed' /\ CommittedIsReviewed'
    BY <1>4, <1>g, <2>1
       DEF AgentEdits, GatesPassed, ReviewedSoFar, Passes, CommittedIsReviewed, gateVars
  <2>4. pc' \notin {"create", "remember"} /\ UNCHANGED <<commentVars, faults, sessions>> /\ pc # "remember"
    BY <1>4 DEF AgentEdits, AgentSteps
  <2>5. CounterTypes' /\ CommentsPaid'
    BY <2>4, <1>t, CommentsRest DEF CounterTypes
  <2> QED
    BY <2>1, <2>2, <2>3, <2>5, InvFromParts
<1>5. CASE Gate
  <2>1. PlaceTypes' /\ LoopTypes' /\ VersionTypes'
    BY <1>5, <1>t DEF Gate, PlaceTypes, LoopTypes, VersionTypes, gateVars, checkout, CommandSteps, 
                      Preparing, AgentSteps, Over, NotifySteps
  <2>2. AttemptsCounted'
    BY <1>5, <1>g DEF Gate, AttemptsCounted, MaximumAttempts, gateVars, Preparing
  <2>3. GatesPassed' /\ CommittedIsReviewed'
    BY <1>5, <1>g, <1>t
       DEF Gate, GatesPassed, ReviewedSoFar, Passes, CommittedIsReviewed, gateVars, checkout,
           LoopTypes,
           CommandSteps, Preparing, AgentSteps
  <2>4. pc' \notin {"create", "remember"} /\ UNCHANGED <<commentVars, faults, sessions>> /\ pc # "remember"
    BY <1>5 DEF Gate
  <2>5. CounterTypes' /\ CommentsPaid'
    BY <2>4, <1>t, CommentsRest DEF CounterTypes
  <2> QED
    BY <2>1, <2>2, <2>3, <2>5, InvFromParts
<1>6. CASE UNCHANGED vars
  BY <1>6, <1>t, <1>g, InvFromParts
     DEF vars, checkout, gateVars, commentVars, PlaceTypes, LoopTypes, VersionTypes, CounterTypes,
         AttemptsCounted, MaximumAttempts, GatesPassed, ReviewedSoFar, Passes, CommittedIsReviewed,
         CommentsPaid, CommentsCounted, Recording
<1>7. CASE Crash
  <2>1. CASE pc = "remember"
    BY <1>3, <1>7, <2>1
  <2>2. CASE pc # "remember"
    BY <1>2, <1>7, <2>2
  <2> QED
    BY <2>1, <2>2
<1>8. CASE Session
  <2>1. CASE Restart \/ Spawn \/ SessionEnds
    BY <1>2, <2>1
  <2>2. CASE Announce \/ FindComment \/ UpdateComment \/ CreateComment \/ RememberComment
    BY <1>3, <2>2
  <2> QED
    BY <1>5, <1>8, <2>1, <2>2 DEF Session
<1>9. CASE Abort \/ ForceKill
  BY <1>2, <1>9
<1>10. CASE AnnounceChange
  BY <1>3, <1>10
<1> QED
  BY <1>1, <1>4, <1>6, <1>7, <1>8, <1>9, <1>10

(* The end of a command leaves places, comments and counters in order. *)
LEMMA ClosedKeeps ==
    ASSUME SessionInv, Step(TRUE)
    PROVE  PlaceTypes' /\ CounterTypes' /\ CommentsPaid' /\ pc \in CommandSteps
<1>t. PlaceTypes /\ CounterTypes
  BY TypeParts DEF SessionInv
<1> USE DEF Step, Prepares, Implements, Stages, Validates, Reviews, Corrects, Commits, Closed,
            Goes, Fails, Successor, AfterReviews, Blocked
<1>1. pc \in CommandSteps /\ UNCHANGED <<commentVars, aborted, sessions>> /\ child' = "none"
  BY DEF CommandSteps, Preparing, AgentSteps
<1>2. /\ pc' \in CommandSteps \union {"gate", "failed", "committed", Blocked}
      /\ UNCHANGED faults \/ Fault
  BY DEF CommandSteps, Preparing, AgentSteps
<1> HIDE DEF Step, Prepares, Implements, Stages, Validates, Reviews, Corrects, Commits, Closed,
             Goes, Fails, Successor, AfterReviews
<1>3. PlaceTypes'
  BY <1>1, <1>2, <1>t DEF PlaceTypes, Over
<1>4. pc' \notin {"create", "remember"} /\ pc # "remember"
  BY <1>1, <1>2 DEF CommandSteps, Preparing, AgentSteps, Blocked
<1>5. sessions' \in 0..MaxSessions
  BY <1>1, <1>t DEF CounterTypes
<1>6. CounterTypes' /\ CommentsPaid'
  BY <1>1, <1>2, <1>4, <1>5, CommentsRest
<1> QED
  BY <1>1, <1>3, <1>6

(* What follows the last review: the gate only when nothing blocks, another *)
(* attempt only while one is left.                                         *)
LEMMA AfterTheReviews ==
    ASSUME attempt \in Nat, MaximumAttempts \in Nat, NEW blockers
    PROVE  /\ AfterReviews(blockers) \in {"gate", "correct", Blocked}
           /\ AfterReviews(blockers) = "gate" => Passes(blockers)
           /\ AfterReviews(blockers) = "correct" => attempt < MaximumAttempts
           /\ AfterReviews(blockers) = Blocked => attempt >= MaximumAttempts
  BY DEF AfterReviews, Blocked

(* The end of a command of the session keeps the gates. *)
LEMMA CommandsKeep ==
    ASSUME SessionInv, Step(TRUE)
    PROVE  SessionInv'
<1>t. /\ PlaceTypes /\ LoopTypes /\ VersionTypes /\ CounterTypes
      /\ MaximumAttempts \in 1..5 /\ attempt \in Nat
  BY TypeParts, MaximumTypes DEF SessionInv, LoopTypes
<1>g. AttemptsCounted /\ GatesPassed /\ CommittedIsReviewed
  BY DEF SessionInv
<1>h. head = 0
  BY <1>g, ClosedKeeps DEF GatesPassed
<1>s. SUFFICES LoopTypes' /\ VersionTypes' /\ AttemptsCounted' /\ GatesPassed' /\ CommittedIsReviewed'
  BY ClosedKeeps, InvFromParts
<1> USE DEF Closed, Goes, Fails
<1>1. CASE Prepares(TRUE) \/ Implements(TRUE) \/ Corrects(TRUE)
  <2>1. UNCHANGED <<tree, index, head, plan, attempt, reviewer, blocking, checked, approved>>
    BY <1>1 DEF Prepares, Implements, Corrects, checkout, gateVars
  <2>2. LoopTypes' /\ VersionTypes'
    BY <2>1, <1>t DEF LoopTypes, VersionTypes
  <2>3. MaximumAttempts' = MaximumAttempts
    BY <2>1 DEF MaximumAttempts
  <2>4. /\ pc' \in {"implement", "failed", "stage"} \union Preparing
        /\ pc' \in {"implement"} \union Preparing => attempt = 0
        /\ pc' = "stage" => attempt < MaximumAttempts
    BY <1>1, <1>g, <1>t DEF Prepares, Implements, Corrects, Preparing, Successor, AttemptsCounted
  <2>5. AttemptsCounted'
    BY <2>1, <2>3, <2>4, <1>g DEF AttemptsCounted, Preparing
  <2>6. GatesPassed' /\ CommittedIsReviewed'
    BY <2>1, <2>4, <1>g, <1>h DEF GatesPassed, ReviewedSoFar, CommittedIsReviewed, Preparing
  <2> QED
    BY <2>2, <2>5, <2>6
<1>2. CASE Stages(TRUE)
  <2>1. /\ attempt' = attempt + 1 /\ reviewer' = 0 /\ index' \in {index, tree}
        /\ UNCHANGED <<tree, head, plan, blocking, checked, approved>>
        /\ attempt < MaximumAttempts /\ pc' \in {"deterministic", "failed"}
    BY <1>2, <1>g DEF Stages, Staged, AttemptsCounted
  <2>2. LoopTypes'
    <3>1. attempt' \in 0..5 /\ 1..attempt \subseteq 1..attempt' /\ 0..attempt \subseteq 0..attempt'
      BY <2>1, <1>t
    <3>2. blocking' \subseteq [profile : Reviewers, attempt : 1..attempt']
      BY <2>1, <3>1, <1>t DEF LoopTypes
    <3>3. approved' \in [Reviewers -> 0..attempt']
      BY <2>1, <3>1, <1>t DEF LoopTypes
    <3> QED
      BY <2>1, <3>1, <3>2, <3>3, <1>t, StagesAssumption DEF LoopTypes
  <2>3. VersionTypes'
    BY <2>1, <1>t, StagesAssumption DEF VersionTypes
  <2>4. MaximumAttempts' = MaximumAttempts
    BY <2>1 DEF MaximumAttempts
  <2>5. AttemptsCounted'
    BY <2>1, <2>4, <1>t DEF AttemptsCounted, Preparing
  <2>6. GatesPassed' /\ CommittedIsReviewed'
    BY <2>1, <1>h DEF GatesPassed, ReviewedSoFar, CommittedIsReviewed
  <2> QED
    BY <2>2, <2>3, <2>5, <2>6
<1>3. CASE Validates(TRUE)
  <2>1. /\ pc = "deterministic" /\ checked' \in {index, checked}
        /\ reviewer' \in {reviewer, 0, 1} /\ (reviewer' = 1 => reviewer = 1 \/ Profiles # 0)
        /\ UNCHANGED <<tree, index, head, plan, attempt, blocking, approved>>
        /\ pc' \in {"gate", "profiles", "failed"}
        /\ pc' \in {"gate", "profiles"} => checked' = index
        /\ pc' = "gate" => Profiles = 0
        /\ pc' = "profiles" => reviewer' = 1 /\ Profiles # 0
    BY <1>3 DEF Validates, checkout
  <2>2. LoopTypes' /\ VersionTypes'
    BY <2>1, <1>t, StagesAssumption DEF LoopTypes, VersionTypes
  <2>3. MaximumAttempts' = MaximumAttempts
    BY <2>1 DEF MaximumAttempts
  <2>4. AttemptsCounted'
    BY <2>1, <2>3, <1>g, <1>t, StagesAssumption DEF AttemptsCounted, Preparing, Reviewers
  <2>5. GatesPassed' /\ CommittedIsReviewed'
    BY <2>1, <1>h, StagesAssumption DEF GatesPassed, ReviewedSoFar, CommittedIsReviewed, Reviewers
  <2> QED
    BY <2>2, <2>4, <2>5
<1>4. CASE Reviews(TRUE)
  <2>0. /\ pc = "profiles" /\ reviewer \in Reviewers /\ attempt > 0 /\ checked = index
        /\ UNCHANGED <<tree, index, head, plan, attempt, checked>>
    BY <1>4, <1>g DEF Reviews, checkout, AttemptsCounted, GatesPassed
  <2>1. MaximumAttempts' = MaximumAttempts
    BY <2>0 DEF MaximumAttempts
  <2>2. CASE Fails /\ UNCHANGED <<blocking, approved, reviewer>>
    BY <2>0, <2>1, <2>2, <1>t, <1>g, <1>h
       DEF LoopTypes, VersionTypes, AttemptsCounted, GatesPassed, ReviewedSoFar,
           CommittedIsReviewed,
           Preparing
  <2>3. ASSUME NEW open \in BOOLEAN, NEW blockers,
               blockers = IF open THEN blocking \union {[profile |-> reviewer, attempt |-> attempt]}
                                  ELSE blocking,
               blocking' = blockers,
               approved' = IF open THEN approved ELSE [approved EXCEPT ![reviewer] = attempt],
               IF reviewer < Profiles
               THEN Goes("profiles") /\ reviewer' = reviewer + 1
               ELSE Goes(AfterReviews(blockers)) /\ UNCHANGED reviewer
        PROVE  LoopTypes' /\ VersionTypes' /\ AttemptsCounted' /\ GatesPassed' /\ CommittedIsReviewed'
    <3>1. blocking' \subseteq [profile : Reviewers, attempt : 1..attempt']
      BY <2>0, <2>3, <1>t DEF LoopTypes
    <3>2. /\ approved' \in [Reviewers -> 0..attempt']
          /\ \A r \in Reviewers : approved'[r] = approved[r] \/ approved'[r] = attempt
          /\ ~open => approved'[reviewer] = attempt
      BY <2>0, <2>3, <1>t DEF LoopTypes
    <3>a. \/ reviewer < Profiles /\ pc' = "profiles" /\ reviewer' = reviewer + 1
          \/ ~(reviewer < Profiles) /\ pc' = AfterReviews(blockers) /\ reviewer' = reviewer
      BY <2>3
    <3>b. /\ AfterReviews(blockers) \in {"gate", "correct", Blocked}
          /\ AfterReviews(blockers) = "gate" => Passes(blockers)
          /\ AfterReviews(blockers) = "correct" => attempt < MaximumAttempts
      BY <1>t, AfterTheReviews
    <3>3. reviewer' \in Reviewers /\ (pc' = "profiles" => reviewer' = reviewer + 1)
      <4>1. CASE reviewer < Profiles /\ pc' = "profiles" /\ reviewer' = reviewer + 1
        BY <2>0, <4>1, StagesAssumption DEF Reviewers
      <4>2. CASE ~(reviewer < Profiles) /\ pc' = AfterReviews(blockers) /\ reviewer' = reviewer
        BY <2>0, <4>2, <3>b DEF Blocked
      <4> QED
        BY <3>a, <4>1, <4>2
    <3>4. LoopTypes' /\ VersionTypes'
      BY <2>0, <3>1, <3>2, <3>3, <1>t DEF LoopTypes, VersionTypes, Reviewers
    <3>5. pc' \in {"profiles", "gate", "correct", Blocked}
      BY <3>a, <3>b
    <3>6. AttemptsCounted'
      BY <2>0, <2>1, <3>a, <3>b, <3>3, <1>t, <1>g DEF AttemptsCounted, Preparing, Blocked
    <3>7. \A r \in Reviewers : r <= reviewer /\ Passes(blockers) => approved'[r] = attempt
      <4> SUFFICES ASSUME NEW r \in Reviewers, r <= reviewer, Passes(blockers)
                   PROVE  approved'[r] = attempt
        OBVIOUS
      <4>1. ~open
        <5>1. [profile |-> reviewer, attempt |-> attempt].attempt = attempt
          OBVIOUS
        <5> QED
          BY <2>3, <5>1 DEF Passes
      <4>2. Passes(blocking)
        BY <2>3, <4>1
      <4> QED
        BY <2>0, <3>2, <4>1, <4>2, <1>g, StagesAssumption DEF GatesPassed, ReviewedSoFar, Reviewers
    <3>8. Passes(blocking)' = Passes(blockers)
      BY <2>0, <2>3 DEF Passes
    <3>9. pc' = "gate" => Passes(blockers) /\ \A r \in Reviewers : r <= reviewer
      BY <2>0, <3>a, <3>b, StagesAssumption DEF Reviewers
    <3>c. ReviewedSoFar'
      BY <2>0, <3>3, <3>7, <3>8, StagesAssumption DEF ReviewedSoFar, Reviewers
    <3>10. GatesPassed'
      BY <2>0, <3>5, <3>7, <3>9, <3>c, <1>h DEF GatesPassed, Blocked
    <3> QED
      BY <3>4, <3>6, <3>10, <2>0, <1>h DEF CommittedIsReviewed
  <2> QED
    BY <1>4, <2>2, <2>3 DEF Reviews
<1>5. CASE Commits(TRUE)
  <2>1. /\ pc = "commit" /\ head' \in {head, index} /\ pc' \in {"committed", "failed"}
        /\ UNCHANGED <<tree, index, plan, attempt, reviewer, blocking, checked, approved>>
    BY <1>5 DEF Commits, gateVars, Committed
  <2>2. checked = index /\ plan.ready /\ \A r \in Reviewers : approved[r] = attempt
    BY <2>1, <1>g DEF GatesPassed
  <2>3. LoopTypes' /\ VersionTypes'
    BY <2>1, <1>t DEF LoopTypes, VersionTypes
  <2>4. MaximumAttempts' = MaximumAttempts
    BY <2>1 DEF MaximumAttempts
  <2>5. AttemptsCounted'
    BY <2>1, <2>4, <1>g DEF AttemptsCounted, Preparing
  <2>6. GatesPassed'
    BY <2>1 DEF GatesPassed, ReviewedSoFar, CommandSteps, Preparing, AgentSteps
  <2>7. CommittedIsReviewed'
    BY <2>1, <2>2, <1>h DEF CommittedIsReviewed
  <2> QED
    BY <2>3, <2>5, <2>6, <2>7
<1> QED
  BY <1>1, <1>2, <1>3, <1>4, <1>5 DEF Step

(* The invariant holds for ever. *)
LEMMA SessionInvariance == Spec => []SessionInv
<1>1. SessionInv /\ [Next]_vars => SessionInv'
  BY OtherSteps, CommandsKeep, CommandsEnd DEF Next
<1> QED
  BY <1>1, SessionInit, PTL DEF Spec

-----------------------------------------------------------------------------
(* runPostAgentGates and the commit: whatever agents and reviewers edit,    *)
(* and whenever a session is aborted or fails, what is committed passed the *)
(* deterministic review and every selected profile of the last attempt, and *)
(* ADE had opened the publication gate.                                     *)
THEOREM OnlyReviewedIsCommitted == Spec => []CommittedIsReviewed
<1>1. SessionInv => CommittedIsReviewed
  BY DEF SessionInv
<1> QED
  BY <1>1, SessionInvariance, PTL

(* upsertBotComment: of each purpose an issue has one comment, and one more *)
(* for each creation whose answer or record was lost; commands, lookups and *)
(* updates that fail explain none.                                          *)
THEOREM CommentsAreReused == Spec => []OneComment
<1>1. SessionInv => OneComment
  <2> SUFFICES ASSUME SessionInv, NEW p \in Purposes PROVE created[p] <= 1 + unrecorded[p]
    BY DEF OneComment
  <2>1. unrecorded[p] \in Nat
    BY DEF SessionInv, TypeOK
  <2>2. created[p] = unrecorded[p] + 1 \/ created[p] = unrecorded[p]
    BY DEF SessionInv, CommentsPaid, CommentsCounted
  <2> QED
    BY <2>1, <2>2
<1> QED
  BY <1>1, SessionInvariance, PTL

(* The session, the checkout and the comments keep their types; no loop     *)
(* makes more attempts than the plan allows.                                *)
THEOREM SessionTypesHold == Spec => []TypeOK
<1>1. SessionInv => TypeOK
  BY DEF SessionInv
<1> QED
  BY <1>1, SessionInvariance, PTL

-----------------------------------------------------------------------------
(* The runtime implements the pipeline of packages/core.                   *)

\* The corrections of the pipeline: one less than the attempts of the runtime.
LimitOf == IF plan.allowed > 1 THEN plan.allowed - 1 ELSE 0

(* The plan's limit is one that the pipeline may have.                     *)
LEMMA LimitTypes ==
    ASSUME plan \in [allowed : Allowed, ready : BOOLEAN]
    PROVE  LimitOf \in 0..4 /\ MaximumAttempts = LimitOf + 1
<1>1. plan.allowed \in 0..5
  BY StagesAssumption
<1> QED
  BY <1>1 DEF LimitOf, MaximumAttempts

(* The same of the next state.                                             *)
LEMMA NextLimitTypes ==
    ASSUME plan' \in [allowed : Allowed, ready : BOOLEAN]
    PROVE  LimitOf' \in 0..4
<1>1. plan'.allowed \in 0..5
  BY StagesAssumption
<1> QED
  BY <1>1 DEF LimitOf

(* A session that ends, fails, dies or begins is at the pipeline's start.   *)
LEMMA StartsAnew ==
    ASSUME pc' \in {"idle", "down", "plan", "failed"} \union NotifySteps,
           plan' \in [allowed : Allowed, ready : BOOLEAN]
    PROVE  Pipeline!Create
<1>1. StageOf' = "issue-enrichment"
  BY DEF StageOf, Preparing, NotifySteps, Blocked
<1>2. CorrectionsOf' = 0
  BY <1>1 DEF CorrectionsOf
<1> QED
  BY <1>1, <1>2, NextLimitTypes DEF Pipeline!Create, LimitOf

(* A step of the runtime is a step of the pipeline, or none.                *)
LEMMA PipelineStep ==
    ASSUME SessionInv, SessionInv', [Next]_vars
    PROVE  [Pipeline!Next]_(Pipeline!pipeline)
<1>t. /\ PlaceTypes /\ LoopTypes /\ attempt \in Nat
      /\ plan' \in [allowed : Allowed, ready : BOOLEAN]
      /\ LimitOf \in 0..4 /\ MaximumAttempts = LimitOf + 1
  BY TypeParts, NextTypeParts, LimitTypes DEF SessionInv, LoopTypes
<1>g. AttemptsCounted
  BY DEF SessionInv
<1>s. ASSUME UNCHANGED <<pc, plan, attempt>> PROVE UNCHANGED Pipeline!pipeline
  BY <1>s DEF Pipeline!pipeline, StageOf, CorrectionsOf
<1>l. ASSUME UNCHANGED plan PROVE LimitOf' = LimitOf
  BY <1>l DEF LimitOf
<1>b. ASSUME pc' \in {"idle", "down", "plan", "failed"} \union NotifySteps PROVE Pipeline!Next
  BY <1>b, <1>t, StartsAnew DEF Pipeline!Next
<1> USE DEF StageOf, CorrectionsOf, Blocked, Preparing, NotifySteps
<1>m. ASSUME pc' \notin {"idle", "down", "plan", "failed"} \union NotifySteps,
             UNCHANGED <<plan, attempt>>, <<StageOf, StageOf'>> \in Pipeline!Transitions,
             CorrectionsOf' = CorrectionsOf
      PROVE  Pipeline!Next
  BY <1>m, <1>l DEF Pipeline!Next, Pipeline!Advance, LimitOf
<1>1. CASE Session \/ StartSession \/ AnnounceChange \/ Abort \/ ForceKill \/ AgentEdits \/ Crash
  <2>1. CASE Gate
    <3>1. UNCHANGED <<plan, attempt>> /\ pc = "gate" /\ pc' \in {"failed", "commit"}
      BY <2>1 DEF Gate, gateVars
    <3>2. CASE pc' = "commit"
      <4>1. <<StageOf, StageOf'>> \in Pipeline!Transitions /\ CorrectionsOf' = CorrectionsOf
        BY <3>1, <3>2 DEF Pipeline!Transitions
      <4> QED
        BY <3>1, <3>2, <4>1, <1>m
    <3> QED
      BY <3>1, <3>2, <1>b
  <2>2. CASE ~Gate
    <3>1. \/ UNCHANGED <<pc, plan, attempt>>
          \/ pc' \in {"idle", "down", "plan", "failed"} \union NotifySteps
      BY <1>1, <2>2
         DEF Session, Spawn, Announce, FindComment, UpdateComment, CreateComment, RememberComment,
             SessionEnds, Restart, StartSession, AnnounceChange, Abort, ForceKill, AgentEdits,
             Crash,
             Notifies, gateVars
    <3> QED
      BY <3>1, <1>s, <1>b
  <2> QED
    BY <2>1, <2>2
<1>2. CASE Step(TRUE) /\ pc' # "failed"
  <2> USE <1>2 DEF Closed, Goes, Fails
  <2>1. CASE Prepares(TRUE)
    <3>1. /\ pc \in {"plan"} \union Preparing /\ pc' = Successor[pc]
          /\ UNCHANGED <<plan, attempt>> /\ attempt = 0
      BY <2>1, <1>g DEF Prepares, gateVars, Successor, AttemptsCounted
    <3>2. CASE pc \in {"plan", "setup"}
      <4>1. pc' = IF pc = "plan" THEN "version" ELSE "implement"
        BY <3>1, <3>2 DEF Successor
      <4>2. <<StageOf, StageOf'>> \in Pipeline!Transitions /\ CorrectionsOf' = CorrectionsOf
        BY <3>1, <3>2, <4>1 DEF Pipeline!Transitions
      <4> QED
        BY <3>1, <3>2, <4>1, <4>2, <1>m
    <3>3. CASE pc \notin {"plan", "setup"}
      <4>1. pc \in Preparing /\ pc' \in Preparing
        BY <3>1, <3>3 DEF Successor
      <4>2. StageOf' = StageOf /\ CorrectionsOf' = CorrectionsOf
        BY <4>1
      <4> QED
        BY <4>2, <3>1, <1>l DEF Pipeline!pipeline, LimitOf
    <3> QED
      BY <3>2, <3>3
  <2>2. CASE Implements(TRUE) \/ Corrects(TRUE) \/ Commits(TRUE)
    <3>1. /\ UNCHANGED <<plan, attempt>>
          /\ \/ pc \in {"implement", "correct"} /\ pc' = "stage"
             \/ pc = "commit" /\ pc' = "committed"
      BY <2>2 DEF Implements, Corrects, Commits, gateVars
    <3>2. StageOf' = StageOf /\ CorrectionsOf' = CorrectionsOf
      BY <3>1
    <3> QED
      BY <3>1, <3>2, <1>l DEF Pipeline!pipeline, LimitOf
  <2>3. CASE Stages(TRUE)
    <3>1. pc = "stage" /\ pc' = "deterministic" /\ attempt' = attempt + 1 /\ UNCHANGED plan
      BY <2>3 DEF Stages
    <3>2. <<StageOf, StageOf'>> \in Pipeline!Transitions /\ CorrectionsOf' = CorrectionsOf
      BY <3>1, <1>t DEF Pipeline!Transitions
    <3> QED
      BY <3>1, <3>2, <1>l DEF Pipeline!Next, Pipeline!Advance, LimitOf
  <2>4. CASE Validates(TRUE)
    <3>1. pc = "deterministic" /\ pc' \in {"gate", "profiles"} /\ UNCHANGED <<plan, attempt>>
      BY <2>4 DEF Validates
    <3>2. <<StageOf, StageOf'>> \in Pipeline!Transitions /\ CorrectionsOf' = CorrectionsOf
      BY <3>1 DEF Pipeline!Transitions
    <3> QED
      BY <3>1, <3>2, <1>m
  <2>5. CASE Reviews(TRUE)
    <3>0. /\ pc = "profiles" /\ UNCHANGED <<plan, attempt>>
          /\ pc' = "profiles" \/ \E blockers : pc' = AfterReviews(blockers)
      BY <2>5 DEF Reviews
    <3>1. /\ pc = "profiles" /\ UNCHANGED <<plan, attempt>>
          /\ pc' \in {"profiles", "gate", "correct", Blocked}
          /\ pc' = "correct" => attempt < MaximumAttempts
          /\ pc' = Blocked => attempt >= MaximumAttempts
      <4>1. MaximumAttempts \in Nat
        BY <1>t
      <4>2. CASE pc' = "profiles"
        BY <3>0, <4>2
      <4>3. ASSUME NEW blockers, pc' = AfterReviews(blockers)
            PROVE  /\ pc' \in {"gate", "correct", Blocked}
                   /\ pc' = "correct" => attempt < MaximumAttempts
                   /\ pc' = Blocked => attempt >= MaximumAttempts
        BY ONLY <4>1, <4>3, <1>t, AfterTheReviews
      <4> QED
        BY <3>0, <4>2, <4>3
    <3>2. CASE pc' \in {"profiles", "gate"}
      <4>1. StageOf' = StageOf /\ CorrectionsOf' = CorrectionsOf
        BY <3>1, <3>2
      <4> QED
        BY <4>1, <3>1, <1>l DEF Pipeline!pipeline, LimitOf
    <3>3. CASE pc' \in {"correct", Blocked}
      <4>1. /\ StageOf = "profile-reviews" /\ CorrectionsOf = attempt - 1 /\ CorrectionsOf' = attempt
            /\ StageOf' = IF pc' = "correct" THEN "implementation" ELSE "blocked"
        BY <3>1, <3>3
      <4>2. CorrectionsOf' = CorrectionsOf + 1 /\ (CorrectionsOf' > LimitOf <=> pc' = Blocked)
        <5> HIDE DEF StageOf, CorrectionsOf
        <5>1. CorrectionsOf' = CorrectionsOf + 1
          BY <4>1, <1>t
        <5>2. attempt > LimitOf <=> attempt >= MaximumAttempts
          BY <1>t
        <5>3. attempt >= MaximumAttempts <=> ~(attempt < MaximumAttempts)
          BY <1>t
        <5> QED
          BY <3>1, <3>3, <4>1, <5>1, <5>2, <5>3
      <4>3. LimitOf' = LimitOf
        BY <3>1, <1>l
      <4> HIDE DEF StageOf, CorrectionsOf
      <4>4. StageOf' = IF CorrectionsOf' > LimitOf THEN "blocked" ELSE "implementation"
        BY <3>3, <4>1, <4>2
      <4> QED
        BY <4>1, <4>2, <4>3, <4>4 DEF Pipeline!Next, Pipeline!CorrectionRequired, LimitOf
    <3> QED
      BY <3>1, <3>2, <3>3
  <2> QED
    BY <2>1, <2>2, <2>3, <2>4, <2>5 DEF Step
<1>3. CASE UNCHANGED vars
  BY <1>3, <1>s DEF vars, gateVars
<1> QED
  BY <1>1, <1>2, <1>3, <1>b, CommandsEnd DEF Next

(* AdeDeliveryRuntime keeps the gates of packages/core for every number of  *)
(* profiles and every limit: nothing reaches a pull request but through     *)
(* validation and reviews, after a correction as before, and a session is   *)
(* blocked exactly when its corrections are used up.                        *)
THEOREM RuntimeKeepsThePipeline == Spec => KeepsPipeline
<1>1. Init => Pipeline!Init
  <2> SUFFICES ASSUME Init PROVE Pipeline!Init
    OBVIOUS
  <2>1. StageOf = "issue-enrichment" /\ LimitOf \in 0..4
    BY LimitTypes DEF Init, StageOf, Preparing, Blocked
  <2>2. CorrectionsOf = 0
    BY <2>1 DEF CorrectionsOf
  <2> QED
    BY <2>1, <2>2 DEF Pipeline!Init, Pipeline!Fresh, LimitOf
<1> QED
  BY <1>1, PipelineStep, SessionInvariance, PTL DEF Spec, KeepsPipeline, Pipeline!Spec

-----------------------------------------------------------------------------
(* The end of a session.  No command is assumed to end, but whatever happens *)
(* brings the session closer to its end, except an agent's edit: the deadline*)
(* and the grace period are left to rely on, and nothing starts over.        *)

InSession == CommandSteps \union {"gate"}

\* How many places of an attempt are still to come.
PlacesLeft(p) ==
    CASE p = "plan" -> 12 [] p = "version" -> 11 [] p = "config" -> 10 [] p = "context" -> 9
      [] p = "pack" -> 8 [] p = "setup" -> 7 [] p = "implement" -> 6
      [] p = "deterministic" -> 5 [] p = "profiles" -> 4 [] p = "gate" -> 3 [] p = "commit" -> 2
      [] p = "correct" -> 1 [] p = "stage" -> 0

\* What is still to come for a child.
ChildLeft(c) ==
    CASE c = "none" -> 3 [] c = "running" -> 2 [] c = "signalled" -> 1 [] c = "killed" -> 0

\* Attempts and profiles that are still to come.
AttemptsLeft == MaximumAttempts - attempt
ReviewersLeft == Profiles - reviewer

\* Attempts, the places of an attempt, its reviewers, their child and the
\* deadline, in that order.
ComesCloser ==
    \/ AttemptsLeft' < AttemptsLeft
    \/ /\ UNCHANGED AttemptsLeft
       /\ \/ PlacesLeft(pc') < PlacesLeft(pc)
          \/ pc' = pc /\ ReviewersLeft' < ReviewersLeft
          \/ UNCHANGED <<pc, ReviewersLeft>> /\ ChildLeft(child') < ChildLeft(child)
          \/ UNCHANGED <<pc, ReviewersLeft, child>> /\ ~aborted /\ aborted'

(* A step of a session ends it or is one of finitely many that are left to  *)
(* it, whatever fails, is aborted or killed; only agents edit meanwhile.    *)
SessionsMoveForward ==
    [][pc \notin InSession \/ pc' \notin InSession \/ ComesCloser \/ AgentEdits]_vars

(* A command's end leads to a later place, reviewer or attempt, or out. *)
LEMMA CommandsComeCloser ==
    ASSUME SessionInv, Step(TRUE)
    PROVE  pc' \notin InSession \/ ComesCloser
<1>t. attempt \in Nat /\ reviewer \in Nat /\ Profiles \in Nat /\ MaximumAttempts \in Nat
  BY TypeParts, MaximumTypes, StagesAssumption DEF SessionInv, LoopTypes
<1>m. UNCHANGED plan => UNCHANGED MaximumAttempts
  BY DEF MaximumAttempts
\* The attempt goes on, or the next one begins.
<1>a. ASSUME UNCHANGED <<plan, attempt>>, PlacesLeft(pc') < PlacesLeft(pc)
      PROVE  ComesCloser
  BY <1>a, <1>m DEF ComesCloser, AttemptsLeft
<1>b. ASSUME UNCHANGED <<plan, attempt, pc>>, reviewer' = reviewer + 1
      PROVE  ComesCloser
  BY <1>b, <1>m, <1>t DEF ComesCloser, AttemptsLeft, ReviewersLeft
<1>c. ASSUME UNCHANGED plan, attempt' = attempt + 1
      PROVE  ComesCloser
  BY <1>c, <1>m, <1>t DEF ComesCloser, AttemptsLeft
<1> USE DEF Closed, Goes, Fails
<1>f. ASSUME pc' \in {"failed", "committed", Blocked}
      PROVE  pc' \notin InSession
  BY <1>f DEF InSession, CommandSteps, Preparing, AgentSteps, Blocked
<1>1. CASE Prepares(TRUE)
  <2>1. pc' = "failed" \/ (pc' = Successor[pc] /\ pc \in DOMAIN Successor
                             /\ UNCHANGED <<plan, attempt>>)
    BY <1>1 DEF Prepares, gateVars
  <2>2. CASE pc' = Successor[pc] /\ pc \in DOMAIN Successor /\ UNCHANGED <<plan, attempt>>
    <3>1. pc \in {"plan", "version", "config", "context", "pack", "setup"}
      BY <2>2 DEF Successor, Preparing
    <3>2. \/ pc = "plan" /\ pc' = "version"
          \/ pc = "version" /\ pc' = "config"
          \/ pc = "config" /\ pc' = "context"
          \/ pc = "context" /\ pc' = "pack"
          \/ pc = "pack" /\ pc' = "setup"
          \/ pc = "setup" /\ pc' = "implement"
      BY <2>2, <3>1 DEF Successor, Preparing
    <3>3. PlacesLeft(pc') < PlacesLeft(pc)
      BY ONLY <3>2 DEF PlacesLeft
    <3> QED
      BY <2>2, <3>3, <1>a
  <2> QED
    BY <2>1, <2>2, <1>f
<1>2. CASE Implements(TRUE) \/ Corrects(TRUE)
  <2>1. pc' = "failed" \/ (pc' = "stage" /\ pc \in {"implement", "correct"}
                             /\ UNCHANGED <<plan, attempt>>)
    BY <1>2 DEF Implements, Corrects, gateVars
  <2> QED
    BY <2>1, <1>f, <1>a DEF PlacesLeft
<1>3. CASE Stages(TRUE)
  BY <1>3, <1>c DEF Stages
<1>4. CASE Validates(TRUE)
  <2>1. pc' = "failed" \/ (pc' \in {"gate", "profiles"} /\ pc = "deterministic"
                             /\ UNCHANGED <<plan, attempt>>)
    BY <1>4 DEF Validates
  <2> QED
    BY <2>1, <1>f, <1>a DEF PlacesLeft
<1>5. CASE Reviews(TRUE)
  <2>1. /\ pc = "profiles" /\ UNCHANGED <<plan, attempt>>
        /\ \/ pc' = "failed"
           \/ pc' = "profiles" /\ reviewer' = reviewer + 1
           \/ \E blockers : pc' = AfterReviews(blockers)
    BY <1>5 DEF Reviews
  <2>2. pc' = "profiles" /\ reviewer' = reviewer + 1 => ComesCloser
    BY <2>1, <1>b
  <2>3. ASSUME NEW blockers, pc' = AfterReviews(blockers)
        PROVE  pc' \notin InSession \/ ComesCloser
    <3>1. pc' \in {"gate", "correct", Blocked}
      BY <2>3, <1>t, AfterTheReviews
    <3> QED
      BY <3>1, <2>1, <1>f, <1>a DEF PlacesLeft
  <2> QED
    BY <2>1, <2>2, <2>3, <1>f
<1>6. CASE Commits(TRUE)
  <2>1. pc' \in {"failed", "committed"}
    BY <1>6 DEF Commits
  <2> QED
    BY <2>1, <1>f
<1> QED
  BY <1>1, <1>2, <1>3, <1>4, <1>5, <1>6 DEF Step

(* runPostAgentGates and NodeCommandRunner: a session of any number of      *)
(* profiles and corrections consists of finitely many steps besides the     *)
(* agents' edits, each part of what is left being a number; what            *)
(* EverySessionEnds adds to it is only that time passes.                    *)
THEOREM SessionsGetOn ==
    Spec => [](AttemptsLeft \in Nat /\ ReviewersLeft \in Nat) /\ SessionsMoveForward
<1> DEFINE Forward == pc \notin InSession \/ pc' \notin InSession \/ ComesCloser \/ AgentEdits
<1>r. UNCHANGED <<plan, attempt, reviewer>> => UNCHANGED <<AttemptsLeft, ReviewersLeft>>
  BY DEF AttemptsLeft, ReviewersLeft, MaximumAttempts
<1>1. ASSUME SessionInv, [Next]_vars
      PROVE  [Forward]_vars
  <2> SUFFICES ASSUME Next, pc \in InSession
               PROVE  pc' \notin InSession \/ ComesCloser \/ AgentEdits
    BY <1>1
  <2>1. CASE CommandExits \/ CommandKilled
    BY <2>1, <1>1, CommandsEnd, CommandsComeCloser
  <2>2. CASE Spawn
    <3>1. pc' = "failed" \/ (UNCHANGED <<plan, attempt, pc, reviewer>> /\ child = "none" /\ child' = "running")
      BY <2>2 DEF Spawn, gateVars
    <3> QED
      BY <3>1, <1>r DEF ComesCloser, ChildLeft, InSession, CommandSteps, Preparing, AgentSteps
  <2>3. CASE ForceKill
    BY <2>3, <1>r DEF ForceKill, ComesCloser, ChildLeft, gateVars
  <2>4. CASE Abort
    <3>1. /\ UNCHANGED <<plan, attempt, pc, reviewer>> /\ ~aborted /\ aborted' = TRUE
          /\ (child = "running" /\ child' = "signalled") \/ child' = child
      BY <2>4 DEF Abort, gateVars
    <3> QED
      BY <3>1, <1>r DEF ComesCloser, ChildLeft
  <2>5. CASE Gate
    <3>1. pc = "gate" /\ pc' \in {"failed", "commit"} /\ UNCHANGED <<plan, attempt, reviewer>>
      BY <2>5 DEF Gate, gateVars
    <3> QED
      BY <3>1, <1>r DEF ComesCloser, PlacesLeft, InSession, CommandSteps, Preparing, AgentSteps
  <2>6. CASE Crash
    BY <2>6 DEF Crash, InSession, CommandSteps, Preparing, AgentSteps
  <2>7. ASSUME \/ Announce \/ FindComment \/ UpdateComment \/ CreateComment \/ RememberComment
               \/ SessionEnds \/ Restart \/ StartSession \/ AnnounceChange
        PROVE  FALSE
    BY <2>7 DEF Announce, FindComment, UpdateComment, CreateComment, RememberComment, SessionEnds,
       Restart, StartSession, AnnounceChange, InSession, CommandSteps, Preparing, AgentSteps, Blocked
  <2> QED
    BY <2>1, <2>2, <2>3, <2>4, <2>5, <2>6, <2>7 DEF Next, Session
<1>2. SessionInv => AttemptsLeft \in Nat /\ ReviewersLeft \in Nat
  <2> SUFFICES ASSUME SessionInv PROVE AttemptsLeft \in Nat /\ ReviewersLeft \in Nat
    OBVIOUS
  <2>1. attempt \in Nat /\ reviewer \in 0..Profiles /\ Profiles \in Nat /\ MaximumAttempts \in Nat
    BY TypeParts, MaximumTypes, StagesAssumption DEF SessionInv, LoopTypes
  <2> QED
    BY <2>1 DEF SessionInv, AttemptsCounted, AttemptsLeft, ReviewersLeft
<1> QED
  BY <1>1, <1>2, SessionInvariance, PTL DEF Spec, SessionsMoveForward
=============================================================================
