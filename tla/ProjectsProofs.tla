---------------------------- MODULE ProjectsProofs ----------------------------
(* What the onboarding of projects promises for any slugs, repositories,     *)
(* setup requests and faults: in which order deletions are carried out and   *)
(* which checkout one may remove, and how many setup pull requests a         *)
(* repository is asked to review.                                            *)
EXTENDS ProjectLifecycle, ProjectSetup, SequenceTheorems, TLAPS

-----------------------------------------------------------------------------
(* The checkouts.                                                          *)

\* The request that is served is the oldest one, until its project is erased.
ServesOldest ==
    worker.at \in {"found", "verified", "removed"} =>
        requests # <<>> /\ worker.slug = Head(requests)

\* Unless its deletion took it for the checkout, a clone has its path to itself.
ClonesAreAlone ==
    \A s \in Slugs, p \in Passes :
       visit[p].at = "cloning" /\ visit[p].slug = s =>
          s \in contended \/ checkout[s].by = p

\* What is complete is no pass's any more.
CompleteIsDone == \A s \in Slugs : checkout[s].complete => checkout[s].by = None

\* What was verified is at rest, and stays the project's own until its removal.
VerifiedIsItsOwn ==
    \A s \in Slugs \ contended :
       worker = [at |-> "verified", slug |-> s] =>
          checkout[s] # Absent /\ checkout[s].by = None /\ checkout[s].repo = rows[s]

CheckoutInv ==
    TypeOK /\ ServesOldest /\ ClonesAreAlone /\ CompleteIsDone /\ VerifiedIsItsOwn

(* The requests after a project was erased: the oldest is gone, and with it *)
(* the only one of the project.                                             *)
LEMMA CascadeDropsTheOldest ==
  ASSUME NEW q \in Seq(Slugs), q # <<>>, IsInjective(q)
  PROVE  /\ RemoveFirst(q, Head(q)) = Tail(q)
         /\ Tail(q) \in Seq(Slugs) /\ IsInjective(Tail(q))
         /\ ToSet(Tail(q)) = ToSet(q) \ {Head(q)}
<1>1. /\ Len(q) \in Nat \ {0} /\ DOMAIN q = 1..Len(q) /\ Head(q) = q[1]
      /\ \A i, j \in 1..Len(q) : q[i] = q[j] => i = j
  BY DEF IsInjective
<1>2. {i \in 1..Len(q) : q[i] = Head(q)} = {1} /\ 1 \in 1..Len(q)
  BY <1>1
<1>3. RemoveFirst(q, Head(q)) = SubSeq(q, 1, 0) \o SubSeq(q, 2, Len(q))
  <2>1. Min({1}) = 1
    BY DEF Min
  <2>2. RemoveFirst(q, Head(q)) = RemoveAt(q, 1)
    BY <1>1, <1>2, <2>1 DEF RemoveFirst, SelectInSeq
  <2> QED
    BY <2>2 DEF RemoveAt
<1>4. SubSeq(q, 1, 0) = <<>> /\ SubSeq(q, 2, Len(q)) = Tail(q)
  BY SubSeqEmpty, TailIsSubSeq
<1>5. /\ Tail(q) \in Seq(Slugs) /\ Len(Tail(q)) = Len(q) - 1
      /\ \A i \in 1..(Len(q) - 1) : Tail(q)[i] = q[i + 1]
  BY HeadTailProperties
<1>6. <<>> \o Tail(q) = Tail(q)
  BY <1>5, ConcatEmptySeq
<1>7. IsInjective(Tail(q))
  <2>1. DOMAIN Tail(q) = 1..(Len(q) - 1)
    BY <1>5, <1>1
  <2> QED
    BY <2>1, <1>1, <1>5 DEF IsInjective
<1>8. ToSet(Tail(q)) = ToSet(q) \ {Head(q)}
  <2>1. DOMAIN Tail(q) = 1..(Len(q) - 1)
    BY <1>5, <1>1
  <2>2. ASSUME NEW i \in 1..(Len(q) - 1) PROVE Tail(q)[i] \in ToSet(q) \ {Head(q)}
    <3>1. i + 1 \in 1..Len(q) /\ i + 1 # 1
      BY <1>1
    <3> QED
      BY <3>1, <1>1, <1>5 DEF ToSet
  <2>3. ASSUME NEW i \in 1..Len(q), q[i] # Head(q) PROVE q[i] \in ToSet(Tail(q))
    <3>1. i - 1 \in 1..(Len(q) - 1) /\ (i - 1) + 1 = i
      BY <2>3, <1>1
    <3>2. Tail(q)[i - 1] = q[i]
      BY <3>1, <1>5
    <3> QED
      BY <3>1, <3>2, <2>1 DEF ToSet
  <2>4. ToSet(Tail(q)) \subseteq ToSet(q) \ {Head(q)}
    BY <2>1, <2>2 DEF ToSet
  <2>5. ToSet(q) \ {Head(q)} \subseteq ToSet(Tail(q))
    BY <2>3, <1>1 DEF ToSet
  <2> QED
    BY <2>4, <2>5
<1> QED
  BY <1>3, <1>4, <1>5, <1>6, <1>7, <1>8

(* A new request comes last. *)
LEMMA RequestComesLast ==
  ASSUME NEW q \in Seq(Slugs), IsInjective(q), NEW s \in Slugs, ~Contains(q, s)
  PROVE  /\ Append(q, s) \in Seq(Slugs) /\ IsInjective(Append(q, s))
         /\ ToSet(Append(q, s)) = ToSet(q) \union {s}
            /\ Append(q, s) # <<>>
         /\ q # <<>> => Head(Append(q, s)) = Head(q)
<1>1. /\ Append(q, s) \in Seq(Slugs) /\ Append(q, s) # <<>>
      /\ Len(Append(q, s)) = Len(q) + 1 /\ Len(q) \in Nat /\ DOMAIN q = 1..Len(q)
      /\ \A i \in 1..Len(q) : Append(q, s)[i] = q[i]
      /\ Append(q, s)[Len(q) + 1] = s
  BY AppendProperties
<1>2. DOMAIN Append(q, s) = 1..(Len(q) + 1)
  BY <1>1
<1>3. \A i \in 1..Len(q) : q[i] # s
  BY <1>1 DEF Contains
<1>4. \A i, j \in 1..Len(q) : q[i] = q[j] => i = j
  BY <1>1 DEF IsInjective
<1>5. IsInjective(Append(q, s))
  <2> SUFFICES ASSUME NEW i \in 1..(Len(q) + 1), NEW j \in 1..(Len(q) + 1),
                      Append(q, s)[i] = Append(q, s)[j]
               PROVE  i = j
    BY <1>2 DEF IsInjective
  <2>1. (i \in 1..Len(q) \/ i = Len(q) + 1) /\ (j \in 1..Len(q) \/ j = Len(q) + 1)
    BY <1>1
  <2> QED
    BY <2>1, <1>1, <1>3, <1>4
<1>6. ToSet(Append(q, s)) = ToSet(q) \union {s}
  <2>1. \A i \in 1..(Len(q) + 1) : i \in 1..Len(q) \/ i = Len(q) + 1
    BY <1>1
  <2>2. \A i \in 1..Len(q) : i \in 1..(Len(q) + 1)
    BY <1>1
  <2>3. Len(q) + 1 \in 1..(Len(q) + 1)
    BY <1>1
  <2> QED
    BY <1>1, <1>2, <2>1, <2>2, <2>3 DEF ToSet
<1>7. q # <<>> => Head(Append(q, s)) = Head(q)
  BY <1>1, HeadTailAppend
<1> QED
  BY <1>1, <1>5, <1>6, <1>7

Visits == [at : {"idle", "look", "authorize", "clone", "cloning"},
           slug : Slugs \union {None}, repo : Repos \union {None}]
Checkouts == [repo : Repos \union {None}, complete : BOOLEAN, by : Passes \union {None}]
PassStep(p) == Visit(p) \/ \E s \in Slugs : StartVisit(s, p)

(* What a pass does: it moves itself, and changes nothing but the checkout  *)
(* of the project it is at.                                                 *)
LEMMA PassMoves ==
  ASSUME TypeOK, NEW p \in Passes, PassStep(p)
  PROVE  \E v \in Visits, c \in Checkouts :
            /\ visit' = [visit EXCEPT ![p] = v]
            /\ checkout' = checkout \/ checkout' = [checkout EXCEPT ![visit[p].slug] = c]
            /\ UNCHANGED <<rows, requests, worker>> /\ Contended(contended)
            /\ faults' \in 0..MaxFaults
            /\ c.complete => c.by = None
            /\ v.at = "cloning" => v.slug = visit[p].slug
            /\ v.at = "cloning" /\ visit[p].slug \in Slugs =>
                  /\ checkout[visit[p].slug] = Absent
                  /\ checkout'[visit[p].slug].by = p
            /\ checkout' = checkout \/ visit[p].at = "cloning" \/ v.at = "cloning"
<1> USE LifecycleAssumption
<1> DEFINE v == visit[p]
           k == v.slug
<1>1. /\ v \in Visits /\ Resting \in Visits /\ Absent \in Checkouts
      /\ visit \in [Passes -> Visits] /\ checkout \in [Slugs -> Checkouts]
      /\ faults \in 0..MaxFaults /\ ~Absent.complete /\ Resting.at = "idle"
  BY DEF TypeOK, Visits, Checkouts, Resting, Absent
<1>2. \A a \in {"authorize", "clone", "cloning"} :
         [v EXCEPT !.at = a] \in Visits /\ [v EXCEPT !.at = a].at = a /\ [v EXCEPT !.at = a].slug = k
  BY <1>1 DEF Visits
<1>3. Fault => faults' \in 0..MaxFaults
  BY <1>1 DEF Fault
<1>4. ASSUME NEW s \in Slugs, StartVisit(s, p) PROVE
         /\ visit' = [visit EXCEPT ![p] = [at |-> "look", slug |-> s, repo |-> rows[s]]]
         /\ [at |-> "look", slug |-> s, repo |-> rows[s]] \in Visits
         /\ UNCHANGED <<rows, requests, worker, checkout, faults>> /\ Contended(contended)
  <2>1. rows[s] \in Repos \union {None}
    BY DEF TypeOK
  <2> QED
    BY <2>1, <1>4 DEF StartVisit, VisitMoves, Visits
<1>5. CASE \E s \in Slugs : StartVisit(s, p)
  <2>1. PICK s \in Slugs : StartVisit(s, p)
    BY <1>5
  <2> DEFINE w == [at |-> "look", slug |-> s, repo |-> rows[s]]
  <2>2. w \in Visits /\ w.at = "look" /\ visit' = [visit EXCEPT ![p] = w] /\ checkout' = checkout
        /\ UNCHANGED <<rows, requests, worker, faults>> /\ Contended(contended)
    BY <2>1, <1>4
  <2> HIDE DEF w
  <2> QED
    BY <2>2, <1>1
<1>6. CASE Look(p)
  <2>1. PICK w \in Visits : /\ visit' = [visit EXCEPT ![p] = w] /\ w.at # "cloning"
                            /\ VisitMoves(p, w) /\ UNCHANGED <<checkout, faults>>
    BY <1>6, <1>1, <1>2 DEF Look, VisitMoves
  <2> QED
    BY <2>1, <1>1 DEF VisitMoves
<1>7. CASE Authorize(p)
  <2>1. PICK w \in Visits : /\ visit' = [visit EXCEPT ![p] = w] /\ w.at # "cloning"
                            /\ VisitMoves(p, w) /\ UNCHANGED checkout /\ faults' \in 0..MaxFaults
    BY <1>7, <1>1, <1>2, <1>3 DEF Authorize, VisitMoves
  <2> QED
    BY <2>1, <1>1 DEF VisitMoves
<1>8. CASE StartClone(p)
  <2> DEFINE d == [repo |-> v.repo, complete |-> FALSE, by |-> p]
             w == [v EXCEPT !.at = "cloning"]
  <2>1. CASE checkout[k] = Absent
    <3>1. visit' = [visit EXCEPT ![p] = w] /\ w \in Visits /\ w.at = "cloning" /\ w.slug = k
      BY <1>8, <2>1, <1>2 DEF StartClone, VisitMoves
    <3>2. checkout' = [checkout EXCEPT ![k] = d] /\ ~d.complete /\ d \in Checkouts /\ d.by = p
      BY <1>8, <2>1, <1>1 DEF StartClone, Visits, Checkouts
    <3>3. UNCHANGED <<rows, requests, worker, faults>> /\ Contended(contended)
      BY <1>8, <2>1 DEF StartClone, VisitMoves
    <3>4. k \in Slugs => checkout'[k] = d
      BY <3>2, <1>1
    <3> HIDE DEF d, w
    <3> QED
      BY <3>1, <3>2, <3>3, <3>4, <2>1, <1>1
  <2>2. CASE checkout[k] # Absent
    BY <1>8, <2>2, <1>1 DEF StartClone, VisitMoves
  <2> QED
    BY <2>1, <2>2
<1>9. CASE EndClone(p)
  <2> DEFINE d == [checkout[k] EXCEPT !.complete = TRUE, !.by = None]
  <2>0. visit' = [visit EXCEPT ![p] = Resting] /\ Contended(contended) /\ v.at = "cloning"
        /\ UNCHANGED <<rows, requests, worker>> /\ faults' \in 0..MaxFaults
    BY <1>9, <1>1, <1>3 DEF EndClone, VisitMoves
  <2>1. CASE k \notin Slugs
    <3>1. checkout' = checkout
      BY <1>9, <2>1, <1>1 DEF EndClone
    <3> QED
      BY <3>1, <2>0, <1>1
  <2>2. CASE k \in Slugs
    <3>1. d \in Checkouts /\ d.by = None
      BY <2>2, <1>1 DEF Checkouts
    <3>2. checkout' \in {[checkout EXCEPT ![k] = d], [checkout EXCEPT ![k] = Absent]}
      <4>1. [checkout EXCEPT ![k].complete = TRUE, ![k].by = None] = [checkout EXCEPT ![k] = d]
        BY <2>2, <1>1 DEF Checkouts
      <4> QED
        BY <1>9, <4>1 DEF EndClone
    <3> HIDE DEF d
    <3> QED
      BY <3>1, <3>2, <2>0, <1>1
  <2> QED
    BY <2>1, <2>2
<1> QED
  BY <1>5, <1>6, <1>7, <1>8, <1>9 DEF PassStep, Visit

(* The passes of a step of the whole. *)
LEMMA StepsOfPasses ==
  ASSUME (\E s \in Slugs : Visited(s)) \/ (\E p \in Passes : Visit(p))
  PROVE  \E p \in Passes : PassStep(p)
BY DEF Visited, PassStep

(* The tables, the checkouts and the passes keep their shapes. *)
LEMMA CheckoutTypes ==
  ASSUME TypeOK, ServesOldest, [Next]_vars
  PROVE  TypeOK'
<1> USE LifecycleAssumption DEF TypeOK
<1>1. ASSUME NEW s \in Slugs, NEW r \in Repos, Register(s, r)
      PROVE  TypeOK'
  BY <1>1 DEF Register, Registered
<1>2. ASSUME NEW s \in Slugs, RequestDeletion(s)
      PROVE  TypeOK'
  <2>1. /\ requests' \in Seq(Slugs) /\ IsInjective(requests')
        /\ ToSet(requests') = ToSet(requests) \union {s}
    BY <1>2, RequestComesLast DEF RequestDeletion
  <2> QED
    BY <1>2, <2>1 DEF RequestDeletion, Registered
<1>3. ASSUME NEW p \in Passes, PassStep(p)
      PROVE  TypeOK'
  <2>1. /\ UNCHANGED <<rows, requests, worker>> /\ faults' \in 0..MaxFaults
        /\ visit' \in [Passes -> Visits] /\ checkout' \in [Slugs -> Checkouts]
        /\ contended' \subseteq Slugs
    <3>1. visit \in [Passes -> Visits] /\ checkout \in [Slugs -> Checkouts] /\ contended \subseteq Slugs
      BY DEF Visits, Checkouts
    <3>2. PICK v \in Visits, c \in Checkouts :
             /\ visit' = [visit EXCEPT ![p] = v]
             /\ checkout' = checkout \/ checkout' = [checkout EXCEPT ![visit[p].slug] = c]
             /\ UNCHANGED <<rows, requests, worker>> /\ faults' \in 0..MaxFaults
             /\ Contended(contended)
      BY <1>3, PassMoves
    <3>3. contended' \subseteq contended
      BY <3>2 DEF Contended
    <3> QED
      BY ONLY <3>1, <3>2, <3>3
  <2> QED
    BY <2>1 DEF Registered, Visits, Checkouts
<1>4. CASE FindRequest
  <2>1. Oldest \in Slugs
    BY <1>4, HeadTailProperties DEF FindRequest, Oldest
  <2> QED
    BY <1>4, <2>1 DEF FindRequest, Works, Contended, Registered
<1>5. CASE VerifyCheckout
  <2>1. worker.slug \in Slugs
    BY <1>5, HeadTailProperties DEF VerifyCheckout, ServesOldest
  <2> QED
    BY <1>5, <2>1 DEF VerifyCheckout, Works, Contended, Registered, Fault
<1>6. CASE RemoveCheckout
  BY <1>6 DEF RemoveCheckout, Works, Contended, Registered, Absent
<1>7. CASE EraseProject
  <2>1. /\ requests # <<>> /\ worker.slug = Head(requests)
        /\ requests' = RemoveFirst(requests, Head(requests))
    BY <1>7 DEF EraseProject, ServesOldest, Cascaded
  <2>2. /\ requests' \in Seq(Slugs) /\ IsInjective(requests')
        /\ ToSet(requests') = ToSet(requests) \ {worker.slug}
    BY <2>1, CascadeDropsTheOldest
  <2>3. /\ rows' = [rows EXCEPT ![worker.slug] = None] /\ contended' \subseteq contended
        /\ worker' = [at |-> "idle", slug |-> None] /\ UNCHANGED <<checkout, visit, faults>>
    BY <1>7 DEF EraseProject, Works, Contended
  <2>4. \A t \in ToSet(requests') : rows'[t] # None
    <3>1. ToSet(requests) \subseteq Slugs
      <4>1. \A k \in DOMAIN requests : requests[k] \in Slugs
        OBVIOUS
      <4> QED
        BY <4>1 DEF ToSet
    <3> QED
      BY <2>2, <2>3, <3>1 DEF Registered
  <2> QED
    BY <2>2, <2>3, <2>4 DEF Registered
<1>8. CASE CrashWorker
  <2>1. /\ worker' = [at |-> "down", slug |-> None] /\ visit' = [p \in Passes |-> Resting]
        /\ checkout' = [s \in Slugs |-> [checkout[s] EXCEPT !.by = None]]
        /\ contended' = {} /\ UNCHANGED <<rows, requests>> /\ faults' \in 0..MaxFaults
    BY <1>8 DEF CrashWorker, Fault
  <2>2. Resting \in Visits
    BY DEF Resting, Visits
  <2>3. \A s \in Slugs : [checkout[s] EXCEPT !.by = None] \in Checkouts
    BY DEF Checkouts
  <2>4. visit' \in [Passes -> Visits] /\ checkout' \in [Slugs -> Checkouts]
    BY <2>1, <2>2, <2>3
  <2> QED
    BY <2>1, <2>4 DEF Registered, Visits, Checkouts
<1>9. CASE RestartWorker
  BY <1>9 DEF RestartWorker, Works, Contended, Registered
<1>10. CASE UNCHANGED vars
  BY <1>10 DEF vars, Registered
<1> QED
  BY <1>1, <1>2, <1>3, <1>4, <1>5, <1>6, <1>7, <1>8, <1>9, <1>10, StepsOfPasses
     DEF Next, Dashboard, Loop

(* The queue is served in order: what is added comes last, and only the     *)
(* project that was served leaves.                                          *)
LEMMA OldestStep ==
  ASSUME TypeOK, ServesOldest, [Next]_vars
  PROVE  ServesOldest'
<1> USE DEF ServesOldest
<1>1. ASSUME NEW s \in Slugs, RequestDeletion(s)
      PROVE  ServesOldest'
  BY <1>1, RequestComesLast DEF RequestDeletion, TypeOK
<1>2. CASE FindRequest \/ VerifyCheckout \/ RemoveCheckout \/ EraseProject \/ RestartWorker
  BY <1>2 DEF FindRequest, VerifyCheckout, RemoveCheckout, EraseProject, RestartWorker, Works, Oldest
<1>3. CASE CrashWorker
  BY <1>3 DEF CrashWorker
<1>4. ASSUME UNCHANGED <<requests, worker>>
      PROVE  ServesOldest'
  BY <1>4
<1>5. ASSUME NEW p \in Passes, PassStep(p)
      PROVE  UNCHANGED <<requests, worker>>
  BY <1>5, PassMoves
<1>6. ASSUME (\E s \in Slugs, r \in Repos : Register(s, r)) \/ UNCHANGED vars
      PROVE  UNCHANGED <<requests, worker>>
  BY <1>6 DEF Register, vars
<1> QED
  BY <1>1, <1>2, <1>3, <1>4, <1>5, <1>6, StepsOfPasses DEF Next, Dashboard, Loop

(* A deletion that took a clone for the checkout is not forgotten while     *)
(* either is at work.                                                       *)
LEMMA ContentionLasts ==
  ASSUME [Next]_vars, NEW s \in contended,
         worker' = [at |-> "verified", slug |-> s] \/ Cloning(s)'
  PROVE  s \in contended'
<1>1. ASSUME Contended(contended) PROVE s \in contended'
  BY <1>1 DEF Contended
<1>2. ASSUME NEW at, NEW t, Works(at, t) PROVE s \in contended'
  BY <1>2 DEF Works, Contended
<1>3. ASSUME NEW p \in Passes, PassStep(p) PROVE Contended(contended)
  BY <1>3 DEF PassStep, Visit, StartVisit, Look, Authorize, StartClone, EndClone, VisitMoves
<1>4. CASE Dashboard \/ UNCHANGED vars
  BY <1>4 DEF Dashboard, Register, RequestDeletion, vars
<1>5. CASE CrashWorker
  BY <1>5 DEF CrashWorker, Cloning, Resting
<1>6. CASE Loop
  BY <1>6, <1>2 DEF Loop, FindRequest, VerifyCheckout, RemoveCheckout, EraseProject, RestartWorker
<1> QED
  BY <1>1, <1>3, <1>4, <1>5, <1>6, StepsOfPasses DEF Next

(* What a step of the loop or of the dashboard does to clones, checkouts    *)
(* and verified projects.                                                   *)
LEMMA OthersActs ==
  ASSUME TypeOK, Dashboard \/ (Loop /\ ~RemoveCheckout) \/ UNCHANGED vars
  PROVE  UNCHANGED <<checkout, visit>>
BY DEF Dashboard, Register, RequestDeletion, Loop, FindRequest, VerifyCheckout, EraseProject,
       RestartWorker, Works, vars

(* A clone starts where nothing is; what is at its path stays its own until *)
(* a deletion takes it away.                                                *)
LEMMA ClonesStep ==
  ASSUME CheckoutInv, TypeOK', [Next]_vars
  PROVE  ClonesAreAlone'
<1> SUFFICES ASSUME NEW s \in Slugs, NEW q \in Passes,
                    visit'[q].at = "cloning", visit'[q].slug = s, s \notin contended'
             PROVE  checkout'[s].by = q
  BY DEF ClonesAreAlone
<1>t. /\ visit \in [Passes -> Visits] /\ checkout \in [Slugs -> Checkouts]
      /\ worker.slug \in Slugs \union {None} /\ None \notin Passes /\ contended' \subseteq Slugs
  BY LifecycleAssumption DEF CheckoutInv, TypeOK, Visits, Checkouts
<1>1. s \notin contended
  BY ContentionLasts DEF Cloning
<1>2. ASSUME UNCHANGED <<checkout, visit>> PROVE checkout'[s].by = q
  BY <1>1, <1>2 DEF CheckoutInv, ClonesAreAlone
<1>3. ASSUME NEW p \in Passes, PassStep(p) PROVE checkout'[s].by = q
  <2>1. PICK v \in Visits, c \in Checkouts :
            /\ visit' = [visit EXCEPT ![p] = v]
            /\ checkout' = checkout \/ checkout' = [checkout EXCEPT ![visit[p].slug] = c]
            /\ v.at = "cloning" => v.slug = visit[p].slug
            /\ v.at = "cloning" /\ visit[p].slug \in Slugs =>
                  /\ checkout[visit[p].slug] = Absent
                  /\ checkout'[visit[p].slug].by = p
            /\ checkout' = checkout \/ visit[p].at = "cloning" \/ v.at = "cloning"
    BY <1>3, PassMoves DEF CheckoutInv
  <2>2. CASE p = q
    BY <2>1, <2>2, <1>t
  <2>3. CASE p # q
    <3>1. visit[q].at = "cloning" /\ visit[q].slug = s /\ checkout[s].by = q
      BY <2>1, <2>3, <1>1, <1>t DEF CheckoutInv, ClonesAreAlone
    <3>2. CASE visit[p].slug = s
      <4>1. visit[p].at # "cloning"
        BY <3>1, <3>2, <2>3, <1>1 DEF CheckoutInv, ClonesAreAlone
      <4>2. v.at # "cloning"
        BY <2>1, <3>1, <3>2, <1>t DEF Absent
      <4> QED
        BY <2>1, <4>1, <4>2, <3>1
    <3>3. CASE visit[p].slug # s
      BY <2>1, <3>1, <3>3, <1>t
    <3> QED
      BY <3>2, <3>3
  <2> QED
    BY <2>2, <2>3
<1>4. CASE RemoveCheckout
  <2>1. /\ worker.at = "verified" /\ visit' = visit
        /\ checkout' = [checkout EXCEPT ![worker.slug] = Absent]
    BY <1>4 DEF RemoveCheckout, Works
  <2>2. checkout[s].by = q /\ q # None
    BY <2>1, <1>1, <1>t DEF CheckoutInv, ClonesAreAlone
  <2>3. worker.slug # s
    BY <2>1, <2>2, <1>1 DEF CheckoutInv, VerifiedIsItsOwn, TypeOK
  <2> QED
    BY <2>1, <2>2, <2>3, <1>t
<1>5. CASE CrashWorker
  BY <1>5 DEF CrashWorker, Resting
<1> QED
  BY <1>2, <1>3, <1>4, <1>5, OthersActs, StepsOfPasses DEF Next, CheckoutInv

(* A clone that ends leaves its checkout to nobody. *)
LEMMA DoneStep ==
  ASSUME CheckoutInv, [Next]_vars
  PROVE  CompleteIsDone'
<1>t. checkout \in [Slugs -> Checkouts] /\ Absent.by = None /\ ~Absent.complete
  BY DEF CheckoutInv, TypeOK, Checkouts, Absent
<1>1. ASSUME UNCHANGED checkout PROVE CompleteIsDone'
  BY <1>1 DEF CheckoutInv, CompleteIsDone
<1>2. ASSUME NEW p \in Passes, PassStep(p) PROVE CompleteIsDone'
  <2>1. PICK c \in Checkouts :
            /\ checkout' = checkout \/ checkout' = [checkout EXCEPT ![visit[p].slug] = c]
            /\ c.complete => c.by = None
    BY <1>2, PassMoves DEF CheckoutInv
  <2> QED
    BY <2>1, <1>t DEF CheckoutInv, CompleteIsDone
<1>3. CASE RemoveCheckout
  BY <1>3, <1>t DEF RemoveCheckout, CheckoutInv, CompleteIsDone
<1>4. CASE CrashWorker
  BY <1>4, <1>t DEF CrashWorker, CompleteIsDone, Checkouts
<1> QED
  BY <1>1, <1>2, <1>3, <1>4, OthersActs, StepsOfPasses DEF Next, CheckoutInv

(* Between its verification and its removal nothing touches a checkout at   *)
(* rest: no clone starts where something is, and the row cannot change      *)
(* while its deletion is requested.                                         *)
LEMMA VerifiedStep ==
  ASSUME CheckoutInv, TypeOK', [Next]_vars
  PROVE  VerifiedIsItsOwn'
<1> SUFFICES ASSUME NEW s \in Slugs, s \notin contended',
                    worker' = [at |-> "verified", slug |-> s]
             PROVE  checkout'[s] # Absent /\ checkout'[s].by = None /\ checkout'[s].repo = rows'[s]
  BY DEF VerifiedIsItsOwn
<1>t. /\ visit \in [Passes -> Visits] /\ checkout \in [Slugs -> Checkouts]
      /\ None \notin Passes
  BY LifecycleAssumption DEF CheckoutInv, TypeOK, Visits, Checkouts
<1>1. s \notin contended
  BY ContentionLasts
<1>2. CASE VerifyCheckout
  <2>1. /\ checkout[s] # Absent /\ Matches(s) /\ Works("verified", s)
        /\ UNCHANGED <<rows, checkout>>
    BY <1>2 DEF VerifyCheckout, Works
  <2>2. checkout[s].by = None
    BY <2>1 DEF Works, Contended
  <2> QED
    BY <2>1, <2>2 DEF Matches
<1>3. ASSUME worker' = worker
      PROVE  checkout'[s] # Absent /\ checkout'[s].by = None /\ checkout'[s].repo = rows'[s]
  <2>1. checkout[s] # Absent /\ checkout[s].by = None /\ checkout[s].repo = rows[s]
    BY <1>1, <1>3 DEF CheckoutInv, VerifiedIsItsOwn
  <2>2. s \in ToSet(requests) /\ rows[s] # None
    <3>1. requests # <<>> /\ s = requests[1] /\ 1 \in DOMAIN requests
      BY <1>3, HeadTailProperties DEF CheckoutInv, ServesOldest, TypeOK
    <3> QED
      BY <3>1 DEF ToSet, CheckoutInv, TypeOK, Registered
  <2>3. ASSUME NEW p \in Passes, PassStep(p) PROVE checkout'[s] = checkout[s] /\ rows'[s] = rows[s]
    <3>1. PICK v \in Visits, c \in Checkouts :
            /\ checkout' = checkout \/ checkout' = [checkout EXCEPT ![visit[p].slug] = c]
            /\ UNCHANGED rows
            /\ v.at = "cloning" /\ visit[p].slug \in Slugs => checkout[visit[p].slug] = Absent
            /\ checkout' = checkout \/ visit[p].at = "cloning" \/ v.at = "cloning"
      BY <2>3, PassMoves DEF CheckoutInv
    <3>2. CASE visit[p].slug = s
      <4>1. visit[p].at # "cloning"
        BY <3>2, <2>1, <1>1, <1>t DEF CheckoutInv, ClonesAreAlone
      <4> QED
        BY <3>1, <3>2, <4>1, <2>1
    <3>3. CASE visit[p].slug # s
      BY <3>1, <3>3, <1>t
    <3> QED
      BY <3>2, <3>3
  <2>4. ASSUME Dashboard \/ UNCHANGED vars PROVE checkout'[s] = checkout[s] /\ rows'[s] = rows[s]
    <3>1. UNCHANGED checkout
      BY <2>4, OthersActs DEF CheckoutInv
    <3>2. rows'[s] = rows[s]
      BY <2>4, <2>2 DEF Dashboard, Register, RequestDeletion, Registered, vars, CheckoutInv, TypeOK
    <3> QED
      BY <3>1, <3>2
  <2>5. (~CrashWorker /\ ~Loop) \/ VerifyCheckout
    BY <1>3 DEF CrashWorker, Loop, FindRequest, RemoveCheckout, EraseProject, RestartWorker, Works
  <2> QED
    BY <2>1, <2>3, <2>4, <2>5, <1>2, StepsOfPasses DEF Next
<1>4. ASSUME worker' # worker, ~VerifyCheckout PROVE FALSE
  <2>1. ASSUME NEW p \in Passes, PassStep(p) PROVE FALSE
    BY <2>1, <1>4, PassMoves DEF CheckoutInv
  <2>2. ~Dashboard /\ ~UNCHANGED vars
    BY <1>4 DEF Dashboard, Register, RequestDeletion, vars
  <2>3. ~CrashWorker /\ ~Loop
    BY <1>4 DEF CrashWorker, Loop, FindRequest, RemoveCheckout, EraseProject, RestartWorker, Works
  <2> QED
    BY <2>1, <2>2, <2>3, StepsOfPasses DEF Next
<1> QED
  BY <1>2, <1>3, <1>4

LEMMA CheckoutInvariance == Spec => []CheckoutInv
<1>1. Init => CheckoutInv
  <2>1. Init => TypeOK
    BY LifecycleAssumption DEF Init, TypeOK, Absent, Resting, IsInjective, ToSet
  <2> QED
    BY <2>1 DEF Init, CheckoutInv, ServesOldest, ClonesAreAlone, CompleteIsDone, VerifiedIsItsOwn,
            Absent, Resting
<1>2. CheckoutInv /\ [Next]_vars => CheckoutInv'
  <2> SUFFICES ASSUME CheckoutInv, [Next]_vars PROVE CheckoutInv'
    OBVIOUS
  <2>1. TypeOK' /\ ServesOldest'
    BY CheckoutTypes, OldestStep DEF CheckoutInv
  <2> QED
    BY <2>1, ClonesStep, DoneStep, VerifiedStep DEF CheckoutInv
<1> QED
  BY <1>1, <1>2, PTL DEF Spec

(* The rows, the requests, the checkouts and the passes keep their types. *)
THEOREM CheckoutTypesHold == Spec => []TypeOK
<1>1. CheckoutInv => TypeOK
  BY DEF CheckoutInv
<1> QED
  BY <1>1, CheckoutInvariance, PTL

(* removeCheckout: however many passes clone beside each other and beside   *)
(* the deletion, and however often the worker restarts, a complete checkout *)
(* is removed only on request and only as the project's own, unless its     *)
(* deletion took a clone at work for the checkout: that clone's cleanup may *)
(* remove what another pass has put there since.                            *)
THEOREM RemovalsAreTheProjectsOwn == Spec => OnlyItsCheckoutIsRemoved
<1> DEFINE ItsOwn == \A s \in Slugs :
              checkout[s].complete /\ checkout'[s] = Absent =>
                 \/ Contains(requests, s) /\ checkout[s].repo = rows[s]
                 \/ s \in contended
<1>1. ASSUME CheckoutInv, [Next]_vars
      PROVE  [ItsOwn]_vars
  <2> SUFFICES ASSUME Next, NEW s \in Slugs, checkout[s].complete, checkout'[s] = Absent,
                      s \notin contended
               PROVE  Contains(requests, s) /\ checkout[s].repo = rows[s]
    BY <1>1
  <2>0. /\ ~Absent.complete /\ checkout \in [Slugs -> Checkouts] /\ None \notin Passes
        /\ checkout'[s] # checkout[s] /\ checkout[s].by = None
    BY <1>1, LifecycleAssumption DEF Absent, CheckoutInv, TypeOK, Checkouts, CompleteIsDone
  <2>1. CASE RemoveCheckout
    <3>1. worker = [at |-> "verified", slug |-> s]
      BY <2>1, <2>0, <1>1 DEF RemoveCheckout, CheckoutInv, TypeOK
    <3>2. requests # <<>> /\ s = Head(requests) /\ requests \in Seq(Slugs)
      BY <1>1, <3>1 DEF CheckoutInv, ServesOldest, TypeOK
    <3>3. Contains(requests, s)
      BY <3>2 DEF Contains
    <3> QED
      BY <1>1, <3>1, <3>3 DEF CheckoutInv, VerifiedIsItsOwn
  <2>2. ASSUME NEW p \in Passes, PassStep(p) PROVE FALSE
    <3>1. PICK v \in Visits, c \in Checkouts :
            /\ checkout' = checkout \/ checkout' = [checkout EXCEPT ![visit[p].slug] = c]
            /\ v.at = "cloning" /\ visit[p].slug \in Slugs => checkout[visit[p].slug] = Absent
            /\ checkout' = checkout \/ visit[p].at = "cloning" \/ v.at = "cloning"
      BY <1>1, <2>2, PassMoves DEF CheckoutInv
    <3>2. visit[p].slug = s
      BY <3>1, <2>0
    <3>3. visit[p].at # "cloning"
      BY <3>2, <2>0, <1>1 DEF CheckoutInv, ClonesAreAlone
    <3> QED
      BY <3>1, <3>2, <3>3, <2>0
  <2>3. CASE CrashWorker
    <3>1. checkout'[s] = [checkout[s] EXCEPT !.by = None]
      BY <2>3 DEF CrashWorker
    <3> QED
      BY <3>1, <2>0 DEF Checkouts, Absent
  <2> QED
    BY <1>1, <2>0, <2>1, <2>2, <2>3, OthersActs, StepsOfPasses DEF Next, CheckoutInv
<1> QED
  BY <1>1, CheckoutInvariance, PTL DEF Spec, OnlyItsCheckoutIsRemoved

(* A project is erased only when its deletion is requested and is the       *)
(* oldest request, its request goes with it, and no request is lost in any  *)
(* other way.                                                               *)
DeletionsAreInOrder ==
    [][\A s \in Slugs :
          /\ Registered(s) /\ rows'[s] # rows[s] =>
                /\ requests # <<>> /\ s = Head(requests)
                /\ rows'[s] = None /\ requests' = Tail(requests)
          /\ Contains(requests, s) /\ ~Contains(requests', s) => rows'[s] = None]_vars

(* ProjectDeletionProcessor: deletions are carried out in the order they    *)
(* were requested, across crashes, failing commands and refused checkouts;  *)
(* nothing else takes a row away or drops a request.                        *)
THEOREM DeletionsAreServedInOrder == Spec => DeletionsAreInOrder
<1> DEFINE Kept(s) == rows'[s] = rows[s] \/ ~Registered(s)
           Erased(s) == /\ requests # <<>> /\ s = Head(requests)
                        /\ rows'[s] = None /\ requests' = Tail(requests)
           InOrder == \A s \in Slugs :
              /\ Registered(s) /\ rows'[s] # rows[s] => Erased(s)
              /\ Contains(requests, s) /\ ~Contains(requests', s) => rows'[s] = None
<1>1. ASSUME CheckoutInv, [Next]_vars
      PROVE  [InOrder]_vars
  <2>t. requests \in Seq(Slugs) /\ IsInjective(requests) /\ rows \in [Slugs -> Repos \union {None}]
    BY <1>1 DEF CheckoutInv, TypeOK
  <2>1. ASSUME UNCHANGED requests, \A s \in Slugs : Kept(s)
        PROVE  InOrder
    BY <2>1
  <2>2. ASSUME NEW s \in Slugs, NEW r \in Repos, Register(s, r)
        PROVE  InOrder
    <3>1. UNCHANGED requests /\ \A t \in Slugs : Kept(t)
      BY <2>2, <2>t DEF Register
    <3> QED
      BY <2>1, <3>1
  <2>3. ASSUME NEW s \in Slugs, RequestDeletion(s)
        PROVE  InOrder
    <3>1. UNCHANGED rows /\ requests' = Append(requests, s)
      BY <2>3 DEF RequestDeletion
    <3>2. ASSUME NEW t \in Slugs, Contains(requests, t)
          PROVE  Contains(requests', t)
      <4>1. PICK i \in 1..Len(requests) : requests[i] = t
        BY <3>2 DEF Contains
      <4>2. Len(requests') = Len(requests) + 1 /\ requests'[i] = t
        BY <3>1, <4>1, <2>t, AppendProperties
      <4>3. i \in 1..Len(requests')
        BY <4>2, <2>t
      <4> QED
        BY <4>2, <4>3 DEF Contains
    <3> QED
      BY <3>1, <3>2
  <2>4. CASE EraseProject
    <3> DEFINE s == worker.slug
    <3>1. requests # <<>> /\ s = Head(requests) /\ s \in Slugs
      BY <2>4, <1>1, <2>t, HeadTailProperties DEF EraseProject, CheckoutInv, ServesOldest
    <3>2. /\ requests' = Tail(requests) /\ ToSet(Tail(requests)) = ToSet(requests) \ {s}
          /\ Tail(requests) \in Seq(Slugs)
      BY <2>4, <3>1, <2>t, CascadeDropsTheOldest DEF EraseProject, Cascaded
    <3>3. rows' = [rows EXCEPT ![s] = None]
      BY <2>4 DEF EraseProject
    <3>4. ASSUME NEW t \in Slugs \ {s}, Contains(requests, t)
          PROVE  Contains(requests', t)
      <4>1. \A q \in Seq(Slugs) : t \in ToSet(q) <=> Contains(q, t)
        BY DEF ToSet, Contains
      <4>2. t \in ToSet(requests)
        BY <4>1, <3>4, <2>t
      <4>3. t \in ToSet(Tail(requests))
        BY <4>2, <3>2
      <4> QED
        BY <4>1, <4>3, <3>2
    <3>5. rows'[s] = None /\ \A t \in Slugs \ {s} : rows'[t] = rows[t]
      BY <3>3, <3>1, <2>t
    <3>6. Erased(s)
      BY <3>1, <3>2, <3>5
    <3> QED
      BY <3>4, <3>5, <3>6
  <2>5. ASSUME \/ FindRequest \/ VerifyCheckout \/ RemoveCheckout \/ RestartWorker \/ CrashWorker
        PROVE  InOrder
    <3>1. UNCHANGED <<rows, requests>>
      BY <2>5 DEF FindRequest, VerifyCheckout, RemoveCheckout, RestartWorker, CrashWorker
    <3> QED
      BY <3>1, <2>1
  <2>6. ASSUME NEW p \in Passes, PassStep(p)
        PROVE  InOrder
    <3>1. UNCHANGED <<rows, requests>>
      BY <1>1, <2>6, PassMoves DEF CheckoutInv
    <3> QED
      BY <3>1, <2>1
  <2> QED
    BY <1>1, <2>2, <2>3, <2>4, <2>5, <2>6, StepsOfPasses DEF Next, Dashboard, Loop
<1> QED
  BY <1>1, CheckoutInvariance, PTL DEF Spec, DeletionsAreInOrder

-----------------------------------------------------------------------------
(* The setup.                                                              *)

\* Without an overlap one request is handled at a time, and one that creates a
\* pull request has found none; only a later one could open another.
OneAtATime ==
    ~overlapped =>
       \A q, r \in SetupRequests :
          request[q].at # "idle" /\ request[r].at # "idle" => q = r
CreatesTheFirst ==
    ~overlapped =>
       \A r \in SetupRequests : request[r].at = "creating" => setupPulls = <<>>

SetupInv == SetupTypeOK /\ OneAtATime /\ CreatesTheFirst /\ OneSetupPullRequest

Handlings ==
    [at : {"idle", "inspecting", "labelling", "looking", "creating", "rechecking", "activating"},
     labels : SUBSET Labels, files : SUBSET Paths]
SetupPulls == [adds : SUBSET Paths, overwrites : SUBSET Paths]

\* What is open after a step: the same, one more of a creating request, or all
\* but the oldest.
PullsAfter(r) ==
    \/ UNCHANGED setupPulls
    \/ /\ request[r].at = "creating"
       /\ \E pull \in SetupPulls : setupPulls' = Append(setupPulls, pull)

(* What a handler does: it writes its own place, and only a creating one    *)
(* opens a pull request. It comes to its creation without having looked for *)
(* an open one only where none is.                                          *)
LEMMA HandlerMoves ==
  ASSUME SetupTypeOK, NEW r \in SetupRequests, Press(r) \/ Handler(r)
  PROVE  /\ \E h \in Handlings :
               /\ request' = [request EXCEPT ![r] = h]
               /\ h.at = "creating" => request[r].at = "looking" /\ setupPulls = <<>>
         /\ Handler(r) => request[r].at # "idle" /\ UNCHANGED overlapped
         /\ Press(r) => \/ overlapped'
                        \/ InFlightRequests = {} /\ UNCHANGED overlapped
         /\ PullsAfter(r)
         /\ labels' \subseteq Labels
         /\ UNCHANGED <<files, head, repairOpen, profileRow, initialization, adeVersion, versionKnown>>
         /\ initTask' \in {"none", "pending", "running"}
         /\ setupActs' \in 0..MaxActs /\ setupFaults' \in 0..MaxSetupFaults
         /\ overlapped' \in BOOLEAN
<1> DEFINE h == request[r]
<1>1. /\ h \in Handlings /\ request \in [SetupRequests -> Handlings] /\ labels \subseteq Labels
      /\ initTask \in {"none", "pending", "running"} /\ overlapped \in BOOLEAN
      /\ setupActs \in 0..MaxActs /\ setupFaults \in 0..MaxSetupFaults
  BY DEF SetupTypeOK, Handlings
<1>2. /\ \A a \in {"idle", "inspecting", "labelling", "looking", "creating", "rechecking", "activating"} :
            /\ [h EXCEPT !.at = a] \in Handlings /\ [h EXCEPT !.at = a].at = a
            /\ [Quiet EXCEPT !.at = a] \in Handlings /\ [Quiet EXCEPT !.at = a].at = a
      /\ Quiet \in Handlings /\ Quiet.at = "idle"
      /\ \A m \in SUBSET Labels, f \in SUBSET Paths :
            Planned(m, f) \in Handlings /\ Planned(m, f).at # "creating"
  BY <1>1 DEF Handlings, Quiet, Planned
<1>3. /\ SetupFault => setupFaults' \in 0..MaxSetupFaults
      /\ NoSetupFault => setupFaults' \in 0..MaxSetupFaults
      /\ Act => setupActs' \in 0..MaxActs
  BY <1>1, SetupAssumption DEF SetupFault, NoSetupFault, Act
<1> USE <1>1, <1>2, <1>3 DEF Handle, Throws, PullsAfter
<1>4. CASE Press(r)
  <2>1. /\ request[r].at = "idle" /\ request' = [request EXCEPT ![r] = [Quiet EXCEPT !.at = "inspecting"]]
        /\ UNCHANGED <<labels, files, head, setupPulls, repairOpen, profileRow, initTask,
                       initialization, adeVersion, versionKnown, setupFaults>>
        /\ \/ InFlightRequests = {} /\ UNCHANGED <<overlapped, setupActs>>
           \/ Act /\ overlapped' = TRUE
    BY <1>4 DEF Press, repositoryVars, taskVars
  <2>2. [Quiet EXCEPT !.at = "inspecting"] \in Handlings
        /\ [Quiet EXCEPT !.at = "inspecting"].at = "inspecting"
    OBVIOUS
  <2>3. ~Handler(r)
    BY <2>1 DEF Handler, InspectBefore, CreateLabel, FindSetupPull, CreateSetupPull, Recheck, Activate
  <2> QED
    BY <2>1, <2>2, <2>3
<1>5. CASE InspectBefore(r)
  <2>1. MissingLabels \in SUBSET Labels /\ MissingFiles \in SUBSET Paths
    BY DEF MissingLabels, MissingFiles
  <2>2. PICK m \in SUBSET Labels, f \in SUBSET Paths :
           request' = [request EXCEPT ![r] = Planned(m, f)]
    BY <1>5, <2>1 DEF InspectBefore
  <2>3. /\ request[r].at = "inspecting" /\ setupFaults' \in 0..MaxSetupFaults
        /\ UNCHANGED <<labels, files, head, setupPulls, repairOpen, profileRow, initTask,
                       initialization, adeVersion, versionKnown, overlapped, setupActs>>
    BY <1>5 DEF InspectBefore, repositoryVars, taskVars
  <2>4. ~Press(r)
    BY <2>3 DEF Press
  <2>5. Planned(m, f) \in Handlings /\ Planned(m, f).at # "creating"
    OBVIOUS
  <2> QED
    BY <2>2, <2>3, <2>4, <2>5
<1>6. CASE CreateLabel(r)
  <2>1. PICK l \in request[r].labels :
          \/ /\ labels' = labels \union {l} /\ NoSetupFault
             /\ Handle(r, Planned(request[r].labels \ {l}, request[r].files))
          \/ UNCHANGED labels /\ Handle(r, Quiet) /\ NoSetupFault
          \/ labels' \in {labels, labels \union {l}} /\ Throws(r)
    BY <1>6 DEF CreateLabel
  <2>2. request[r].labels \in SUBSET Labels /\ request[r].files \in SUBSET Paths /\ l \in Labels
    BY <2>1 DEF Handlings
  <2>3. /\ request[r].at = "labelling"
        /\ UNCHANGED <<files, head, setupPulls, repairOpen, profileRow, initTask,
                       initialization, adeVersion, versionKnown, overlapped, setupActs>>
    BY <1>6 DEF CreateLabel, taskVars
  <2>4. ~Press(r)
    BY <2>3 DEF Press
  <2>5. \E g \in Handlings : request' = [request EXCEPT ![r] = g] /\ g.at # "creating"
    BY <2>1, <2>2
  <2>6. labels' \subseteq Labels /\ setupFaults' \in 0..MaxSetupFaults
    BY <2>1, <2>2
  <2> QED
    BY <2>3, <2>4, <2>5, <2>6
<1>7. CASE FindSetupPull(r)
  <2>1. request[r].at = "looking" /\ ~Press(r)
    BY <1>7 DEF FindSetupPull, Press
  <2>2. \E g \in Handlings :
           request' = [request EXCEPT ![r] = g] /\ (g.at = "creating" => setupPulls = <<>>)
    BY <1>7 DEF FindSetupPull
  <2> QED
    BY <1>7, <2>1, <2>2 DEF FindSetupPull, repositoryVars, taskVars
<1>8. CASE CreateSetupPull(r)
  <2> DEFINE there == {p \in request[r].files : files[p] # "missing"}
             pull == [adds |-> request[r].files \ there, overwrites |-> there]
  <2>1. pull \in SetupPulls
    BY DEF Handlings, SetupPulls
  <2>2. /\ request[r].at = "creating" /\ setupFaults' \in 0..MaxSetupFaults
        /\ setupPulls' \in {setupPulls, Append(setupPulls, pull)}
        /\ \E g \in Handlings : request' = [request EXCEPT ![r] = g] /\ g.at # "creating"
        /\ UNCHANGED <<labels, files, head, repairOpen, profileRow, initTask,
                       initialization, adeVersion, versionKnown, overlapped, setupActs>>
    BY <1>8 DEF CreateSetupPull, taskVars
  <2>3. ~Press(r)
    BY <2>2 DEF Press
  <2> HIDE DEF pull
  <2> QED
    BY <2>1, <2>2, <2>3
<1>9. CASE Recheck(r)
  <2>1. request[r].at = "rechecking" /\ ~Press(r)
    BY <1>9 DEF Recheck, Press
  <2>2. \E g \in Handlings : request' = [request EXCEPT ![r] = g] /\ g.at # "creating"
    BY <1>9 DEF Recheck
  <2> QED
    BY <1>9, <2>1, <2>2 DEF Recheck, repositoryVars, taskVars
<1>10. CASE Activate(r)
  <2>1. request[r].at = "activating" /\ ~Press(r)
    BY <1>10 DEF Activate, Press
  <2> QED
    BY <1>10, <2>1 DEF Activate, repositoryVars
<1> QED
  BY <1>4, <1>5, <1>6, <1>7, <1>8, <1>9, <1>10 DEF Handler

(* The rest of the system, the worker and people, leaves the requests       *)
(* alone and opens no setup pull request.                                   *)
LEMMA OthersMove ==
  ASSUME SetupTypeOK,
         \/ Initialization \/ RefreshProfile \/ DeferRefresh
         \/ ReviewSetupPull \/ MergeRepair \/ FixProfile \/ Disturb
  PROVE  /\ UNCHANGED <<request, overlapped>>
         /\ setupPulls' = setupPulls \/ (setupPulls # <<>> /\ setupPulls' = Tail(setupPulls))
<1>1. CASE Initialization
  BY <1>1 DEF Initialization, CheckOut, InspectSetup, RecordReadiness, Repair,
              CompleteInitialization, repositoryVars, setupCounters
<1>2. CASE RefreshProfile \/ DeferRefresh \/ MergeRepair \/ FixProfile
  BY <1>2 DEF RefreshProfile, DeferRefresh, MergeRepair, FixProfile, repositoryVars, setupCounters
<1>3. CASE ReviewSetupPull
  BY <1>3 DEF ReviewSetupPull, setupCounters
<1>4. CASE Disturb
  BY <1>4 DEF Disturb
<1> QED
  BY <1>1, <1>2, <1>3, <1>4

FileContents == {"missing", "invalid", "present"}
ProfileRows == [status : {"absent", "setup-required", "compatible", "incompatible"},
                ref : Nat, version : Nat, contract : BOOLEAN]
Initializations == [at : {"idle", "inspecting", "recording", "repairing", "completing"},
                    rev : Nat, complete : BOOLEAN, version : Nat]

(* What the worker records, and where it goes next. *)
LEMMA InitializationTypes ==
  ASSUME SetupTypeOK, Initialization
  PROVE  /\ profileRow' \in ProfileRows /\ initTask' \in {"none", "pending", "running"}
         /\ initialization' \in Initializations
         /\ repairOpen' \in BOOLEAN /\ setupFaults' \in 0..MaxSetupFaults
         /\ UNCHANGED <<labels, files, head, setupPulls, adeVersion, versionKnown, setupActs>>
<1> DEFINE i == initialization
           row == profileRow
<1>1. /\ i \in Initializations /\ row \in ProfileRows /\ NoCheckout \in Initializations
      /\ head \in Nat /\ adeVersion \in Nat /\ repairOpen \in BOOLEAN
      /\ initTask \in {"none", "pending", "running"} /\ setupFaults \in 0..MaxSetupFaults
  BY DEF SetupTypeOK, Initializations, ProfileRows, NoCheckout
<1>2. /\ \A a \in {"recording", "repairing", "completing"} : [i EXCEPT !.at = a] \in Initializations
      /\ \A c \in BOOLEAN :
            [at |-> "inspecting", rev |-> head, complete |-> c, version |-> adeVersion]
               \in Initializations
  BY <1>1 DEF Initializations
<1>3. \A s \in {"compatible", "incompatible"} : Recorded(s) \in ProfileRows
  BY <1>1 DEF Recorded, ProfileRows, Initializations
<1>4. /\ SetupFault => setupFaults' \in 0..MaxSetupFaults
      /\ NoSetupFault => setupFaults' \in 0..MaxSetupFaults
  BY <1>1, SetupAssumption DEF SetupFault, NoSetupFault
<1>5. /\ Fails => /\ initialization' \in Initializations /\ initTask' \in {"none", "pending", "running"}
                  /\ setupFaults' \in 0..MaxSetupFaults
      /\ \A a \in {"recording", "repairing", "completing"} :
            Goes(a) => initialization' \in Initializations
  BY <1>1, <1>2, <1>4 DEF Fails, Goes
<1>6. CASE CheckOut
  <2>1. PICK c \in BOOLEAN : initialization' =
           [at |-> "inspecting", rev |-> head, complete |-> c, version |-> adeVersion]
    <3>1. (\A p \in Mandatory \union {"ade"} : files[p] = "present") \in BOOLEAN
      OBVIOUS
    <3> QED
      BY <1>6, <3>1 DEF CheckOut
  <2>2. /\ initTask' = "running"
        /\ UNCHANGED <<labels, files, head, setupPulls, repairOpen, profileRow, adeVersion,
                       versionKnown, setupActs, setupFaults>>
    BY <1>6 DEF CheckOut, repositoryVars, setupCounters
  <2> QED
    BY <2>1, <2>2, <1>1, <1>2
<1>7. CASE InspectSetup
  BY <1>7, <1>1, <1>3, <1>4, <1>5 DEF InspectSetup, repositoryVars
<1>8. CASE RecordReadiness
  BY <1>8, <1>1, <1>3, <1>4, <1>5 DEF RecordReadiness, repositoryVars
<1>9. CASE Repair
  BY <1>9, <1>1, <1>4, <1>5 DEF Repair
<1>10. CASE CompleteInitialization
  BY <1>10, <1>1 DEF CompleteInitialization, repositoryVars, setupCounters
<1> QED
  BY <1>6, <1>7, <1>8, <1>9, <1>10 DEF Initialization

(* What refreshes and people write. *)
LEMMA RepositoryTypes ==
  ASSUME SetupTypeOK,
         \/ RefreshProfile \/ DeferRefresh
         \/ ReviewSetupPull \/ MergeRepair \/ FixProfile \/ Disturb
  PROVE  /\ labels' \subseteq Labels /\ files' \in [Paths -> FileContents]
         /\ head' \in Nat \ {0} /\ repairOpen' \in BOOLEAN
         /\ profileRow' \in ProfileRows
         /\ adeVersion' \in Nat \ {0}
         /\ setupActs' \in 0..MaxActs /\ setupFaults' \in 0..MaxSetupFaults
         /\ UNCHANGED <<initTask, initialization, versionKnown>>
<1>1. /\ labels \subseteq Labels /\ files \in [Paths -> FileContents]
      /\ head \in Nat \ {0} /\ head + 1 \in Nat \ {0} /\ repairOpen \in BOOLEAN
      /\ profileRow \in ProfileRows
      /\ adeVersion \in Nat \ {0} /\ adeVersion + 1 \in Nat \ {0}
      /\ setupActs \in 0..MaxActs /\ setupFaults \in 0..MaxSetupFaults
  BY DEF SetupTypeOK, FileContents, ProfileRows
<1>2. /\ SetupFault => setupFaults' \in 0..MaxSetupFaults
      /\ Act => setupActs' \in 0..MaxActs
  BY <1>1, SetupAssumption DEF SetupFault, Act
<1>3. /\ RefreshedRow \in ProfileRows
      /\ [RefreshedRow EXCEPT !.contract = FALSE] \in ProfileRows
  <2>1. RefreshedRow \in ProfileRows
    BY <1>1 DEF RefreshedRow, ProfileRows
  <2>2. \A row \in ProfileRows : [row EXCEPT !.contract = FALSE] \in ProfileRows
    BY DEF ProfileRows
  <2> QED
    BY <2>1, <2>2
<1>4. CASE RefreshProfile
  BY <1>4, <1>1, <1>3 DEF RefreshProfile, repositoryVars, setupCounters
<1>5. CASE DeferRefresh
  BY <1>5, <1>1, <1>2, <1>3 DEF DeferRefresh, repositoryVars
<1>6. CASE ReviewSetupPull
  <2>1. /\ files' \in [Paths -> FileContents] /\ head' \in {head, head + 1}
    BY <1>6, <1>1 DEF ReviewSetupPull, FileContents
  <2> QED
    BY <1>6, <2>1, <1>1 DEF ReviewSetupPull, taskVars, setupCounters
<1>7. CASE MergeRepair
  <2>1. files' \in [Paths -> FileContents]
    BY <1>7, <1>1 DEF MergeRepair, FileContents
  <2> QED
    BY <1>7, <2>1, <1>1 DEF MergeRepair, taskVars, setupCounters
<1>8. CASE FixProfile
  <2>1. files' \in [Paths -> FileContents]
    BY <1>8, <1>1 DEF FixProfile, FileContents
  <2> QED
    BY <1>8, <2>1, <1>1 DEF FixProfile, taskVars, setupCounters
<1>9. CASE Disturb
  <2>1. files' \in [Paths -> FileContents] /\ head' \in {head, head + 1}
    BY <1>9, <1>1 DEF Disturb, FileContents
  <2>2. labels' \subseteq Labels /\ adeVersion' \in {adeVersion, adeVersion + 1}
    BY <1>9, <1>1 DEF Disturb
  <2> QED
    BY <1>9, <2>1, <2>2, <1>1, <1>2 DEF Disturb, taskVars
<1> QED
  BY <1>4, <1>5, <1>6, <1>7, <1>8, <1>9

(* The pull requests stay a list of pull requests. *)
LEMMA PullsAreListed ==
  ASSUME NEW p \in Seq(SetupPulls)
  PROVE  /\ \A pull \in SetupPulls : Append(p, pull) \in Seq(SetupPulls) /\ Len(Append(p, pull)) = Len(p) + 1
         /\ p # <<>> => Tail(p) \in Seq(SetupPulls) /\ Len(Tail(p)) = Len(p) - 1
         /\ Len(p) \in Nat /\ (Len(p) = 0 <=> p = <<>>)
<1>1. p # <<>> => Tail(p) \in Seq(SetupPulls) /\ Len(Tail(p)) = Len(p) - 1
  BY HeadTailProperties
<1>2. \A pull \in SetupPulls : Append(p, pull) \in Seq(SetupPulls) /\ Len(Append(p, pull)) = Len(p) + 1
  BY AppendProperties
<1>3. Len(p) \in Nat /\ (Len(p) = 0 <=> p = <<>>)
  BY LenProperties, EmptySeq
<1> QED
  BY <1>1, <1>2, <1>3

(* The types of the setup, part by part. *)
TypesOfParts ==
    /\ labels \subseteq Labels /\ files \in [Paths -> FileContents]
    /\ head \in Nat \ {0} /\ setupPulls \in Seq(SetupPulls) /\ repairOpen \in BOOLEAN
    /\ profileRow \in ProfileRows /\ initTask \in {"none", "pending", "running"}
    /\ initialization \in Initializations /\ request \in [SetupRequests -> Handlings]
    /\ adeVersion \in Nat \ {0} /\ versionKnown \in BOOLEAN /\ overlapped \in BOOLEAN
    /\ setupActs \in 0..MaxActs /\ setupFaults \in 0..MaxSetupFaults

LEMMA SetupTypeParts == SetupTypeOK <=> TypesOfParts
  BY DEF SetupTypeOK, TypesOfParts, FileContents, SetupPulls, ProfileRows, Initializations, Handlings

LEMMA SetupTypes ==
  ASSUME SetupTypeOK, [SetupNext]_setupVars
  PROVE  SetupTypeOK'
<1>0. SetupTypeOK <=> TypesOfParts
  BY SetupTypeParts
<1>1. SetupTypeOK' <=> TypesOfParts'
  BY DEF SetupTypeOK, TypesOfParts, FileContents, SetupPulls, ProfileRows, Initializations, Handlings
<1> USE DEF TypesOfParts
<1>2. ASSUME NEW r \in SetupRequests, Press(r) \/ Handler(r)
      PROVE  SetupTypeOK'
  <2>1. PICK h \in Handlings : request' = [request EXCEPT ![r] = h]
    BY <1>2, HandlerMoves
  <2>2. setupPulls' \in Seq(SetupPulls)
    <3>1. setupPulls \in Seq(SetupPulls)
      BY <1>0
    <3>2. \A pull \in SetupPulls : Append(setupPulls, pull) \in Seq(SetupPulls)
      BY <3>1, PullsAreListed
    <3>3. PullsAfter(r)
      BY <1>2, HandlerMoves
    <3> QED
      BY ONLY <3>1, <3>2, <3>3 DEF PullsAfter
  <2>3. /\ labels' \subseteq Labels /\ initTask' \in {"none", "pending", "running"}
        /\ setupActs' \in 0..MaxActs /\ setupFaults' \in 0..MaxSetupFaults /\ overlapped' \in BOOLEAN
        /\ UNCHANGED <<files, head, repairOpen, profileRow, initialization, adeVersion, versionKnown>>
    BY <1>2, HandlerMoves
  <2> QED
    BY <1>0, <1>1, <2>1, <2>2, <2>3
<1>3. ASSUME \/ Initialization \/ RefreshProfile \/ DeferRefresh
             \/ ReviewSetupPull \/ MergeRepair \/ FixProfile \/ Disturb
      PROVE  SetupTypeOK'
  <2>1. setupPulls' \in Seq(SetupPulls) /\ UNCHANGED <<request, overlapped>>
    BY <1>0, <1>3, OthersMove, PullsAreListed
  <2>2. CASE Initialization
    BY <1>0, <1>1, <2>1, <2>2, InitializationTypes
  <2>3. CASE ~Initialization
    BY <1>0, <1>1, <1>3, <2>1, <2>3, RepositoryTypes
  <2> QED
    BY <2>2, <2>3
<1>4. CASE UNCHANGED setupVars
  BY <1>0, <1>1, <1>4 DEF setupVars, repositoryVars, taskVars, setupCounters
<1> QED
  BY <1>2, <1>3, <1>4 DEF SetupNext

(* A setup request adds a pull request only where none is open: it has      *)
(* looked for one, and since then nobody but itself opened one.             *)
LEMMA SetupStep ==
  ASSUME SetupInv, [SetupNext]_setupVars
  PROVE  SetupInv'
<1> USE DEF SetupInv
<1>0. /\ request \in [SetupRequests -> Handlings] /\ setupPulls \in Seq(SetupPulls)
      /\ overlapped \in BOOLEAN
  BY DEF SetupTypeOK, Handlings, SetupPulls
<1>1. SetupTypeOK'
  BY SetupTypes
<1>2. ASSUME NEW r \in SetupRequests, Press(r) \/ Handler(r), ~overlapped'
      PROVE  OneAtATime' /\ CreatesTheFirst' /\ OneSetupPullRequest'
  <2>1. PICK h \in Handlings :
          /\ request' = [request EXCEPT ![r] = h]
          /\ h.at = "creating" => request[r].at = "looking" /\ setupPulls = <<>>
    BY <1>2, HandlerMoves
  <2>2. /\ Handler(r) => request[r].at # "idle" /\ UNCHANGED overlapped
        /\ Press(r) => InFlightRequests = {} /\ UNCHANGED overlapped
        /\ PullsAfter(r)
    BY <1>2, HandlerMoves
  <2>3. ~overlapped
    BY <1>2, <2>2
  <2>4. \A q \in SetupRequests \ {r} : request[q].at = "idle" /\ request'[q].at = "idle"
    BY <1>0, <1>2, <2>1, <2>2, <2>3 DEF OneAtATime, InFlightRequests
  <2>5. OneAtATime'
    BY <2>4 DEF OneAtATime
  <2>6. CASE request[r].at = "creating"
    <3>1. setupPulls = <<>> /\ h.at # "creating"
      BY <2>1, <2>3, <2>6 DEF CreatesTheFirst
    <3>2. CreatesTheFirst'
      BY <1>0, <2>1, <2>4, <3>1 DEF CreatesTheFirst
    <3>3. Len(setupPulls') <= 1
      <4>1. Len(setupPulls) = 0
        BY <1>0, <3>1, PullsAreListed
      <4>2. \A pull \in SetupPulls : Len(Append(setupPulls, pull)) = Len(setupPulls) + 1
        BY <1>0, PullsAreListed
      <4>3. CASE UNCHANGED setupPulls
        BY <4>1, <4>3
      <4>4. ASSUME NEW pull \in SetupPulls, setupPulls' = Append(setupPulls, pull)
            PROVE  Len(setupPulls') <= 1
        <5>1. Len(Append(setupPulls, pull)) = 1
          BY <4>1, <4>2
        <5> QED
          BY <4>4, <5>1
      <4> QED
        BY <2>2, <4>3, <4>4 DEF PullsAfter
    <3> QED
      BY <2>5, <3>2, <3>3 DEF OneSetupPullRequest
  <2>7. CASE request[r].at # "creating"
    <3>1. UNCHANGED setupPulls
      BY <2>2, <2>7 DEF PullsAfter
    <3> QED
      BY <1>0, <2>1, <2>3, <2>4, <2>5, <3>1 DEF CreatesTheFirst, OneSetupPullRequest
  <2> QED
    BY <2>6, <2>7
<1>3. ASSUME overlapped'
      PROVE  OneAtATime' /\ CreatesTheFirst' /\ OneSetupPullRequest'
  BY <1>3 DEF OneAtATime, CreatesTheFirst, OneSetupPullRequest
<1>4. ASSUME UNCHANGED <<request, overlapped>>,
             setupPulls' = setupPulls \/ (setupPulls # <<>> /\ setupPulls' = Tail(setupPulls))
      PROVE  OneAtATime' /\ CreatesTheFirst' /\ OneSetupPullRequest'
  <2>1. OneAtATime'
    BY <1>4 DEF OneAtATime
  <2>2. CreatesTheFirst'
    BY <1>4 DEF CreatesTheFirst
  <2>3. OneSetupPullRequest'
    BY <1>0, <1>4, PullsAreListed DEF OneSetupPullRequest
  <2> QED
    BY <2>1, <2>2, <2>3
<1>5. ASSUME UNCHANGED setupVars
      PROVE  UNCHANGED <<request, overlapped, setupPulls>>
  BY <1>5 DEF setupVars, repositoryVars, setupCounters
<1> QED
  BY <1>1, <1>2, <1>3, <1>4, <1>5, OthersMove DEF SetupNext

LEMMA SetupInvariance == SetupSpec => []SetupInv
<1>1. SetupInit => SetupInv
  <2> SUFFICES ASSUME SetupInit PROVE SetupInv
    OBVIOUS
  <2>1. SetupTypeOK
    <3>1. files \in [Paths -> {"missing", "invalid", "present"}]
      <4>1. PICK present \in StartingContents :
               files = [p \in Paths |-> IF p \in present THEN "present" ELSE "missing"]
        BY DEF SetupInit
      <4> QED
        BY <4>1
    <3>2. request \in [SetupRequests -> Handlings]
      BY DEF SetupInit, Handlings, Quiet
    <3>3. setupPulls \in Seq(SetupPulls)
      BY EmptySeq DEF SetupInit
    <3>4. profileRow \in ProfileRows /\ initialization \in Initializations
      BY DEF SetupInit, ProfileRows, Initializations, NoRow, NoCheckout
    <3>5. /\ labels \subseteq Labels /\ head \in Nat \ {0} /\ repairOpen \in BOOLEAN
          /\ initTask \in {"none", "pending", "running"} /\ adeVersion \in Nat \ {0}
          /\ versionKnown \in BOOLEAN /\ overlapped \in BOOLEAN
          /\ setupActs \in 0..MaxActs /\ setupFaults \in 0..MaxSetupFaults
      <4>1. versionKnown \in BOOLEAN
        BY DEF SetupInit
      <4>2. labels = {} /\ head = 1 /\ repairOpen = FALSE /\ initTask = "none" /\ adeVersion = 1
        BY DEF SetupInit
      <4>3. overlapped = FALSE /\ setupActs = 0 /\ setupFaults = 0
        BY DEF SetupInit
      <4>4. 0 \in 0..MaxActs /\ 0 \in 0..MaxSetupFaults /\ 1 \in Nat \ {0}
        BY SetupAssumption
      <4>5. {} \subseteq Labels /\ FALSE \in BOOLEAN
        OBVIOUS
      <4> QED
        BY ONLY <4>1, <4>2, <4>3, <4>4, <4>5, ZenonT(30)
    <3> QED
      BY <3>1, <3>2, <3>3, <3>4, <3>5, SetupTypeParts DEF TypesOfParts, FileContents
  <2>2. \A r \in SetupRequests : request[r].at = "idle"
    BY DEF SetupInit, Quiet
  <2>3. Len(setupPulls) <= 1
    BY DEF SetupInit
  <2> QED
    BY <2>1, <2>2, <2>3 DEF SetupInv, OneAtATime, CreatesTheFirst, OneSetupPullRequest
<1>2. SetupInv /\ [SetupNext]_setupVars => SetupInv'
  BY SetupStep
<1> QED
  BY <1>1, <1>2, PTL DEF SetupSpec

(* The types of the repository, the proof and the handlers. *)
THEOREM SetupTypesHold == SetupSpec => []SetupTypeOK
<1>1. SetupInv => SetupTypeOK
  BY DEF SetupInv
<1> QED
  BY <1>1, SetupInvariance, PTL

(* prepareProjectSetup: whatever fails, is repeated or loses its answer, a  *)
(* reviewer is asked once, unless two requests overlapped.                  *)
THEOREM ReviewersAreAskedOnce == SetupSpec => []OneSetupPullRequest
<1>1. SetupInv => OneSetupPullRequest
  BY DEF SetupInv
<1> QED
  BY <1>1, SetupInvariance, PTL
=============================================================================
