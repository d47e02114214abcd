--------------------------- MODULE DeliveryPipeline ---------------------------
(* The delivery gates as packages/core states them: "an agent may implement  *)
(* the work, but only ADE gates can move it towards a pull request".  No     *)
(* production path calls these functions; DeliveryStages shows that the      *)
(* runtime which replaced them still goes through the same gates.            *)
EXTENDS Naturals

CONSTANT Limits         \* createAdeDeliveryPipeline takes 1..3; the runtime's plans amount to 0..4

VARIABLES
    stage, reviewAttempt,
    maxReviewAttempts       \* the corrections that are allowed

pipeline == <<stage, reviewAttempt, maxReviewAttempts>>

Stages == {"issue-enrichment", "ready-for-dev", "implementation",
           "deterministic-validation", "profile-reviews", "pr-ready", "human-merge",
           "blocked"}

\* createAdeDeliveryPipeline, for an issue or for a prompt.
Fresh == stage \in {"issue-enrichment", "implementation"} /\ reviewAttempt = 0

Init == Fresh /\ maxReviewAttempts \in Limits

Create ==
    /\ stage' \in {"issue-enrichment", "implementation"} /\ reviewAttempt' = 0
    /\ maxReviewAttempts' \in Limits

\* The events of nextAdeDeliveryStage, each leading from one stage to the next.
Transitions ==
    {<<"issue-enrichment", "ready-for-dev">>, <<"ready-for-dev", "implementation">>,
     <<"implementation", "deterministic-validation">>,
     <<"deterministic-validation", "profile-reviews">>,
     <<"profile-reviews", "pr-ready">>, <<"pr-ready", "human-merge">>}

Advance ==
    /\ <<stage, stage'>> \in Transitions
    /\ UNCHANGED <<reviewAttempt, maxReviewAttempts>>

CorrectionRequired ==
    /\ stage = "profile-reviews" /\ reviewAttempt' = reviewAttempt + 1
    /\ stage' = IF reviewAttempt' > maxReviewAttempts THEN "blocked" ELSE "implementation"
    /\ UNCHANGED maxReviewAttempts

Next == Create \/ Advance \/ CorrectionRequired
Spec == Init /\ [][Next]_pipeline
=============================================================================
