---------------------------- MODULE WebhookRouting ----------------------------
(* What a delivery of GitHub's webhook asks of the control plane: it is       *)
(* verified, cut down to the fields that route it, searched for a directive   *)
(* and checked against the policy (packages/github: signature, events,        *)
(* commandParser, authorization).  All of it is a function of what arrived.   *)
(*                                                                            *)
(* A comment is a sequence of lines.  A line is text, a quotation, the mark   *)
(* of a code fence or a directive, which is @ade with a verb; emphasis and    *)
(* white space around it are left out, and so are lines the scan passes over  *)
(* for their length.                                                          *)
EXTENDS Naturals, Sequences, FiniteSets

CONSTANTS
    Deliveries,     \* GitHub delivery identifiers
    Event,          \* what arrived under each of them
    Policy,         \* the senders and installations that are allow-listed
    MaxScannedLines,\* MAX_SCANNED_LINES of the parser
    None

Names == {"issue_comment", "issues", "pull_request"}
Verbs == {"status", "pause", "resume", "retry", "priority", "decide"}
Fields == {"action", "repository", "sender", "issue", "pull_request", "comment"}

\* The parts of a line: only a directive has a verb and arguments.
IsLine(line) ==
    /\ line.kind \in {"text", "quotation", "fence", "directive"}
    /\ line.kind = "directive" => line.valid \in BOOLEAN

\* A delivery: whether its signature matches the body, the event it names,
\* the fields of the payload that are there and valid, and what they say.
IsEvent(e) ==
    /\ e.signed \in BOOLEAN /\ e.fields \subseteq Fields
    /\ e.mapped \in BOOLEAN /\ e.created \in BOOLEAN /\ e.onPullRequest \in BOOLEAN
    /\ e.bot \in BOOLEAN
    /\ DOMAIN e.lines = 1..Len(e.lines)
    /\ \A k \in DOMAIN e.lines : IsLine(e.lines[k])

ASSUME RoutingAssumption ==
    /\ MaxScannedLines \in Nat
    /\ DOMAIN Event = Deliveries /\ \A d \in Deliveries : IsEvent(Event[d])

-----------------------------------------------------------------------------
(* Verification, before anything is written.                               *)

\* What the signature is compared for, and the events that are subscribed to.
Verified(e) == e.signed /\ e.name \in Names

\* A pull request event carries one, and a comment event its comment.
Normalized(e) ==
    /\ {"action", "repository", "sender"} \subseteq e.fields
    /\ e.name = "pull_request" => "pull_request" \in e.fields
    /\ e.name = "issue_comment" => "comment" \in e.fields

\* Comments on pull requests are delivered as comments on an issue.
Subject(e) ==
    IF e.name = "pull_request" THEN "pull_request"
    ELSE IF "issue" \notin e.fields THEN "none"
    ELSE IF e.onPullRequest THEN "pull_request" ELSE "issue"

Accepted(d) == Verified(Event[d]) /\ Normalized(Event[d])

-----------------------------------------------------------------------------
(* The directive of a comment.                                             *)

\* A fence opens and closes a block of code, which is passed over.
Fenced(lines, k) == Cardinality({j \in 1..(k - 1) : lines[j].kind = "fence"}) % 2 = 1

Directives(lines) ==
    {k \in DOMAIN lines : /\ k <= MaxScannedLines
                          /\ lines[k].kind = "directive" /\ ~Fenced(lines, k)}

\* The first of them is the command: those after it are not read.
Directive(lines) ==
    lines[CHOOSE k \in Directives(lines) : \A j \in Directives(lines) : k <= j]

\* Only new comments carry commands, on an issue or a pull request.
HasDirective(e) ==
    /\ e.name = "issue_comment" /\ e.created /\ Subject(e) # "none"
    /\ Directives(e.lines) # {}

\* A verb outside the vocabulary, a priority out of range or a reference that
\* is none is refused.
Understood(line) ==
    line.verb \in Verbs /\ (line.verb \in {"priority", "decide"} => line.valid)

-----------------------------------------------------------------------------
(* Authorization.                                                          *)

IsMutating(verb) == verb # "status"

\* Without a list of installations every installation is accepted.
AuthorizedInstallation(e) ==
    Policy.installations = {} \/ e.installation \in Policy.installations

AuthorizedActor(e, verb) ==
    /\ ~e.bot /\ e.sender \in Policy.actors
    /\ IsMutating(verb) => e.sender \in Policy.mutators

-----------------------------------------------------------------------------
(* What a delivery is, for the handler that routes it.                     *)

\* Commands that are read are queries or change something.
KindOfDirective(line) ==
    IF ~Understood(line) THEN "unreadable"
    ELSE IF IsMutating(line.verb) THEN "command" ELSE "status"

\* The project is found by the repository's numeric identity alone; the
\* readers of work and the App's credentials are configured.
Kind(e) ==
    IF ~e.mapped THEN "nothing"
    ELSE IF e.name = "pull_request" \/ (e.name = "issues" /\ Subject(e) = "issue") THEN "issues"
    ELSE IF HasDirective(e) THEN KindOfDirective(Directive(e.lines))
    ELSE "nothing"

Admitted(e) ==
    /\ AuthorizedInstallation(e)
    /\ Kind(e) # "unreadable"
    /\ Kind(e) \in {"status", "command"} => AuthorizedActor(e, Directive(e.lines).verb)

\* The control command a directive stands for.
CommandType(verb) ==
    CASE verb = "pause" -> "project.pause"
      [] verb = "resume" -> "project.resume"
      [] verb = "priority" -> "project.reprioritize"
      [] verb = "decide" -> "ade.decide"
      [] verb = "retry" -> "execution.safe-retry"

\* Its idempotency key is made of the comment and the type, and a comment
\* has one directive.
CommandOf(e) ==
    LET line == Directive(e.lines)
    IN [key |-> e.comment, type |-> CommandType(line.verb),
        option |-> IF line.verb = "decide" THEN line.option ELSE None]

Delivery ==
    [d \in Deliveries |->
       [kind |-> Kind(Event[d]), admitted |-> Admitted(Event[d]),
        command |-> IF Kind(Event[d]) = "command" THEN CommandOf(Event[d]) ELSE None]]
=============================================================================
