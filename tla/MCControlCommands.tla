--------------------------- MODULE MCControlCommands ---------------------------
(* Instances of ControlCommands for TLC: the commands operators and comments *)
(* bring, and the deliveries GitHub makes of them.                           *)
EXTENDS ControlCommands, TLC

CONSTANTS r1, r2, r3

MCRequests == {r1, r2, r3}
Symmetry == Permutations(MCRequests)

Of(key, type) == [key |-> key, type |-> type, option |-> None]
Answer(key, option) == [key |-> key, type |-> "ade.decide", option |-> option]

\* Nothing reads the audit records and the wake-ups.
Seen == <<commands, deliveries, control, pc, job, history, faults>>

MCOptions == {"resume", "wait"}
OperatorCommands ==
    {Answer("a1", "resume"), Of("a2", "execution.cancel")}

\* Comments, in the lines that matter to the scan.
Text == [kind |-> "text"]
Quotation == [kind |-> "quotation"]
Fence == [kind |-> "fence"]
Asks(verb, option) == [kind |-> "directive", verb |-> verb, valid |-> TRUE, option |-> option]

Comment(id, sender, lines) ==
    [signed |-> TRUE, name |-> "issue_comment", fields |-> Fields, mapped |-> TRUE,
     created |-> TRUE, onPullRequest |-> FALSE, installation |-> "ours", sender |-> sender,
     bot |-> FALSE, comment |-> id, lines |-> lines]

\* A comment delivered twice, which quotes one command, shows another one in a
\* code block and gives its own after them; a comment that answers the
\* decision; an issue that changed; a comment of a stranger; a delivery with a
\* signature that does not match.
MCPolicy == [actors |-> {"operator"}, mutators |-> {"operator"}, installations |-> {"ours"}]
Pause == Comment("c1", "operator",
    <<Quotation, Fence, Asks("resume", None), Fence, Text, Asks("pause", None),
      Asks("decide", "resume")>>)
Wait == Comment("c2", "operator", <<Asks("decide", "wait")>>)
Stranger == Comment("c3", "stranger", <<Asks("decide", "wait")>>)
MCDeliveries == {"d1", "d2", "d3", "d4", "d5", "d6"}
MCEvent ==
    [d1 |-> Pause, d2 |-> Pause, d3 |-> Wait,
     d4 |-> [Pause EXCEPT !.name = "issues", !.lines = <<>>],
     d5 |-> Stranger,
     d6 |-> [Pause EXCEPT !.signed = FALSE]]
=============================================================================
