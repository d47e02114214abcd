---------------------------- MODULE MCManualTasks -----------------------------
(* Two tasks of two projects; the second task is an initialization and its *)
(* project's checkout cannot be removed.  What a task leaves for its page  *)
(* is a part of its own: it shares no state with the tables, and each part *)
(* is checked while the other rests.                                       *)
EXTENDS ManualTasks, TaskHistory

CONSTANTS p1, p2

VARIABLE part

TwoTasks == {1, 2}
TwoProjects == {p1, p2}
OwnProject == [t \in Tasks |-> IF t = 1 THEN p1 ELSE p2]
SecondOnly == {2}
SecondProject == {p2}

allVars == <<vars, historyOfTask, part>>

MCInit ==
    /\ Init /\ HistoryInit
    /\ \/ part = "tasks" /\ source = "prompt"
       \/ part = "history"

TasksNext == part = "tasks" /\ Next /\ UNCHANGED <<historyOfTask, part>>
TheHistoryNext == part = "history" /\ HistoryNext /\ UNCHANGED <<vars, part>>
TasksWorker == part = "tasks" /\ Worker /\ UNCHANGED <<historyOfTask, part>>

MCSpec == MCInit /\ [][TasksNext \/ TheHistoryNext]_allVars /\ WF_allVars(TasksWorker)
=============================================================================
