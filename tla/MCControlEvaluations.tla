-------------------------- MODULE MCControlEvaluations --------------------------
(* ControlEvaluations for TLC: two finished runs and one that was left open.    *)
EXTENDS ControlEvaluations

CONSTANTS rule1, rule2

Event(type, consequential, use) ==
    [type |-> type, consequential |-> consequential, use |-> use, child |-> FALSE]
Start(child) == [Event("run_start", FALSE, 0) EXCEPT !.child = child]
End == Event("run_end", FALSE, 0)

FromZero(events) == [s \in 0..(Len(events) - 1) |-> events[s + 1]]

Answered == FromZero(<<Start(TRUE), Event("tool_call", TRUE, 1), Event("tool_result", FALSE, 1), End>>)
Shared   == FromZero(<<Start(FALSE), Event("tool_call", TRUE, 1), Event("tool_call", TRUE, 1),
                       Event("tool_result", FALSE, 1), End>>)
Open     == FromZero(<<Start(FALSE), Event("human_approval", FALSE, 0),
                       Event("tool_call", TRUE, 0)>>)

MCRuns == {Answered, Shared, Open}
================================================================================
