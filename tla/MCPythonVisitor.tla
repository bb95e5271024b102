--------------------------- MODULE MCPythonVisitor ---------------------------
(* Instance of PythonVisitor: one worker thread and two tasks; the second      *)
(* visitor is one that Stripe's metadata must not hold.                        *)
EXTENDS PythonVisitor

CONSTANTS t1, k1, k2, v1, v2, none

MCThreads  == {t1}
MCTasks    == {k1, k2}
MCVisitors == {v1, v2}
MCStripe   == {v1}

Input(header, rawCookie, cookie) ==
  [header |-> header, rawCookie |-> rawCookie, cookie |-> cookie]

\* No visitor, the header alone, the header against a cookie, a cookie that is blank
\* first, and parsed differently.
MCInputs ==
  { Input(none, <<>>, none), Input(v1, <<>>, none), Input(v1, <<v2>>, v2),
    Input(none, <<none, v2>>, v1) }
=============================================================================
