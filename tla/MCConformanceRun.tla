--------------------------- MODULE MCConformanceRun --------------------------
(* Two languages and two fixtures, one of which excuses the second language.   *)
EXTENDS ConformanceRun

MCLanguages    == <<"go", "php">>
MCFixtures     == {"success", "cancel"}
MCInapplicable == [f \in MCFixtures |-> IF f = "cancel" THEN {"php"} ELSE {}]

Record(id, status) == [id |-> id, status |-> status]
MCLines == { <<Record("success", "passed")>>, <<Record("cancel", "not_applicable")>>,
             <<Record("cancel", "passed"), Record("unknown", "passed")>> }
=============================================================================
