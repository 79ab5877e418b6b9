---- MODULE MCExecuteEngine ----
EXTENDS ExecuteEngine

\* The domain "api" with a name under it, and a host outside of each allowlist;
\* an input, and more step ids than a pipeline may have steps.
CONSTANTS api, sub, other, k, a, b, c

Under == {<<api, api>>, <<sub, api>>, <<other, other>>}

Shape(hosts, web, refs, loose) ==
    [id : Ids, host : hosts, web : web, refs : refs, loose : loose]

\* A step uses nothing, an input, or a step that may be itself or a later one.
StepShapes ==
    Shape({sub, other}, {TRUE},
          {{}, {<<"in", k>>}, {<<"step", a>>}, {<<"step", b>>}}, {{}})

Pipelines ==
    [mode : {"steps"}, form : {{k}}, domains : {{api}},
     requests : UNION {[1..n -> StepShapes] : n \in 1..(MaxSteps + 1)},
     template : {{}, {<<"step", a>>}}, exprs : {FALSE}]

\* A single request may be of any scheme, and name a step that does not exist.
Singles ==
    [mode : {"single"}, form : SUBSET {k}, domains : {{api}, {}},
     requests : [1..1 -> Shape({api, other, NoHost}, BOOLEAN,
                               {{}, {<<"in", k>>}, {<<"step", b>>}},
                               {{}, {<<"in", k>>}})],
     template : {{}, {<<"in", k>>}}, exprs : BOOLEAN]

Computations ==
    [mode : {"compute"}, form : SUBSET {k}, domains : {{}}, requests : {<<>>},
     template : SUBSET {<<"in", k>>, <<"step", a>>}, exprs : BOOLEAN]

Submitted == Pipelines \cup Singles \cup Computations
====
