------------------------ MODULE MCHarnessEntrypoint ------------------------
(* An instance of HarnessEntrypoint for TLC: two pieces of standing text    *)
(* and a skill, or none, in every kind of run.                              *)
EXTENDS HarnessEntrypoint

AllRuns ==
    [repo : BOOLEAN, ships : BOOLEAN,
     text : {<<>>, <<"prompt", "instructions">>},
     skills : {<<>>, <<"heading", "body">>},
     batch : BOOLEAN, restartPolicy : {"Never", "OnFailure"}]
=============================================================================
