-------------------------- MODULE MCTaskOrchestrator --------------------------
(***************************************************************************)
(* One call of execute() on plans of up to three steps, with every answer  *)
(* of the servers, a cancellation and faults of the RT side and an e-stop  *)
(* at any moment.                                                          *)
(***************************************************************************)
EXTENDS TaskOrchestrator

CONSTANT t1

MCTask      == {t1}
MCMaxSteps  == 3
MCGraphs    == { <<"Navigate">>, <<"Navigate", "Manipulate">>,
                 <<"Manipulate", "Navigate", "Manipulate">> }
MCEnvFaults == { <<"Ok", "">>, <<"Degraded", "">>,
                 <<"Fault", "RT_LOOP_ERROR">>, <<"Estop", "">> }

===============================================================================
