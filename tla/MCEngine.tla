------------------------------- MODULE MCEngine -------------------------------
(***************************************************************************)
(* Two parts of the server that share no state, checked side by side: the  *)
(* job engine, and the journals of the runs.  A behaviour is one of one    *)
(* part, the other rests.                                                  *)
(***************************************************************************)
EXTENDS IndexingEngine, TelemetryLog

VARIABLE part

\* Two documents whose ids differ in a character that a file name cannot have.
MCDirectory == [d \in Reported |-> "report_1"]

PartsInit == part \in {"engine", "log"} /\ Init /\ LogInit

EngineActs == part = "engine" /\ Next /\ UNCHANGED <<part, logVars>>
LogActs == part = "log" /\ LogNext /\ UNCHANGED <<part, vars>>

PartsNext == EngineActs \/ LogActs

PartsSpec == PartsInit /\ [][PartsNext]_<<part, vars, logVars>>
=============================================================================
