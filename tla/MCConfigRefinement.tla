-------------------------- MODULE MCConfigRefinement --------------------------
(* The run that checks ConfigSession against ConfigStore. *)
EXTENDS MCConfigSession, ConfigRefinement

\* Its answers, files and commands are within what the program can implement.
ASSUME MCAssumption == NoSslAsked /\ OneProfileFiles /\ NoBrowserSet
===============================================================================
