------------------------------ MODULE Tensorlib ------------------------------
(***************************************************************************)
(* The parts of the library that share no state: a program uses one of      *)
(* them, in any way it likes.                                               *)
(***************************************************************************)
EXTENDS Matrices, Binomials, References, LoggerLife, NeuralNet

VARIABLE part

Parts == {"matrices", "binomials", "references", "logger", "network"}
vars == <<matrixVars, binomialVars, refVars, logVars, netVars, part>>

Init ==
  /\ MatricesInit /\ BinomialsInit /\ ReferencesInit /\ LoggerInit /\ NetInit
  /\ part \in Parts

Next ==
  /\ UNCHANGED part
  /\ \/ part = "matrices" /\ MatricesNext /\ UNCHANGED <<binomialVars, refVars, logVars, netVars>>
     \/ part = "binomials" /\ BinomialsNext /\ UNCHANGED <<matrixVars, refVars, logVars, netVars>>
     \/ part = "references" /\ ReferencesNext /\ UNCHANGED <<matrixVars, binomialVars, logVars, netVars>>
     \/ part = "logger" /\ LoggerNext /\ UNCHANGED <<matrixVars, binomialVars, refVars, netVars>>
     \/ part = "network" /\ NetNext /\ UNCHANGED <<matrixVars, binomialVars, refVars, logVars>>

Spec == Init /\ [][Next]_vars
=============================================================================
