--------------------------- MODULE MCExecuteSession ---------------------------
(* ExecuteSession with threads, sessions and ids that are interchangeable, *)
(* and a bound on the gates of all the sessions together.                  *)
EXTENDS ExecuteSession, FiniteSetsExt, TLC

CONSTANT MaxGates

FewGates == MapThenSumSet(LAMBDA s : Len(gates[s]), Sessions) <= MaxGates
MCSymmetry == Permutations(Threads) \cup Permutations(Sessions) \cup Permutations(GateIds)
===============================================================================
