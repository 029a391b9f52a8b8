-------------------------- MODULE MCScenarioIngestion --------------------------
(* Small instances of ScenarioIngestion for TLC. *)
EXTENDS ScenarioIngestion, TLC

\* Slots and handles are interchangeable.  Only the safety run uses it:
\* symmetry reduction is not sound for liveness.
Symmetry == Permutations(Slot) \union Permutations(Handle)

\* Safety holds of every behaviour, fair or not.
SafetySpec == Init /\ [][Next]_vars
=============================================================================
