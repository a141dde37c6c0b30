------------------------------ MODULE SlotState ------------------------------
(****************************************************************************)
(* The spin lifecycle of core/slot/state.go: the states of a               *)
(* slot.StateMachine and the table its Transition method consults.          *)
(****************************************************************************)

States == {"IDLE", "SPINNING", "EVALUATING", "CASCADING", "FEATURE_TRIGGER",
           "FREE_SPINS", "SETTLING", "COMPLETED"}

\* Mutation: a table that does not let a round end from an evaluated grid.
LegalTransitionsNoDirectSettle == [s \in States |->
    CASE s = "IDLE"            -> {"SPINNING"}
      [] s = "SPINNING"        -> {"EVALUATING"}
      [] s \in {"EVALUATING", "CASCADING"} ->
            {"EVALUATING", "CASCADING", "FEATURE_TRIGGER", "FREE_SPINS"} \ {s}
      [] s = "FEATURE_TRIGGER" -> {"FREE_SPINS", "SETTLING"}
      [] s = "FREE_SPINS"      -> {"SPINNING", "SETTLING"}
      [] s = "SETTLING"        -> {"COMPLETED"}
      [] s = "COMPLETED"       -> {}]

(* legalTransitions: a state without an entry allows nothing.                *)
LegalTransitions == [s \in States |->
    CASE s = "IDLE"            -> {"SPINNING"}
      [] s = "SPINNING"        -> {"EVALUATING"}
      [] s \in {"EVALUATING", "CASCADING"} ->
            {"EVALUATING", "CASCADING", "FEATURE_TRIGGER", "FREE_SPINS",
             "SETTLING"} \ {s}
      [] s = "FEATURE_TRIGGER" -> {"FREE_SPINS", "SETTLING"}
      [] s = "FREE_SPINS"      -> {"SPINNING", "SETTLING"}
      [] s = "SETTLING"        -> {"COMPLETED"}
      [] s = "COMPLETED"       -> {}]
==============================================================================
