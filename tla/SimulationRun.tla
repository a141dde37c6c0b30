--------------------------- MODULE SimulationRun ---------------------------
(****************************************************************************)
(* Run of core/simulation/runner.go: rounds played one after the other and  *)
(* handed to an observer, under a context another goroutine may cancel.     *)
(*                                                                          *)
(* The engine and the observer are the caller's: each call returns a result *)
(* of Results, or an error.  The nil arguments, which Run refuses before    *)
(* anything else, are left out.                                             *)
(****************************************************************************)
EXTENDS Integers, Sequences

CONSTANTS Results, None,
          RoundCounts      \* the numbers of rounds a caller may ask for

ASSUME RunAssumption == RoundCounts \subseteq Nat /\ None \notin Results

VARIABLES rounds,     \* the number asked for
          cancelled,  \* ctx.Err() # nil
          pc,         \* what Run does next
          round,      \* zero-based, as the observer is told
          result,     \* what Play returned, None before
          error,      \* what Run returned, "nil" until then
          observed,   \* history: the rounds the observer accepted, in order
          late        \* history: those accepted once the context was cancelled

vars == <<rounds, cancelled, pc, round, result, error, observed, late>>

Init ==
    /\ rounds \in RoundCounts /\ cancelled \in BOOLEAN
    /\ pc = "check" /\ round = 0 /\ result = None
    /\ error = "nil" /\ observed = <<>> /\ late = 0

Return(e) == pc' = "returned" /\ error' = e

\* Another goroutine, or the deadline.
Cancel ==
    /\ ~cancelled /\ cancelled' = TRUE
    /\ UNCHANGED <<rounds, pc, round, result, error, observed, late>>

\* Mutation: the context is asked before the loop condition.
CompletedUnlessCancelled ==
    /\ pc = "check" /\ round = rounds
    /\ Return(IF cancelled THEN "context" ELSE "nil")
    /\ UNCHANGED <<rounds, cancelled, round, result, observed, late>>

Completed ==
    /\ pc = "check" /\ round = rounds
    /\ Return("nil")
    /\ UNCHANGED <<rounds, cancelled, round, result, observed, late>>

ContextError ==
    /\ pc = "check" /\ round < rounds /\ cancelled
    /\ Return("context")
    /\ UNCHANGED <<rounds, cancelled, round, result, observed, late>>

\* Mutation: the context is looked at before the first round only.
StartRoundRegardless ==
    /\ pc = "check" /\ round < rounds /\ (round = 0 => ~cancelled)
    /\ pc' = "play"
    /\ UNCHANGED <<rounds, cancelled, round, result, error, observed, late>>

StartRound ==
    /\ pc = "check" /\ round < rounds /\ ~cancelled
    /\ pc' = "play"
    /\ UNCHANGED <<rounds, cancelled, round, result, error, observed, late>>

Played(r) ==
    /\ pc = "play"
    /\ result' = r /\ pc' = "observe"
    /\ UNCHANGED <<rounds, cancelled, round, error, observed, late>>

Play == \E r \in Results : Played(r)

\* Mutation: a failed round is tried again.
EngineErrorRetried ==
    /\ pc = "play"
    /\ pc' = "check"
    /\ UNCHANGED <<rounds, cancelled, round, result, error, observed, late>>

EngineError ==
    /\ pc = "play"
    /\ Return("engine")
    /\ UNCHANGED <<rounds, cancelled, round, result, observed, late>>

Observe ==
    /\ pc = "observe"
    /\ observed' = Append(observed, [round |-> round, result |-> result])
    /\ late' = IF cancelled THEN late + 1 ELSE late
    /\ round' = round + 1 /\ result' = None /\ pc' = "check"
    /\ UNCHANGED <<rounds, cancelled, error>>

ObserverError ==
    /\ pc = "observe"
    /\ Return("observer")
    /\ UNCHANGED <<rounds, cancelled, round, result, observed, late>>

Step ==
    \/ Completed \/ ContextError \/ StartRound \/ Play \/ EngineError
    \/ Observe \/ ObserverError

Next == Step \/ Cancel

\* Run, once called, goes on; nothing makes anybody cancel.
Spec == Init /\ [][Next]_vars /\ WF_vars(Step)

------------------------------------------------------------------------------
(* Properties.                                                               *)

\* The observer sees rounds 0, 1, 2, ... without a gap or a repetition, and all
\* that were asked for exactly when Run returns no error.
ObservedInOrder ==
    /\ \A i \in DOMAIN observed : observed[i].round = i - 1
    /\ pc = "returned" => (error = "nil" <=> Len(observed) = rounds)

\* A cancelled run finishes the round it is in and no other.
CancelStopsTheRun == late <= 1

\* Run returns, cancelled or not.
Returns == <>(pc = "returned")
==============================================================================
