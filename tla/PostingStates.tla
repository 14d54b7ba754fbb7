--------------------------- MODULE PostingStates ---------------------------
(***************************************************************************)
(* The states of a posting session and the moves between them              *)
(* (posting/states.ts).  "none" stands for a session that does not exist.  *)
(***************************************************************************)

Terminal == {"published", "failed_terminal", "expired"}

Active == {"created", "indexing_context", "generating", "validating",
           "repairing", "awaiting_decision", "revising"}

PostingState == Terminal \cup Active \cup {"scheduled"}

\* VALID_TRANSITIONS.
ValidTransitions ==
    [created           |-> {"indexing_context", "failed_terminal"},
     indexing_context  |-> {"generating", "failed_terminal"},
     generating        |-> {"validating", "repairing", "failed_terminal"},
     validating        |-> {"awaiting_decision", "repairing", "failed_terminal"},
     repairing         |-> {"generating", "validating", "awaiting_decision",
                            "failed_terminal"},
     awaiting_decision |-> {"revising", "scheduled", "failed_terminal", "expired"},
     revising          |-> {"validating", "awaiting_decision", "failed_terminal"},
     scheduled         |-> {"published", "failed_terminal", "expired"},
     published         |-> {},
     failed_terminal   |-> {},
     expired           |-> {}]

CanTransition(from, to) ==
    from \in PostingState /\ to \in ValidTransitions[from]
=============================================================================
