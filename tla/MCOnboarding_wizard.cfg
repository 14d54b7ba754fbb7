SPECIFICATION Spec
CONSTANTS
    c1 = c1
    c2 = c2
    w1 = w1
    None = None
    Slots <- MCSlots
    Writers <- MCWriters
    NumQuestions = 2
    Required <- MCRequired
    Fields <- MCFields
    MaxSessions = 2
    MaxEvents = 7
INVARIANTS WizardInv FinalizedOnce AccountKeeps
SYMMETRY Symmetry
CHECK_DEADLOCK FALSE
