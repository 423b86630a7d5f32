SPECIFICATION Spec
CONSTANTS
    Uploads = {u1}
    Sources = {s1}
    RunIds = {k1, k2}
    BuildSlots = 1
    Faults = {"exit"}
    Resets = FALSE
PROPERTIES AcceptedRunHasEngine
CHECK_DEADLOCK FALSE
