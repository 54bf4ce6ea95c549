SPECIFICATION Spec
CONSTANTS
    Width = 5
    Ms = {0, 1, 3, 30}
    Limit = 6
    Checked = FALSE
INVARIANT DocumentedSchedule
CHECK_DEADLOCK FALSE
