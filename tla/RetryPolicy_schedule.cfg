SPECIFICATION Spec
CONSTANTS
    Width = 5
    Ms = {0, 1, 3, 30}
    Limit = 6
    Checked = TRUE
INVARIANTS TypeOK DocumentedSchedule FullSchedule PanicsOnOverflow
CHECK_DEADLOCK FALSE
