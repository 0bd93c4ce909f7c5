SPECIFICATION SessionSpec
CONSTANTS
    Viewers = {own, x1, x2}
    Owner = own
    Nobody = Nobody
    Visits = {w1}
PROPERTIES HandoffCanBeTaken
\* A closed session leaves nothing to do.
CHECK_DEADLOCK FALSE
