SPECIFICATION Spec
CONSTANTS
    Cards = {card1}
    Rents = {rent1}
    Forms = {form1, form2}
    Payments = {pay1, pay2}
    Calls = {call1}
    NoForm = NoForm
    Faults = TRUE
SYMMETRY Symmetry
INVARIANTS TypeOK SettledWhenDone ClearedNeedsLog LoggedOnce SettledIsNotCharged
CHECK_DEADLOCK FALSE
