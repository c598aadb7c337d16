SPECIFICATION ViewsSpec
CONSTANTS
    Cards = {card1}
    Rents = {rent1}
    Forms = {form1}
    Payments = {pay1}
    Calls = {call1}
    NoForm = NoForm
    Faults = TRUE
    Displays = {home1}
    Lists = {list1}
INVARIANTS ViewsTypeOK LeftOutIsSettled SettledHasReceipt ListIsSelection
CHECK_DEADLOCK FALSE
