SPECIFICATION FairSpec
CONSTANTS
    Cards = {card1}
    Rents = {rent1}
    Forms = {form1}
    Payments = {pay1}
    Calls = {call1, call2}
    NoForm = NoForm
    Faults = FALSE
PROPERTY ChargeIsOutstanding
CHECK_DEADLOCK FALSE
