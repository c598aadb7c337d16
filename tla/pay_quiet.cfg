SPECIFICATION QuietSpec
CONSTANTS
    Cards = {card1, card2}
    Rents = {rent1}
    Forms = {form1, form2}
    Payments = {pay1, pay2}
    Calls = {call1}
    NoForm = NoForm
    Faults = FALSE
PROPERTY ImplementsDues
CHECK_DEADLOCK FALSE
