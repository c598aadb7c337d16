SPECIFICATION DeskFairSpec
CONSTANTS
    Cards = {card1}
    Rents = {rent1}
    Forms = {form1}
    Payments = {pay1}
    Calls = {call1}
    NoForm = NoForm
    Faults = TRUE
    Desks = {desk1}
    TilePays = {tile1}
INVARIANTS NoButtonMeansSettled ZeroHasReceipt
PROPERTY CapturedIsSettled
CHECK_DEADLOCK FALSE
