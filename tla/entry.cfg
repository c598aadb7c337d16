SPECIFICATION FairSpec
CONSTANTS
    CardForms = {card1}
    RentForms = {rent1}
    Entries = {text1}
    Dates = {march, april}
    CardDate = fixed
    Submits = {tap1, tap2}
    EmptyText = EmptyText
    None = None
INVARIANTS TypeOK ListShowsSubmitted DueDateIsShown
PROPERTY AcceptedIsStored
CHECK_DEADLOCK FALSE
