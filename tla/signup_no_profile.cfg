SPECIFICATION Spec
CONSTANTS
    Emails = {ann, admin}
    Phones = {short, phone}
    ShortPhone = short
    AdminEmail = admin
    Attempts = {try1}
    Requests = {send1}
    MaxLinks = 2
    None = None
    Faults = TRUE
INVARIANT SignedInHasProfile
