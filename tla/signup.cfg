SPECIFICATION FairSpec
CONSTANTS
    Emails = {ann, admin}
    Phones = {short, phone}
    ShortPhone = short
    AdminEmail = admin
    Attempts = {try1, try2}
    Requests = {send1, send2}
    MaxLinks = 2
    None = None
    Faults = TRUE
INVARIANTS TypeOK SuccessIsSaved OneWriterPerAccount LinkedIsTexted
PROPERTY SubmitIsAnswered
