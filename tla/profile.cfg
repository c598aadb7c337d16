SPECIFICATION FairSpec
CONSTANTS
    Texts = {name, blank}
    BlankText = blank
    Pictures = {pic1, pic2}
    Pages = {page1}
    Saves = {save1, save2}
    None = None
    EmptyText = EmptyText
INVARIANTS TypeOK PictureWasUploaded
PROPERTY SaveCompletes
CHECK_DEADLOCK FALSE
