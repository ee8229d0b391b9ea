CONSTANTS
    Texts = {t1}
    OverLong = {}
    NoText = NoText
    Riders = {}
    Files = {f1}
    MAX_ATTACHMENTS = 1
    MaxPosts = 1
SPECIFICATION Spec
INVARIANT PostedFilesAreUploaded
CHECK_DEADLOCK FALSE
