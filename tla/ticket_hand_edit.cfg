\* A comment is added to a file that has no section for comments.
SPECIFICATION SpecF
CONSTANTS
    None = None
    t1 = t1
    l1 = l1
    Tickets = {t1}
    Labels = {l1}
    Comments <- PlainComment
    Authors = {"bob", "nobody"}
    Phrases = {"yes", "see", "by hand"}
    Descriptions <- MCDescriptions
    HandTexts <- NoCommentsText
    MaxComments = 1
    Kinds = {"ticket"}
    Workers = {w1}
    Exclusive = TRUE
    MayFail = {}
INVARIANT FilesReadBack
