\* One ticket with comments, one mutation of it at a time, edits by hand.
SPECIFICATION FairSpecF
CONSTANTS
    None = None
    t1 = t1
    l1 = l1
    Tickets = {t1}
    Labels = {l1}
    Comments <- MCComments
    Authors = {"ann", "bob", "nobody"}
    Phrases = {"yes", "see", "by hand", "odd"}
    Descriptions <- MCDescriptions
    HandTexts <- MCHandTexts
    MaxComments = 2
    Kinds = {"ticket", "plan"}
    Workers = {w1, w2}
    Exclusive = TRUE
    MayFail = {"begin", "write", "remove", "scan", "read"}
INVARIANT FilesReadBack
INVARIANT FilesHoldContents
PROPERTY CommentAppended
PROPERTY RequestsComplete
