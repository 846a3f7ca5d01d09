CONSTANTS
    NoCode = NoCode
    Codes = {"plan", "bonus", "bought"}
    FreeCodes = {"plan", "bonus"}
    Credentials = {"u1"}
    Callers = {1, 2}
    Replies <- MCReplies
    QuotaTTL = 2
    FetchMax = 1
SPECIFICATION FairSpec
INVARIANTS
    TypeOK
    LabelIsRecent
    PageIsRecent
    NothingUnread
    FiguresAgree
PROPERTIES
    ErrorsPass
