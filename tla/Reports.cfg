SPECIFICATION Spec
CONSTANTS
    None = None
    Empty = Empty
    Pod = {p1, p2}
    Request = {q1, q2}
    prod = prod
    prod2 = prod2
    Report <- MCReport
    Matches <- MCMatches
    Format = {html, json}
    Rendered = {html, json}
    MaxData = 1
    MaxGenerations = 2
SYMMETRY Symmetry
INVARIANTS
    TypeOK
    AnsweredStaysDownloadable
    NameFindsContent
    RowsKeepTheirData
CHECK_DEADLOCK FALSE
