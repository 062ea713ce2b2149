SPECIFICATION Spec
CONSTANTS
    None = None
    Empty = Empty
    Pod = {p1}
    Request = {q1}
    prod = prod
    prod2 = prod2
    Report <- MCReport
    Matches <- MCMatches
    Format = {html, json, pdf}
    Rendered = {html, json}
    MaxData = 1
    MaxGenerations = 2
INVARIANTS
    AnsweredStaysDownloadable
CHECK_DEADLOCK FALSE
