SPECIFICATION HistorySpec
CONSTANTS
    None = None
    Series = {cpu}
    Load = {0, 500, 5000, 9200, 9998, 9999, 10000}
    Window = 6
INVARIANTS
    SlopeIsPairwiseTrend
    UrgencyFollowsTrend
    ForecastsAgreeWithDays
    SpikesAreIgnored
