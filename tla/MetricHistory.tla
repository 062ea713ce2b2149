---------------------------- MODULE MetricHistory ----------------------------
(***************************************************************************)
(* What query_metric_timeseries with interval 1d returns to the predictor  *)
(* while days pass and samples arrive: per node and metric the averages of *)
(* the days in the window of the query, oldest first.                      *)
(***************************************************************************)
EXTENDS Predictor

CONSTANTS
    Series,  \* node and metric
    Load,    \* averages in hundredths of a percent, as the query rounds them;
             \* 0 stands for NULL too, which the query turns into 0
    Window   \* days in the window of the query

ASSUME LoadAssumption == Load \subseteq 0 .. Full /\ None \notin Load
ASSUME WindowAssumption == Window \in Nat \ {0}

VARIABLE averages  \* Series -> day of the window -> average, or None without rows

NoRows == [day \in 1 .. Window |-> None]

HistoryInit == averages = [s \in Series |-> NoRows]

\* A sample of today moves today's average.
Measure(s, load) == averages' = [averages EXCEPT ![s][Window] = load]

\* The window moves: the oldest day leaves it.
NewDay_Untrimmed ==  \* without the start of the window
    averages' = [s \in Series |-> Append(averages[s], None)]
NewDay == averages' = [s \in Series |-> Append(Tail(averages[s]), None)]

HistoryNext == NewDay \/ \E s \in Series, load \in Load : Measure(s, load)

HistorySpec == HistoryInit /\ [][HistoryNext]_averages

\* GROUP BY bucket ORDER BY bucket: days without rows have no bucket.
HasRows(average) == average # None
Buckets(a) == Filter(a, {average \in Range(a) : HasRows(average)})
Timeseries(s) == Buckets(averages[s])

-----------------------------------------------------------------------------
Cleaned(s) == RemoveOutliers(ValuesOf(Timeseries(s)))
Prediction(s) == Predict(Timeseries(s), 90)
Predictable == {s \in Series : Prediction(s).status = "ok"}

\* Every series has an average or a gap for each day of the window.
Averages == [1 .. Window -> Load \cup {None}]
HistoryTypeOK == averages \in [Series -> Averages]

\* _linear_regression: the slope is that of the least squares line, here by its
\* other form, the mean of the slopes between any two days, weighted by the
\* squares of their distances.
SlopeIsPairwiseTrend ==
    \A s \in Predictable :
        LET c == Cleaned(s)
            slope == Prediction(s).slope
            pairs == {ij \in (DOMAIN c) \X (DOMAIN c) : ij[1] < ij[2]}
            rises == [ij \in pairs |-> (ij[2] - ij[1]) * (c[ij[2]] - c[ij[1]])]
            runs == [ij \in pairs |-> (ij[2] - ij[1]) * (ij[2] - ij[1])]
        IN slope.num * SumFunction(runs) = slope.den * SumFunction(rises)

\* predictor.py:94-97: a recommendation is high exactly when the line passes 100
\* before eight days are over, and medium when it passes 100 later and before
\* thirty-one days are over; a metric that is full is no recommendation of these.
UrgencyFollowsTrend ==
    \A s \in Predictable :
        LET p == Prediction(s)
            passes(days) ==
                /\ p.current < Full
                /\ p.current * p.slope.den + days * p.slope.num > Full * p.slope.den
        IN /\ Urgency(p) = "high" <=> passes(8)
           /\ Urgency(p) = "medium" <=> passes(31) /\ ~passes(8)

\* An answer gives forecasts and days left side by side (predictor.py:42-50),
\* the one rounded to the nearest hundredth and the other down to a day.  A
\* metric not yet full whose forecast for d days is 100 has at most 2 * d days
\* left (with 99.99 now, half a hundredth in d days is 100.0 already), and one
\* with fewer than d days left has the forecast 100.
ForecastsAgreeWithDays ==
    \A s \in Predictable :
        LET p == Prediction(s)
            full(d) == p.forecast[d] = Full
        IN \A d \in Horizons :
              /\ full(d) /\ p.current < Full => IsFullWithin(p, 2 * d)
              /\ IsFullWithin(p, d - 1) => full(d)

\* _remove_outliers: one odd day among at least six days moves neither the
\* current value nor the trend, wherever it lies (test_predictor.py:53-57 only
\* asks that it does no harm).
SpikesAreIgnored ==
    \A s \in Predictable :
        LET v == ValuesOf(Timeseries(s))
        IN \A spike \in DOMAIN v, usual \in Load :
              /\ Len(v) >= 6
              /\ \A i \in DOMAIN v \ {spike} : v[i] = usual
              => /\ Prediction(s).current = usual
                 /\ Prediction(s).slope.num = 0
=============================================================================
