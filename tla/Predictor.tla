------------------------------ MODULE Predictor ------------------------------
(***************************************************************************)
(* The arithmetic of src/analysis/predictor.py.  Averages and forecasts    *)
(* are whole hundredths of a percent, the two decimals to which queries.py *)
(* and the predictor round them; quartiles are multiplied by four, and a   *)
(* slope is a fraction num / den of hundredths per day, both exact.        *)
(* A definition D_X is D with the slip X in it, for the mutation tests.    *)
(***************************************************************************)
EXTENDS Integers, Sequences, FiniteSets, Functions, FiniteSetsExt

CONSTANT None  \* Python None

ASSUME NoneAssumption == None \notin Nat \cup {"high", "medium", "low"}

Full == 10000  \* 100 percent
Horizons == {7, 30, 90}

\* [v for v in s if v in wanted]: SelectSeq with a set for its test, as a function
\* that a proof can unfold.
Filter(s, wanted) ==
    LET kept[n \in 0 .. Len(s)] ==
          IF n = 0 THEN << >>
          ELSE IF s[n] \in wanted THEN Append(kept[n - 1], s[n])
          ELSE kept[n - 1]
    IN kept[Len(s)]

\* The list of values: an average of 0 is falsy and every other key is missing,
\* so that the chain of or ends in None, and None is dropped.
IsTruthy(average) == average # 0
ValuesOf(series) == Filter(series, {v \in Range(series) : IsTruthy(v)})

-----------------------------------------------------------------------------
\* sorted(values)[k - 1]
Ranked(values, k) ==
    CHOOSE v \in Range(values) :
        /\ Cardinality({i \in DOMAIN values : values[i] < v}) < k
        /\ Cardinality({i \in DOMAIN values : values[i] <= v}) >= k

\* Four times statistics.quantiles(values, n=4)[i - 1]; from four values on, the
\* ranks j and j + 1 exist.
Quartile(values, i) ==
    LET m == Len(values) + 1
        j == (i * m) \div 4
        delta == i * m - 4 * j
    IN Ranked(values, j) * (4 - delta) + Ranked(values, j + 1) * delta

\* low <= v <= high, with the quartiles times four
IsRegular_WideFence(v, q1, q3) ==  \* a fence of 3 * iqr
    4 * v \in (q1 - 3 * (q3 - q1)) .. (q3 + 3 * (q3 - q1))
IsRegular(v, q1, q3) ==
    8 * v \in (2 * q1 - 3 * (q3 - q1)) .. (2 * q3 + 3 * (q3 - q1))

\* _remove_outliers
RemoveOutliers(values) ==
    IF Len(values) < 4
    THEN values
    ELSE LET q1 == Quartile(values, 1)
             q3 == Quartile(values, 3)
             regular == {v \in Range(values) : IsRegular(v, q1, q3)}
             cleaned == Filter(values, regular)
         IN IF Len(cleaned) >= 4 THEN cleaned ELSE values

\* _linear_regression: numerator and denominator over the means, with the days
\* doubled and the values times their number.
LinearRegression_Uncentred(values) ==  \* the sum of x * x, without x_mean
    LET n == Len(values)
        total == SumFunction(values)
        products == [i \in 1 .. n |-> (2 * i - (n + 1)) * (n * values[i] - total)]
        squares == [i \in 1 .. n |-> (2 * i) * (2 * i)]
    IN [num |-> 2 * SumFunction(products), den |-> n * SumFunction(squares)]
LinearRegression(values) ==
    LET n == Len(values)
        total == SumFunction(values)
        x(i) == 2 * i - (n + 1)
        products == [i \in 1 .. n |-> x(i) * (n * values[i] - total)]
        squares == [i \in 1 .. n |-> x(i) * x(i)]
    IN [num |-> 2 * SumFunction(products), den |-> n * SumFunction(squares)]

SlopeOf(cleaned) ==
    IF Len(cleaned) >= 2 THEN LinearRegression(cleaned) ELSE [num |-> 0, den |-> 1]

-----------------------------------------------------------------------------
\* round(a / b, 2); of a tie, which the binary fractions of the code break
\* either way, it takes the upper end.
Round(a, b) == (2 * a + b) \div (2 * b)

\* min(max(predicted, 0), 100) times the denominator of the slope
Clipped(current, slope, days) ==
    Min({Max({current * slope.den + slope.num * days, 0}), Full * slope.den})

\* round(min(max(predicted, 0), 100), 2)
Forecast_OneDecimal(current, slope, days) ==  \* round(..., 1)
    10 * Round(Clipped(current, slope, days), 10 * slope.den)
Forecast(current, slope, days) == Round(Clipped(current, slope, days), slope.den)

\* int((100 - current) / slope)
DaysToFull_RoundedUp(current, slope) ==  \* ceil in place of int
    IF slope.num > 0 /\ current < Full
    THEN ((Full - current) * slope.den + slope.num - 1) \div slope.num
    ELSE None
DaysToFull(current, slope) ==
    IF slope.num > 0 /\ current < Full
    THEN ((Full - current) * slope.den) \div slope.num
    ELSE None

Trend(slope) ==
    IF slope.num > 10 * slope.den THEN "increasing"
    ELSE IF slope.num < -(10 * slope.den) THEN "decreasing"
    ELSE "stable"

\* predict_metric; its confidence and its texts are left out.  The round(current, 2)
\* of current_value changes nothing: the averages have two decimals.
Predict(series, horizon) ==
    LET values == ValuesOf(series)
        cleaned == RemoveOutliers(values)
        slope == SlopeOf(cleaned)
        current == cleaned[Len(cleaned)]
    IN IF values = << >>
       THEN [status |-> "insufficient_data"]
       ELSE [status |-> "ok",
             current |-> current,
             slope |-> slope,
             trend |-> Trend(slope),
             forecast |-> [d \in {h \in Horizons : h <= horizon} |->
                              Forecast(current, slope, d)],
             days_to_full |-> DaysToFull(current, slope)]

\* generate_recommendations: the urgency for one node and metric, None for no
\* recommendation.
IsFullWithin(p, days) == p.days_to_full # None /\ p.days_to_full <= days
IsIdle(p) == p.current < 1000 /\ p.forecast[30] < 1500

Urgency(p) ==
    IF p.status # "ok" THEN None
    ELSE IF IsFullWithin(p, 7) THEN "high"
    ELSE IF IsFullWithin(p, 30) THEN "medium"
    ELSE IF IsIdle(p) THEN "low"
    ELSE None
=============================================================================
