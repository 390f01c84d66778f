----------------------------- MODULE Statistics -----------------------------
(***************************************************************************)
(* The array functions of statistics.c, on finite data.  data is the C     *)
(* array as a sequence (element i of the array is data[i + 1]); results    *)
(* are exact fractions <<numerator, denominator>> with a positive          *)
(* denominator.  A standard deviation is given by its square.              *)
(***************************************************************************)
EXTENDS Integers, Sequences, FiniteSetsExt, SequencesExt

Zero == <<0, 1>>
Whole(a) == <<a, 1>>
Same(p, q) == p[1] * q[2] = q[1] * p[2]
Less(p, q) == p[1] * q[2] < q[1] * p[2]
Add2(p, q) == <<p[1] * q[2] + q[1] * p[2], p[2] * q[2]>>
Sub(p, q) == <<p[1] * q[2] - q[1] * p[2], p[2] * q[2]>>
Mul(p, q) == <<p[1] * q[1], p[2] * q[2]>>

(* The sums a loop has after each of its turns, and after the last.        *)
Sums(data) ==
    LET acc[i \in 0 .. Len(data)] == IF i = 0 THEN 0 ELSE acc[i - 1] + data[i]
    IN  acc

Total(data) == Sums(data)[Len(data)]
Products(x, y) == Total([i \in 1 .. Len(x) |-> x[i] * y[i]])

Mean(data) == IF data = <<>> THEN Zero ELSE <<Total(data), Len(data)>>

(* The sum of (x[i] - mean_x) * (y[i] - mean_y), in n^2-ths.               *)
Deviations(x, y) ==
    Total([i \in 1 .. Len(x) |->
              (Len(x) * x[i] - Total(x)) * (Len(x) * y[i] - Total(y))])

Covariance(x, y) ==
    IF Len(x) <= 1 THEN Zero
    ELSE <<Deviations(x, y), Len(x) * Len(x) * (Len(x) - 1)>>

Variance(data) == Covariance(data, data)

(* qsort in ascending order: at k stands the value that fewer than k       *)
(* elements are below and at least k are not above.                        *)
Below(data, v) == Cardinality({j \in DOMAIN data : data[j] < v})
UpTo(data, v) == Cardinality({j \in DOMAIN data : data[j] <= v})
Sorted(data) ==
    [k \in DOMAIN data |->
        CHOOSE v \in ToSet(data) : Below(data, v) < k /\ k <= UpTo(data, v)]

-----------------------------------------------------------------------------
(* Mistakes an author of this code could have made.                        *)

(* An even number of elements has no middle pair.                          *)
MedianUpper(data) ==
    IF data = <<>> THEN Zero ELSE Whole(Sorted(data)[Len(data) \div 2 + 1])

-----------------------------------------------------------------------------
(* The value stats_median returns; it leaves its array sorted.             *)
Median(data) ==
    LET n == Len(data)  s == Sorted(data)
    IN  IF n = 0 THEN Zero
        ELSE IF n % 2 = 0 THEN <<s[n \div 2] + s[n \div 2 + 1], 2>>
        ELSE Whole(s[n \div 2 + 1])

(* stats_percentile, on a sorted copy, with linear interpolation.          *)
Percentile(data, p) ==
    LET n == Len(data)  s == Sorted(data)
        lower == (p * (n - 1)) \div 100
        fraction == (p * (n - 1)) % 100
    IN  IF n = 0 \/ p < 0 \/ p > 100 THEN Zero
        ELSE IF lower + 1 >= n THEN Whole(s[lower + 1])
        ELSE <<s[lower + 1] * (100 - fraction) + s[lower + 2] * fraction, 100>>

Quartile(data, q) ==
    CASE q = 1 -> Percentile(data, 25)
      [] q = 2 -> Median(data)
      [] q = 3 -> Percentile(data, 75)
      [] OTHER -> Zero

Iqr(data) == Sub(Quartile(data, 3), Quartile(data, 1))

Occurrences(data, a) == Cardinality({j \in DOMAIN data : data[j] = a})

(* The loop keeps what it has unless it finds an element occurring more    *)
(* often.                                                                  *)
Modes(data) ==
    LET best[i \in 0 .. Len(data)] ==
            IF i = 0 THEN [mode |-> data[1], count |-> 1]
            ELSE IF Occurrences(data, data[i]) > best[i - 1].count
            THEN [mode |-> data[i], count |-> Occurrences(data, data[i])]
            ELSE best[i - 1]
    IN  best

Mode(data) ==
    IF data = <<>> THEN [mode |-> 0, count |-> 0] ELSE Modes(data)[Len(data)]

MinOf(data) == IF data = <<>> THEN Zero ELSE Whole(Min(ToSet(data)))
MaxOf(data) == IF data = <<>> THEN Zero ELSE Whole(Max(ToSet(data)))
Range2(data) == Sub(MaxOf(data), MinOf(data))

(* stats_correlation, squared: what covariance and both variances are     *)
(* divided by cancels.                                                     *)
RSquared(x, y) ==
    IF Variance(x)[1] = 0 \/ Variance(y)[1] = 0 THEN Zero
    ELSE <<Deviations(x, y) * Deviations(x, y), Deviations(x, x) * Deviations(y, y)>>

LinearRegression(x, y) ==
    LET n == Len(x)
        denominator == n * Products(x, x) - Total(x) * Total(x)
    IN  IF n <= 1 \/ denominator = 0
        THEN [slope |-> Zero, intercept |-> Zero, r_squared |-> Zero]
        ELSE [slope |-> <<n * Products(x, y) - Total(x) * Total(y), denominator>>,
              intercept |-> <<Total(y) * Products(x, x) - Total(x) * Products(x, y),
                              denominator>>,
              r_squared |-> RSquared(x, y)]
=============================================================================
