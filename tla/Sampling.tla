------------------------------ MODULE Sampling ------------------------------
(***************************************************************************)
(* Programs that use random.c and statistics.c together: one draws pairs   *)
(* of integers into two arrays and asks for statistics of them, one        *)
(* watches a stream of random numbers through a MovingStats object, and    *)
(* one looks at single numbers.                                            *)
(***************************************************************************)
EXTENDS Random, MovingStats, Statistics

CONSTANTS
    Lo, Hi,     \* the interval pairs are drawn from
    Bounds,     \* the other bounds given to a sampler
    MaxPairs    \* bound: pairs drawn

ASSUME BoundsAssumption ==
    /\ Lo \in Int /\ Hi \in Int /\ Lo <= Hi
    /\ Bounds \subseteq Int

VARIABLES
    keeps,      \* "arrays", "window" or "number": which program this is
    x, y,       \* its arrays
    drawn,      \* history: the pairs as they were drawn
    last        \* the last call of a sampler

arrays == <<x, y, drawn>>
samplingVars == <<msVars, keeps, arrays, last>>

(* The samplers whose arguments are real.  A normal number without         *)
(* deviation is constant.                                                  *)
Sampler(extreme) ==
    [exponential |-> Exponentials(extreme), weibull |-> Weibulls(extreme),
     normal |-> Normals(Numbers, Numbers \ {0}, extreme),
     constant |-> Normals(Numbers, {0}, extreme),
     lognormal |-> Lognormals(Numbers \ {0}, extreme),
     constant_lognormal |-> Lognormals({0}, extreme),
     poisson |-> KnuthPoissons, large_poisson |-> LargePoissons(extreme),
     gamma |-> Gammas(extreme), beta |-> Betas(extreme),
     triangular |-> IF extreme THEN WideTriangulars ELSE {}]

Kinds == {"exponential", "weibull", "normal", "constant", "lognormal",
          "constant_lognormal", "poisson", "large_poisson", "gamma", "beta",
          "triangular"}

(* A call of a sampler: what is known of its arguments (their bounds,      *)
(* whether they are extreme) and its outcome.                              *)
Called(kind, bounds, extreme, outcome) ==
    [sampler |-> kind, bounds |-> bounds, extreme |-> extreme, outcome |-> outcome]

RealCalls ==
    UNION {{Called(kind, <<>>, extreme, o) : o \in Sampler(extreme)[kind]} :
           extreme \in BOOLEAN, kind \in Kinds}

UniformCalls(a, b) ==
    {Called("uniform_int", <<a, b>>, FALSE, o) : o \in UniformInts(a, b)}

BetweenCalls(a, mode, b) ==
    {Called("between", <<a, b>>, FALSE, o) : o \in Triangulars(a, mode, b)}

BoundedCalls ==
    (UNION {UniformCalls(a, b) : a \in Bounds, b \in Bounds})
    \union
    (UNION {BetweenCalls(a, mode, b) : a \in Bounds, mode \in Bounds, b \in Bounds})

Nothing == Called("none", <<>>, FALSE, [value |-> 0, ends |-> {}])

Observable == {c.outcome.value : c \in RealCalls} \union {o.value : o \in UniformInts(Lo, Hi)}

ASSUME ObservableAssumption == Observable \subseteq Value

SamplingInit ==
    /\ Null
    /\ keeps \in {"arrays", "window", "number"}
    /\ x = <<>> /\ y = <<>> /\ drawn = <<>>
    /\ last = Nothing

DrawPair ==
    /\ keeps = "arrays" /\ Len(x) < MaxPairs
    /\ \E a, b \in UniformInts(Lo, Hi) :
          /\ x' = Append(x, a.value) /\ y' = Append(y, b.value)
          /\ drawn' = Append(drawn, <<a.value, b.value>>)
    /\ UNCHANGED <<msVars, keeps, last>>

(* stats_median, and stats_quartile for the second quartile, sort the      *)
(* caller's array.                                                         *)
AskMedian ==
    /\ keeps = "arrays"
    /\ x' = Sorted(x)
    /\ UNCHANGED <<msVars, keeps, y, drawn, last>>

OpenWindow ==
    /\ keeps = "window"
    /\ \E n \in 1 .. MaxSize : Create(n)
    /\ UNCHANGED <<keeps, arrays, last>>

CloseWindow ==
    /\ keeps = "window" /\ Destroy
    /\ UNCHANGED <<keeps, arrays, last>>

Watch ==
    /\ keeps = "window"
    /\ \E v \in Value : Add(v)
    /\ UNCHANGED <<keeps, arrays, last>>

DrawNumber ==
    /\ keeps = "number"
    /\ \E c \in RealCalls \union BoundedCalls : last' = c
    /\ UNCHANGED <<msVars, keeps, arrays>>

SamplingNext ==
    \/ DrawPair \/ AskMedian
    \/ OpenWindow \/ CloseWindow \/ Watch
    \/ DrawNumber

SamplingSpec == SamplingInit /\ [][SamplingNext]_samplingVars

-----------------------------------------------------------------------------
(* The window's positions stay inside it and the arrays have one length.   *)
SamplingTypeOK ==
    /\ WindowOK /\ WrittenBeforeRead
    /\ {x, y} \subseteq Seq(Lo .. Hi + 1)
    /\ Len(x) = Len(y) /\ Len(x) = Len(drawn)
    /\ last.sampler \in Kinds \union {"uniform_int", "between", "none"}

(* A MovingStats object speaks for the last observations in their order,   *)
(* as many as its window holds.                                            *)
WindowSpec == Window!Spec

(* moving_stats_mean and moving_stats_variance, from the running sums, are *)
(* stats_mean and stats_variance of the window, as long as no observation  *)
(* was infinite; after one that was, they are never numbers again.         *)
MovingMean == IF count = 0 THEN Zero ELSE <<sum, count>>
MovingVariance ==
    IF count <= 1 THEN Zero
    ELSE Mul(Sub(<<sum_sq, count>>, Mul(MovingMean, MovingMean)),
             <<count, count - 1>>)

MovingAgreesWithBatch ==
    /\ ~ dirty => /\ Same(MovingMean, Mean(Contents))
                  /\ Same(MovingVariance, Variance(Contents))
    /\ dirty => {sum, sum_sq} \subseteq Special

(* The order statistics agree where they must: the median is the fiftieth  *)
(* percentile and the quartiles lie around it, minimum and maximum are the *)
(* extreme percentiles, and no element occurs more often than the mode.    *)
OrderStatisticsAgree(data) ==
    /\ Same(Median(data), Percentile(data, 50))
    /\ Same(MinOf(data), Percentile(data, 0))
    /\ Same(MaxOf(data), Percentile(data, 100))
    /\ \A q \in 1 .. 2 : ~ Less(Quartile(data, q + 1), Quartile(data, q))
    /\ ~ Less(Range2(data), Iqr(data)) /\ ~ Less(Iqr(data), Zero)
    /\ LET m == Mode(data)
       IN  /\ m.count = Occurrences(data, m.mode)
           /\ \A a \in ToSet(data) : Occurrences(data, a) <= m.count

(* The regression line, computed from sums of products, has the slope that *)
(* covariance and variance give and runs through the means; the squared    *)
(* correlation is at most 1 and is what the slope explains.                *)
RegressionAgrees(xs, ys) ==
    LET lr == LinearRegression(xs, ys)
    IN  Variance(xs)[1] # 0 =>
           /\ Same(Mul(lr.slope, Variance(xs)), Covariance(xs, ys))
           /\ Same(Mean(ys), Add2(Mul(lr.slope, Mean(xs)), lr.intercept))
           /\ Same(Mul(lr.r_squared, Variance(ys)), Mul(lr.slope, Covariance(xs, ys)))
           /\ ~ Less(Whole(1), lr.r_squared)

(* The same statistics of one array computed in different functions agree, *)
(* and sorting loses no observation.                                       *)
BatchFormulasAgree ==
    /\ OrderStatisticsAgree(x)
    /\ RegressionAgrees(x, y)
    /\ \A a \in ToSet(x) \union {d[1] : d \in ToSet(drawn)} :
          Occurrences(x, a) = Cardinality({i \in DOMAIN drawn : drawn[i][1] = a})

Within(v, bounds) ==
    IF bounds[1] <= bounds[2] THEN v \in bounds[1] .. bounds[2] ELSE v = bounds[1]

(* What a caller of random.c may rely on for any arguments.  An integer    *)
(* sample lies in its interval unless the generator's last word was drawn, *)
(* a triangular one always (with an inverted interval both are min).       *)
(* Counts are integers, small Poisson counts not negative; waiting times,  *)
(* gamma, beta and lognormal numbers are never negative.  Only deviations  *)
(* of 0, extreme gamma, beta and triangular arguments, and two beta parts  *)
(* that are 0 make a result that is not a number.  And for arguments that  *)
(* are not extreme nothing but the word 0 makes one infinite, not a number *)
(* or an overflowing integer.                                              *)
SamplesInTheirRange ==
    LET kind == last.sampler
        v == last.outcome.value
        ends == last.outcome.ends
    IN  /\ kind = "uniform_int" => Within(v, last.bounds) \/ MaxWord \in ends
        /\ kind = "between" => Within(v, last.bounds)
        /\ kind = "poisson" => v \in Nat
        /\ kind = "large_poisson" => v \in Int
        /\ kind \in {"exponential", "weibull", "lognormal", "constant_lognormal",
                     "gamma", "beta"} => v \in Nat \union {Inf, NaN}
        /\ v = NaN =>
              \/ kind \in {"constant", "constant_lognormal", "beta"} /\ 0 \in ends
              \/ kind \in {"gamma", "beta", "triangular"} /\ last.extreme
        /\ ~ last.extreme /\ (v \in Special \/ (kind = "large_poisson" /\ v = IntMin))
              => 0 \in ends
=============================================================================
