-------------------- MODULE TemperatureIndicator_proofs ---------------------
(***************************************************************************)
(* Theorems about TemperatureIndicator for every reading, offset and scale *)
(* and every number of temperatures whose divisions are exact.             *)
(***************************************************************************)
EXTENDS TemperatureIndicator, SequenceTheorems, TLAPS

(* The temperatures kept are whole and counted.                            *)
HeatInv ==
    /\ TypeOK
    /\ samples \in Seq(Int)
    /\ stats.n = Len(samples)

LEMMA HeatInit ==
    ASSUME TemperatureAssumption, Init
    PROVE  HeatInv
  BY DEF TemperatureAssumption, Init, VarianceWelford, HeatInv, TypeOK

(* What the timer computes with are numbers.                               *)
LEMMA Readings ==
    ASSUME TemperatureAssumption, HeatInv, timer_callback
    PROVE  /\ raw \in RawTexts \ {Error} /\ offset \in Offsets \ {Error}
           /\ raw \in Int /\ offset \in Int /\ tScale \in Int
  <1>1. /\ raw \in RawTexts \ {Error} /\ offset \in Offsets \ {Error}
        /\ tScale \in {1, HwScale}
    BY DEF timer_callback, HeatInv, TypeOK
  <1>2. RawTexts \ {Error} \subseteq Int /\ Offsets \ {Error} \subseteq Int /\ HwScale \in Int
    BY DEF TemperatureAssumption
  <1> QED BY <1>1, <1>2

LEMMA HeatStep ==
    ASSUME TemperatureAssumption, HeatInv, [Next]_vars
    PROVE  HeatInv'
  <1> USE DEF HeatInv, TypeOK
  <1>1. ASSUME NEW attr \in {"raw", "offset"}, EnableAttrTopic(attr) PROVE HeatInv'
    BY <1>1 DEF EnableAttrTopic
  <1>2. CASE read_scale_response_callback
    BY <1>2 DEF read_scale_response_callback
  <1>3. ASSUME NEW text \in RawTexts, raw_attr_callback(text) PROVE HeatInv'
    BY <1>3 DEF raw_attr_callback
  <1>4. ASSUME NEW text \in Offsets, offset_attr_callback(text) PROVE HeatInv'
    BY <1>4 DEF offset_attr_callback
  <1>5. CASE timer_callback
    <2> DEFINE t == compute_temperature(raw, offset, tScale)
    <2>1. t \in Int
      BY <1>5, Readings DEF compute_temperature
    <2>2. /\ samples' = Append(samples, t) /\ stats' = update(stats, t)
          /\ Len(samples) < MaxTicks
          /\ UNCHANGED <<spinning, scaleAsked, tScale, raw, offset, enabledT>>
      BY <1>5 DEF timer_callback
    <2> HIDE DEF t
    <2>3. samples' \in Seq(Int) /\ Len(samples') = Len(samples) + 1
      BY <2>1, <2>2
    <2>4. stats'.n = stats.n + 1
      BY <2>2 DEF update
    <2>5. stats'.n \in 0..MaxTicks
      BY <2>2, <2>4 DEF TemperatureAssumption
    <2> QED BY <2>2, <2>3, <2>4, <2>5
  <1>6. CASE UNCHANGED vars
    BY <1>6 DEF vars
  <1> QED BY <1>1, <1>2, <1>3, <1>4, <1>5, <1>6 DEF Next

LEMMA HeatInvariant ==
    ASSUME TemperatureAssumption
    PROVE  Spec => []HeatInv
  <1>1. Init => HeatInv
    BY HeatInit
  <1>2. HeatInv /\ [Next]_vars => HeatInv'
    BY HeatStep
  <1> QED BY <1>1, <1>2, PTL DEF Spec

(* raw and offset are numbers once they are set, and no more temperatures  *)
(* are counted than were computed: the text of an error is never stored    *)
(* (temperature_indicator.py:132), whatever the topics carry.              *)
THEOREM TypeCorrect ==
    ASSUME TemperatureAssumption
    PROVE  Spec => []TypeOK
  <1>1. HeatInv => TypeOK
    BY DEF HeatInv
  <1> QED BY <1>1, HeatInvariant, PTL

------------------------------------------------------------------------------
(* Welford's update.  Along a behaviour the temperatures only grow by one, *)
(* so what their sums are is an invariant of the node, for every distance  *)
(* m at once: the mean, and with it each squared distance, moves on.       *)

RunningTotal(sum, s) ==
    sum = [i \in 0..Len(s) |-> IF i = 0 THEN 0 ELSE sum[i - 1] + s[i]]

SumsTo(s, total) ==
    /\ \E sum : RunningTotal(sum, s)
    /\ \A sum : RunningTotal(sum, s) => sum[Len(s)] = total

LEMMA TotalIs ==
    ASSUME NEW s, NEW total, SumsTo(s, total)
    PROVE  Total(s) = total
  <1> DEFINE sum == CHOOSE f : RunningTotal(f, s)
  <1>1. RunningTotal(sum, s)
    BY DEF SumsTo
  <1>2. sum[Len(s)] = total
    BY <1>1 DEF SumsTo
  <1>3. Total(s) = sum[Len(s)]
    BY DEF Total, RunningTotal
  <1> QED BY <1>2, <1>3

LEMMA SumOfNone == SumsTo(<<>>, 0)
  <1>1. Len(<<>>) = 0 /\ 0..0 = {0}
    OBVIOUS
  <1>2. RunningTotal([i \in 0..0 |-> 0], <<>>)
    BY <1>1 DEF RunningTotal
  <1>3. \A sum : RunningTotal(sum, <<>>) => sum[0] = 0
    BY <1>1 DEF RunningTotal
  <1> QED BY <1>1, <1>2, <1>3 DEF SumsTo

(* One more value: every running total goes on by it.                      *)
LEMMA SumOfMore ==
    ASSUME NEW s \in Seq(Int), NEW total, SumsTo(s, total), NEW x \in Int
    PROVE  SumsTo(Append(s, x), total + x)
  <1> DEFINE t == Append(s, x)
             n == Len(s)
  <1>1. /\ n \in Nat /\ Len(t) = n + 1 /\ t[n + 1] = x
        /\ \A i \in 1..n : t[i] = s[i]
    OBVIOUS
  <1> HIDE DEF t, n
  <1>2. ASSUME NEW sum, RunningTotal(sum, t)
        PROVE  sum[n + 1] = total + x
    <2> DEFINE start == [i \in 0..n |-> sum[i]]
    <2>1. \A i \in 0..(n + 1) : sum[i] = IF i = 0 THEN 0 ELSE sum[i - 1] + t[i]
      BY <1>1, <1>2 DEF RunningTotal
    <2>2. \A i \in 0..n : sum[i] = IF i = 0 THEN 0 ELSE start[i - 1] + s[i]
      BY <1>1, <2>1
    <2>3. start = [i \in 0..n |-> IF i = 0 THEN 0 ELSE start[i - 1] + s[i]]
      BY <2>2
    <2>4. RunningTotal(start, s)
      BY <2>3 DEF RunningTotal, n
    <2>5. start[n] = total
      BY <2>4 DEF SumsTo, n
    <2>6. sum[n] = total
      BY <1>1, <2>5
    <2> QED BY <1>1, <2>1, <2>6
  <1>3. \E sum : RunningTotal(sum, t)
    <2>1. PICK start : RunningTotal(start, s)
      BY DEF SumsTo
    <2> DEFINE sum == [i \in 0..(n + 1) |-> IF i = n + 1 THEN start[n] + x ELSE start[i]]
    <2>2. \A i \in 0..n : start[i] = IF i = 0 THEN 0 ELSE start[i - 1] + s[i]
      BY <2>1 DEF RunningTotal, n
    <2>3. \A i \in 0..(n + 1) : sum[i] = IF i = 0 THEN 0 ELSE sum[i - 1] + t[i]
      <3>1. ASSUME NEW i \in 0..n PROVE sum[i] = IF i = 0 THEN 0 ELSE sum[i - 1] + t[i]
        BY <1>1, <2>2
      <3>2. sum[n + 1] = sum[n] + t[n + 1]
        BY <1>1
      <3> HIDE DEF sum
      <3>3. \A i \in 0..(n + 1) : i \in 0..n \/ i = n + 1
        BY <1>1
      <3>4. n + 1 # 0 /\ (n + 1) - 1 = n
        BY <1>1
      <3> QED BY <3>1, <3>2, <3>3, <3>4
    <2>4. sum = [i \in 0..(n + 1) |-> IF i = 0 THEN 0 ELSE sum[i - 1] + t[i]]
      BY <2>3
    <2>5. RunningTotal(sum, t)
      BY <1>1, <2>4 DEF RunningTotal
    <2> QED BY <2>5
  <1> QED BY <1>1, <1>2, <1>3 DEF SumsTo, t

LEMMA SquaresOfMore ==
    ASSUME NEW s \in Seq(Int), NEW x \in Int, NEW m \in Int
    PROVE  /\ Squares(s, m) \in Seq(Int)
           /\ Squares(Append(s, x), m)
                = Append(Squares(s, m), (x - m) * (x - m))
  <1> DEFINE sq == Squares(s, m)
             n  == Len(s)
  <1>1. n \in Nat /\ \A i \in 1..n : (s[i] - m) * (s[i] - m) \in Int
    OBVIOUS
  <1>2. sq = [i \in 1..n |-> (s[i] - m) * (s[i] - m)]
    BY DEF Squares
  <1>3. sq \in Seq(Int) /\ Len(sq) = n
    BY <1>1, <1>2
  <1>4. /\ Len(Append(s, x)) = n + 1 /\ Append(s, x)[n + 1] = x
        /\ \A i \in 1..n : Append(s, x)[i] = s[i]
    OBVIOUS
  <1>5. Squares(Append(s, x), m)
          = [i \in 1..(n + 1) |-> IF i = n + 1 THEN (x - m) * (x - m) ELSE sq[i]]
    BY <1>1, <1>2, <1>4 DEF Squares
  <1> QED BY <1>1, <1>3, <1>5

LEMMA Division ==
    ASSUME NEW x \in Int, NEW n \in Nat \ {0}
    PROVE  /\ x \div n \in Int /\ x % n \in 0..(n - 1)
           /\ x = n * (x \div n) + (x % n)
  OBVIOUS

LEMMA ExactDivision ==
    ASSUME NEW n \in Nat \ {0}, NEW d \in Int
    PROVE  (n * d) \div n = d
  <1>1. n * d \in Int
    BY SMT
  <1> DEFINE q == (n * d) \div n
             r == (n * d) % n
  <1>2. q \in Int /\ r \in 0..(n - 1) /\ n * d = n * q + r
    BY Division, <1>1
  <1> HIDE DEF q, r
  <1>3. n * (d - q) = r
    BY <1>2
  <1>4. ASSUME d - q >= 1 PROVE FALSE
    <2>1. n * (d - q) >= n
      BY <1>2, <1>4
    <2> QED BY <1>2, <1>3, <2>1
  <1>5. ASSUME d - q =< -1 PROVE FALSE
    <2>1. n * (d - q) =< -n
      BY <1>2, <1>5
    <2> QED BY <1>2, <1>3, <2>1
  <1>6. d = q
    BY <1>2, <1>4, <1>5
  <1> QED BY <1>6 DEF q

(* A new value t moves the mean of n values by a whole number when the     *)
(* total before and t are multiples of n + 1.                              *)
LEMMA MeanIsWhole ==
    ASSUME NEW n \in Nat, NEW mean \in Int, NEW t \in Int, NEW q \in Int, NEW r \in Int,
           n * mean = (n + 1) * q, t = (n + 1) * r
    PROVE  /\ t - mean = (n + 1) * (q + r - mean)
           /\ (t - mean) \div (n + 1) = q + r - mean
  <1> DEFINE d == q + r - mean
  <1>1. d \in Int /\ n + 1 \in Nat \ {0}
    OBVIOUS
  <1>2. (n + 1) * d = (n + 1) * q + (n + 1) * r - (n + 1) * mean
    OBVIOUS
  <1>3. (n + 1) * mean = n * mean + mean /\ n * mean \in Int
    OBVIOUS
  <1> HIDE DEF d
  <1>4. t - mean = (n + 1) * d
    BY <1>2, <1>3
  <1>5. (t - mean) \div (n + 1) = d
    BY <1>1, <1>4, ExactDivision
  <1> QED BY <1>4, <1>5 DEF d

(* When the mean moves by d, which is what n + 1 values are short of it.   *)
LEMMA MeanMoves ==
    ASSUME NEW n \in Nat, NEW u \in Int, NEW d \in Int
    PROVE  n * (u * u) + (u + (n + 1) * d) * (u + (n + 1) * d)
             = ((n + 1) * d) * (n * d) + (n + 1) * ((u + d) * (u + d))
  OBVIOUS

(* The sum of the squared distances from m, by the statistics.             *)
Distance(w, m) == w.M2 + w.n * ((w.mean - m) * (w.mean - m))

WelfordInv ==
    /\ stats.mean \in Int /\ stats.M2 \in Int
    /\ \A k \in 1..MaxTicks : \E q \in Int : stats.n * stats.mean = k * q
    /\ SumsTo(samples, stats.mean * stats.n)
    /\ \A m \in Int : SumsTo(Squares(samples, m), Distance(stats, m))
    /\ published # None =>
         /\ stats.n # 0
         /\ published = [mean |-> stats.mean, variance |-> variance(stats)]

LEMMA WelfordInit ==
    ASSUME TemperatureAssumption, Init
    PROVE  WelfordInv
  <1>1. /\ stats = [n |-> 0, mean |-> 0, M2 |-> 0] /\ samples = <<>> /\ published = None
    BY DEF Init, VarianceWelford
  <1>2. \A k \in 1..MaxTicks : 0 = k * 0
    BY DEF TemperatureAssumption
  <1>3. ASSUME NEW m \in Int
        PROVE  Squares(samples, m) = <<>> /\ Distance(stats, m) = 0
    <2>1. 1..0 = {} /\ Len(<<>>) = 0
      OBVIOUS
    <2>2. Squares(samples, m) = <<>>
      BY <1>1, <2>1 DEF Squares
    <2> QED BY <1>1, <2>2 DEF Distance
  <1> QED BY <1>1, <1>2, <1>3, SumOfNone DEF WelfordInv

(* Each temperature is a multiple of every count, so the division by the   *)
(* count is exact, and the update is what the definitions ask for.         *)
LEMMA WelfordUpdate ==
    ASSUME TemperatureAssumption, HeatInv, WelfordInv, NEW t \in Int, Len(samples) < MaxTicks,
           \A k \in 1..MaxTicks : \E q \in Int : t = k * q,
           samples' = Append(samples, t), stats' = update(stats, t)
    PROVE  /\ stats'.mean \in Int /\ stats'.M2 \in Int /\ stats'.n = stats.n + 1
           /\ \A k \in 1..MaxTicks : \E q \in Int : stats'.n * stats'.mean = k * q
           /\ SumsTo(samples', stats'.mean * stats'.n)
           /\ \A m \in Int : SumsTo(Squares(samples', m), Distance(stats', m))
  <1> DEFINE n    == stats.n
             mean == stats.mean
             d    == (t - mean) \div (n + 1)
  <1>1. n \in Nat /\ mean \in Int /\ stats.M2 \in Int /\ n + 1 \in 1..MaxTicks
    BY DEF HeatInv, TypeOK, WelfordInv, TemperatureAssumption
  <1>2. d \in Int /\ t - mean = (n + 1) * d
    <2>1. PICK q \in Int : n * mean = (n + 1) * q
      BY <1>1 DEF WelfordInv
    <2>2. PICK r \in Int : t = (n + 1) * r
      BY <1>1
    <2> HIDE DEF n, mean
    <2>3. t - mean = (n + 1) * (q + r - mean) /\ (t - mean) \div (n + 1) = q + r - mean
      BY <1>1, <2>1, <2>2, MeanIsWhole
    <2> QED BY <1>1, <2>3
  <1>3. /\ stats'.n = n + 1 /\ stats'.mean = mean + d
        /\ stats'.M2 = stats.M2 + (t - mean) * (t - (mean + d))
    BY DEF update
  <1> HIDE DEF n, mean, d
  <1>4. t - (mean + d) = n * d
    BY <1>1, <1>2
  <1>5. stats'.M2 = stats.M2 + ((n + 1) * d) * (n * d)
    BY <1>2, <1>3, <1>4
  <1>6. stats'.mean \in Int /\ stats'.M2 \in Int
    BY <1>1, <1>2, <1>3, <1>5
  <1>7. (n + 1) * (mean + d) = n * mean + t
    BY <1>1, <1>2
  <1>8. \A k \in 1..MaxTicks : \E q \in Int : stats'.n * stats'.mean = k * q
    <2> SUFFICES ASSUME NEW k \in 1..MaxTicks
                 PROVE  \E q \in Int : stats'.n * stats'.mean = k * q
      OBVIOUS
    <2>1. PICK q \in Int : n * mean = k * q
      BY DEF WelfordInv, n, mean
    <2>2. PICK r \in Int : t = k * r
      OBVIOUS
    <2>3. k \in Int
      OBVIOUS
    <2>4. n * mean + t = k * (q + r)
      BY <2>1, <2>2, <2>3
    <2>5. q + r \in Int /\ stats'.n * stats'.mean = k * (q + r)
      BY <1>3, <1>7, <2>4
    <2> QED BY <2>5
  <1>9. samples \in Seq(Int)
    BY DEF HeatInv
  <1>10. SumsTo(samples', stats'.mean * stats'.n)
    <2>1. SumsTo(samples, mean * n)
      BY DEF WelfordInv, n, mean
    <2>2. SumsTo(samples', mean * n + t)
      BY <1>9, <2>1, SumOfMore
    <2>3. stats'.mean * stats'.n = mean * n + t
      BY <1>1, <1>2, <1>3, <1>7
    <2> QED BY <2>2, <2>3
  <1>11. ASSUME NEW m \in Int
         PROVE  SumsTo(Squares(samples', m), Distance(stats', m))
    <2> DEFINE u == mean - m
               x == (t - m) * (t - m)
    <2>1. SumsTo(Squares(samples, m), stats.M2 + n * (u * u))
      BY DEF WelfordInv, Distance, n, mean
    <2>2. u \in Int /\ x \in Int
      BY <1>1
    <2>3. SumsTo(Squares(samples', m), (stats.M2 + n * (u * u)) + x)
      <3>1. /\ Squares(samples, m) \in Seq(Int)
            /\ Squares(samples', m) = Append(Squares(samples, m), x)
        BY <1>9, SquaresOfMore
      <3> HIDE DEF x
      <3>2. SumsTo(Append(Squares(samples, m), x), (stats.M2 + n * (u * u)) + x)
        BY <2>1, <2>2, <3>1, SumOfMore
      <3> QED BY <3>1, <3>2
    <2>4. t - m = u + (n + 1) * d /\ (mean + d) - m = u + d
      BY <1>1, <1>2
    <2>5. x = (u + (n + 1) * d) * (u + (n + 1) * d)
      BY <2>4
    <2>6. Distance(stats', m)
            = stats.M2 + ((n + 1) * d) * (n * d) + (n + 1) * ((u + d) * (u + d))
      BY <1>3, <1>5, <2>4 DEF Distance
    <2> HIDE DEF u, x
    <2>7. n * (u * u) + x = ((n + 1) * d) * (n * d) + (n + 1) * ((u + d) * (u + d))
      BY <1>1, <1>2, <2>2, <2>5, MeanMoves
    <2>8. /\ n * (u * u) \in Int /\ ((n + 1) * d) * (n * d) \in Int
          /\ (n + 1) * ((u + d) * (u + d)) \in Int
      BY <1>1, <1>2, <2>2
    <2>9. (stats.M2 + n * (u * u)) + x = Distance(stats', m)
      <3> DEFINE a == n * (u * u)
                 b == ((n + 1) * d) * (n * d)
                 c == (n + 1) * ((u + d) * (u + d))
                 M2 == stats.M2
      <3>1. a \in Int /\ b \in Int /\ c \in Int /\ M2 \in Int /\ a + x = b + c
        BY <1>1, <2>7, <2>8
      <3>2. Distance(stats', m) = M2 + b + c
        BY <2>6
      <3> HIDE DEF a, b, c, M2
      <3>3. (M2 + a) + x = M2 + b + c
        BY <2>2, <3>1
      <3> QED BY <3>2, <3>3 DEF a, M2
    <2> QED BY <2>3, <2>9
  <1> QED BY <1>3, <1>6, <1>8, <1>10, <1>11 DEF n

LEMMA WelfordStep ==
    ASSUME TemperatureAssumption, HeatInv, WelfordInv, Next
    PROVE  WelfordInv'
  <1>1. CASE UNCHANGED <<stats, samples, published>>
    BY <1>1 DEF WelfordInv
  <1>2. CASE timer_callback
    <2> DEFINE t == compute_temperature(raw, offset, tScale)
    <2>1. /\ raw \in RawTexts \ {Error} /\ offset \in Offsets \ {Error}
          /\ raw \in Int /\ offset \in Int /\ tScale \in Int
      BY <1>2, Readings
    <2>2. /\ samples' = Append(samples, t) /\ stats' = update(stats, t)
          /\ Len(samples) < MaxTicks
          /\ published' = [mean |-> stats'.mean, variance |-> variance(stats')]
      BY <1>2 DEF timer_callback
    <2>3. t \in Int
      BY <2>1 DEF compute_temperature
    <2>4. \A k \in 1..MaxTicks : \E q \in Int : t = k * q
      <3> SUFFICES ASSUME NEW k \in 1..MaxTicks PROVE \E q \in Int : t = k * q
        OBVIOUS
      <3>1. (raw + offset) % k = 0
        BY <2>1 DEF TemperatureAssumption
      <3>2. k \in Nat \ {0} /\ raw + offset \in Int
        BY <2>1 DEF TemperatureAssumption
      <3> DEFINE q == (raw + offset) \div k
      <3>3. q \in Int /\ raw + offset = k * q + ((raw + offset) % k)
        BY <3>2, Division
      <3> HIDE DEF q
      <3>4. k * q \in Int /\ raw + offset = k * q
        BY <3>1, <3>2, <3>3
      <3>5. q * tScale \in Int /\ (k * q) * tScale = k * (q * tScale)
        BY <2>1, <3>2, <3>3
      <3> QED BY <3>4, <3>5 DEF compute_temperature
    <2> HIDE DEF t
    <2>5. stats.n \in Nat
      BY DEF HeatInv, TypeOK
    <2>6. stats'.n = stats.n + 1 /\ stats'.n # 0
      BY <2>2, <2>3, <2>4, <2>5, WelfordUpdate
    <2> QED BY <2>2, <2>3, <2>4, <2>6, WelfordUpdate DEF WelfordInv
  <1> QED BY <1>1, <1>2
      DEF Next, EnableAttrTopic, read_scale_response_callback,
          raw_attr_callback, offset_attr_callback

(* The one-pass statistics are the mean and the variance of all the        *)
(* temperatures computed, and the last message has them                    *)
(* (temperature_indicator.py:160), for every number of temperatures whose  *)
(* divisions are exact.                                                    *)
THEOREM StatisticsSafety ==
    ASSUME TemperatureAssumption
    PROVE  Spec => []StatisticsMatch
  <1>1. Init => WelfordInv
    BY WelfordInit
  <1>2. HeatInv /\ WelfordInv /\ [Next]_vars => WelfordInv'
    <2>1. ASSUME WelfordInv, UNCHANGED vars
          PROVE  WelfordInv'
      BY <2>1 DEF vars, WelfordInv
    <2> QED BY <2>1, WelfordStep
  <1>3. HeatInv /\ WelfordInv => StatisticsMatch
    <2> SUFFICES ASSUME HeatInv, WelfordInv PROVE StatisticsMatch
      OBVIOUS
    <2>1. stats.n \in Nat /\ stats.n = Len(samples)
      BY DEF HeatInv, TypeOK
    <2>2. stats.mean * stats.n = Total(samples)
      BY TotalIs DEF WelfordInv
    <2>3. stats.M2 = Total(Squares(samples, stats.mean))
      <3>1. Distance(stats, stats.mean) = stats.M2
        <4>1. stats.mean - stats.mean = 0 /\ stats.n * (0 * 0) = 0 /\ stats.M2 + 0 = stats.M2
          BY <2>1 DEF WelfordInv
        <4> QED BY <4>1 DEF Distance
      <3> QED BY <3>1, TotalIs DEF WelfordInv
    <2>4. stats.n # 0 =>
            variance(stats) = IF stats.n = 1 THEN NaN ELSE <<stats.M2, stats.n - 1>>
      <3>1. CASE stats.n = 1
        BY <3>1 DEF variance
      <3>2. CASE stats.n # 1
        <4>1. \A n \in Nat : n # 0 /\ n # 1 => ~(n < 2)
          OBVIOUS
        <4> QED BY <2>1, <3>2, <4>1, Zenon DEF variance
      <3> QED BY <3>1, <3>2
    <2> QED BY <2>1, <2>2, <2>3, <2>4
        DEF WelfordInv, StatisticsMatch
  <1> QED BY <1>1, <1>2, <1>3, HeatInvariant, PTL DEF Spec

=============================================================================
