------------------------ MODULE TemperatureIndicator ------------------------
(***************************************************************************)
(* The temperature_indicator node of the AD5592R example                   *)
(* (temperature_indicator.py): it reads the scale once, listens to the raw *)
(* and the offset topic of the temperature channel, and a timer turns the  *)
(* values at hand into a temperature, a spinning mean and a variance.       *)
(*                                                                         *)
(* A temperature is kept in thousandths of a degree, as an integer.  The   *)
(* readings divide by every n up to MaxTicks, so each division of Welford's*)
(* update is exact: what floating point rounds is not modelled.            *)
(***************************************************************************)
EXTENDS Integers, Sequences

CONSTANTS
    RawTexts,   \* what the raw topic carries: integers and Error
    Offsets,    \* what the offset topic carries, likewise
    HwScale,    \* the channel's scale attribute
    MaxTicks,   \* temperatures computed, a bound
    None,       \* None of Python
    Error,      \* the text of an error
    NaN         \* float('nan')

TemperatureAssumption ==
    /\ MaxTicks \in Nat
    /\ HwScale \in Nat \ {0}
    /\ RawTexts \ {Error} \subseteq Int /\ Offsets \ {Error} \subseteq Int
    /\ \A r \in RawTexts \ {Error}, o \in Offsets \ {Error}, n \in 1..MaxTicks :
         (r + o) % n = 0

VARIABLES
    spinning,     \* rclpy.spin runs
    scaleAsked,   \* the answer to read_scale is on its way
    tScale,       \* self.scale
    raw, offset,  \* self.raw, self.offset, None at first
    enabledT,     \* the attributes whose topic adi_iio publishes
    stats,        \* self.temperature_statistics
    samples,      \* every temperature computed so far
    published     \* the last message on /temperature

vars == <<spinning, scaleAsked, tScale, raw, offset, enabledT, stats, samples, published>>

------------------------------------------------------------------------------
(* VarianceWelford *)

VarianceWelford == [n |-> 0, mean |-> 0, M2 |-> 0]

(* Mutant: both differences are taken from the old mean.                   *)
UpdateOldMean(w, x) ==
    LET n      == w.n + 1
        delta1 == x - w.mean
        mean   == w.mean + delta1 \div n
    IN  [n |-> n, mean |-> mean, M2 |-> w.M2 + delta1 * delta1]

update(w, x) ==
    LET n      == w.n + 1
        delta1 == x - w.mean
        mean   == w.mean + delta1 \div n
        delta2 == x - mean
    IN  [n |-> n, mean |-> mean, M2 |-> w.M2 + delta1 * delta2]

(* A fraction <<numerator, denominator>>.                                  *)
variance(w) == IF w.n < 2 THEN NaN ELSE <<w.M2, w.n - 1>>

------------------------------------------------------------------------------
(* The node *)

Init ==
    /\ spinning = TRUE
    /\ scaleAsked = TRUE
    /\ tScale = 1
    /\ raw = None
    /\ offset = None
    /\ enabledT = {}
    /\ stats = VarianceWelford
    /\ samples = <<>>
    /\ published = None

(* adi_iio serves the AttrEnableTopic of one attribute, or refuses.        *)
EnableAttrTopic(attr) ==
    /\ attr \notin enabledT
    /\ enabledT' = enabledT \cup {attr}
    /\ UNCHANGED <<spinning, scaleAsked, tScale, raw, offset, stats, samples, published>>

read_scale_response_callback ==
    /\ spinning /\ scaleAsked
    /\ scaleAsked' = FALSE
    /\ \/ tScale' = HwScale
       \/ UNCHANGED tScale
    /\ UNCHANGED <<spinning, raw, offset, enabledT, stats, samples, published>>

(* int() and float() of an error text raise, which ends spin and the node. *)
raw_attr_callback(text) ==
    /\ spinning /\ "raw" \in enabledT
    /\ IF text = Error
       THEN spinning' = FALSE /\ UNCHANGED raw
       ELSE raw' = text /\ UNCHANGED spinning
    /\ UNCHANGED <<scaleAsked, tScale, offset, enabledT, stats, samples, published>>

offset_attr_callback(text) ==
    /\ spinning /\ "offset" \in enabledT
    /\ IF text = Error
       THEN spinning' = FALSE /\ UNCHANGED offset
       ELSE offset' = text /\ UNCHANGED spinning
    /\ UNCHANGED <<scaleAsked, tScale, raw, enabledT, stats, samples, published>>

compute_temperature(r, o, s) == (r + o) * s

timer_callback ==
    /\ spinning
    /\ Len(samples) < MaxTicks
    /\ offset # None /\ raw # None
    /\ LET temperature == compute_temperature(raw, offset, tScale)
       IN  /\ stats' = update(stats, temperature)
           /\ samples' = Append(samples, temperature)
    /\ published' = [mean |-> stats'.mean, variance |-> variance(stats')]
    /\ UNCHANGED <<spinning, scaleAsked, tScale, raw, offset, enabledT>>

Next ==
    \/ \E attr \in {"raw", "offset"} : EnableAttrTopic(attr)
    \/ read_scale_response_callback
    \/ \E text \in RawTexts : raw_attr_callback(text)
    \/ \E text \in Offsets : offset_attr_callback(text)
    \/ timer_callback

Spec == Init /\ [][Next]_vars

------------------------------------------------------------------------------
(* What a callback stored is a number, never the text of an error, also    *)
(* when it was the error that ended the node (int() before the assignment).*)
TypeOK ==
    /\ spinning \in BOOLEAN /\ scaleAsked \in BOOLEAN
    /\ tScale \in {1, HwScale}
    /\ raw \in (RawTexts \ {Error}) \cup {None}
    /\ offset \in (Offsets \ {Error}) \cup {None}
    /\ enabledT \subseteq {"raw", "offset"}
    /\ stats.n \in 0..MaxTicks

(* The one-pass statistics equal their definitions over all temperatures   *)
(* computed so far: n times the mean is their sum, M2 the sum of squared   *)
(* distances from the mean, and what is published is that mean with the    *)
(* unbiased variance.                                                      *)
Total(s) ==
    LET sum[i \in 0..Len(s)] == IF i = 0 THEN 0 ELSE sum[i - 1] + s[i]
    IN  sum[Len(s)]

Squares(s, m) == [i \in 1..Len(s) |-> (s[i] - m) * (s[i] - m)]

StatisticsMatch ==
    /\ stats.n = Len(samples)
    /\ stats.mean * stats.n = Total(samples)
    /\ stats.M2 = Total(Squares(samples, stats.mean))
    /\ published # None =>
         published = [mean |-> stats.mean,
                      variance |-> IF stats.n = 1 THEN NaN ELSE <<stats.M2, stats.n - 1>>]

=============================================================================
