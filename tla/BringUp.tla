------------------------------- MODULE BringUp -------------------------------
(***************************************************************************)
(* The launch files of the AD5592R and the AD7124-8 example: processes     *)
(* that run `ros2 service call` commands, joined by ";", against adi_iio,  *)
(* all processes of a bring-up side by side, and the topic_tools transform *)
(* nodes that are launched after it.                                       *)
(***************************************************************************)
EXTENDS Integers, Sequences, FiniteSets

CONSTANTS
    Boards,       \* the boards that are brought up
    Channels,     \* the channels modelled, a bound
    MaxFailures,  \* calls that fail, a bound
    None

BringUpAssumption ==
    /\ Boards \subseteq {"ad5592r", "ad7124_8"}
    /\ MaxFailures \in Nat

VARIABLES
    board,      \* which bring-up was launched
    iioUp,      \* adi_iio_node runs
    ended,      \* how many calls of each process have ended
    inCall,     \* how many it has made
    failures,   \* how many calls failed
    configured,    \* the attributes written, <<channel, attribute>>
    rawTopics,  \* the topics adi_iio publishes raw values on
    volts       \* the last message of each transform

vars == <<board, iioUp, ended, inCall, failures, configured, rawTopics, volts>>

WriteCall(ch, attr) == [service |-> "AttrWriteString", channel |-> ch, attr |-> attr]
EnableCall(ch)      == [service |-> "AttrEnableTopic", channel |-> ch, attr |-> "raw"]

(* A process is the sequence of its calls.                                 *)
ad5592r_config ==
    {<< WriteCall(ch, "scale"), WriteCall(ch, "raw") >> :
        ch \in {"output_voltage0", "output_voltage2", "output_voltage3"}} \cup
    {<< WriteCall(ch, "scale") >> :
        ch \in {"input_voltage1", "input_voltage2", "input_voltage3", "input_voltage4"}}

ad5592r_topics ==
    {<< EnableCall(ch) >> :
        ch \in {"output_voltage0", "input_voltage1", "input_voltage2", "output_voltage2",
                "input_voltage3", "output_voltage3", "input_voltage4"}}

ad7124_8_config ==
    {<< WriteCall(ch, "scale"), WriteCall(ch, "sampling_frequency") >> :
        ch \in {"input_voltage0-voltage1", "input_voltage2-voltage3",
                "input_voltage4-voltage5", "input_voltage6-voltage7",
                "input_voltage8-voltage9", "input_voltage10-voltage11",
                "input_voltage12-voltage13", "input_voltage14-voltage15"}}

ad7124_8_topics ==
    {<< EnableCall(ch) >> : ch \in {"input_voltage0-voltage1", "input_voltage2-voltage3"}}

(* Configuration and topics are launched together, in no order.            *)
ad5592r_bringup  == ad5592r_config \cup ad5592r_topics
ad7124_8_bringup == ad7124_8_config \cup ad7124_8_topics

Processes(b) ==
    {p \in IF b = "ad5592r" THEN ad5592r_bringup ELSE ad7124_8_bringup :
        p[1].channel \in Channels}

(* toTopicName of adi_iio: a dash is no character of a topic's name.       *)
TopicName(ch) ==
    CASE ch = "input_voltage0-voltage1" -> "input_voltage0_voltage1"
      [] ch = "input_voltage2-voltage3" -> "input_voltage2_voltage3"
      [] OTHER -> ch

(* Mutant: the inputs are named as the channels are.                       *)
InputsNamedAsChannels ==
    {"input_voltage2", "input_voltage3", "input_voltage0-voltage1", "input_voltage2-voltage3"}

(* The raw topics the transforms of both boards subscribe to.              *)
TransformInputs ==
    {"input_voltage2", "input_voltage3", "input_voltage0_voltage1", "input_voltage2_voltage3"}

(* Scales in 10^-9 mV: what the configuration writes, and what the formula *)
(* of the transforms multiplies by.                                        *)
ConfigScale == [ad5592r |-> 610351563, ad7124_8 |-> 149011]

ad5592r_transforms  == 610351562
ad7124_8_transforms == 1164

ResetScale     == 0   \* a device that was not configured: any other value

TransformScale == IF board = "ad5592r" THEN ad5592r_transforms ELSE ad7124_8_transforms

ScaleOf(ch) == IF <<ch, "scale">> \in configured THEN ConfigScale[board] ELSE ResetScale

Init ==
    /\ board \in Boards
    /\ iioUp = FALSE
    /\ ended = [p \in Processes(board) |-> 0]
    /\ inCall = [p \in Processes(board) |-> 0]
    /\ failures = 0
    /\ configured = {}
    /\ rawTopics = {}
    /\ volts = [t \in {name \in TransformInputs :
                       \E p \in Processes(board) : name \in {p[1].channel, TopicName(p[1].channel)}}
                 |-> None]

------------------------------------------------------------------------------

(* `ros2 service call` waits until its service is there.                   *)
LaunchIIO ==
    /\ ~iioUp
    /\ iioUp' = TRUE
    /\ UNCHANGED <<board, ended, inCall, failures, configured, rawTopics, volts>>

(* The next command of the shell, when the one before has ended.           *)
Call(p) ==
    /\ iioUp
    /\ inCall[p] = ended[p] /\ inCall[p] < Len(p)
    /\ inCall' = [inCall EXCEPT ![p] = @ + 1]
    /\ UNCHANGED <<board, iioUp, ended, failures, configured, rawTopics, volts>>

Serve(c) ==
    CASE c.service = "AttrWriteString" ->
           configured' = configured \cup {<<c.channel, c.attr>>} /\ UNCHANGED rawTopics
      [] c.service = "AttrEnableTopic" ->
           rawTopics' = rawTopics \cup {TopicName(c.channel)} /\ UNCHANGED configured

(* The call in flight is served.                                           *)
Return(p) ==
    /\ ended[p] < inCall[p]
    /\ ended' = [ended EXCEPT ![p] = @ + 1]
    /\ Serve(p[inCall[p]])
    /\ UNCHANGED <<board, iioUp, inCall, failures, volts>>

(* Mutant: "&&" in the place of ";".                                       *)
FailureEndsProcess(p) ==
    /\ ended[p] < inCall[p]
    /\ failures < MaxFailures
    /\ failures' = failures + 1
    /\ ended' = [ended EXCEPT ![p] = Len(p) + 1]
    /\ UNCHANGED <<board, iioUp, inCall, configured, rawTopics, volts>>

(* adi_iio refuses, or the command fails: the shell goes on all the same.  *)
Fail(p) ==
    /\ ended[p] < inCall[p]
    /\ failures < MaxFailures
    /\ failures' = failures + 1
    /\ ended' = [ended EXCEPT ![p] = @ + 1]
    /\ UNCHANGED <<board, iioUp, inCall, configured, rawTopics, volts>>

(* adi_iio publishes what it reads and the transform multiplies it: which  *)
(* scale the reading was in and which the formula takes it to be in.       *)
Transform(ch) ==
    /\ TopicName(ch) \in rawTopics \cap DOMAIN volts
    /\ volts' = [volts EXCEPT ![TopicName(ch)] = <<ScaleOf(ch), TransformScale>>]
    /\ UNCHANGED <<board, iioUp, ended, inCall, failures, configured, rawTopics>>

Steps == \E p \in Processes(board) : Call(p) \/ Return(p) \/ Fail(p)

Next ==
    \/ LaunchIIO
    \/ Steps
    \/ \E ch \in Channels : Transform(ch)

Spec == Init /\ [][Next]_vars

(* The shells go on to their next call, adi_iio answers each, and a topic  *)
(* that is there is published and transformed.                             *)
FairSpec == Spec /\ WF_vars(Steps) /\ \A ch \in Channels : WF_vars(Transform(ch))

------------------------------------------------------------------------------

(* A process makes its calls in order, one at a time, and each is counted  *)
(* once; only what was asked for is configured or published.               *)
TypeOK ==
    /\ \A p \in Processes(board) :
         /\ inCall[p] \in 0..Len(p)
         /\ ended[p] \in {inCall[p], inCall[p] - 1}
    /\ failures \in 0..MaxFailures
    /\ configured \subseteq Channels \X {"scale", "raw", "sampling_frequency"}
    /\ rawTopics \subseteq {TopicName(ch) : ch \in Channels}

AllEnded == \A p \in Processes(board) : ended[p] = Len(p)

(* Once adi_iio is up the bring-up makes every call, also after failures,  *)
(* and when none failed every channel is configured and has its topic.     *)
BringUpCompletes ==
    iioUp ~> AllEnded /\ (failures = 0 =>
        \A p \in Processes(board), i \in 1..2 : i =< Len(p) =>
            IF p[i].service = "AttrWriteString" THEN <<p[i].channel, p[i].attr>> \in configured
            ELSE TopicName(p[i].channel) \in rawTopics)

Close(a, b) == a - b \in -1..1

(* Once the bring-up is over every transform gets the readings of its      *)
(* channel, under the name adi_iio gave the topic, and the formula of the  *)
(* AD5592R takes the scale that the configuration has written, also when   *)
(* the topic was there before it.  The AD7124-8's formula takes another.   *)
VoltsComeRight ==
    iioUp ~>
        \/ failures > 0
        \/ \A t \in DOMAIN volts :
             /\ volts[t] # None
             /\ board = "ad5592r" => Close(volts[t][1], volts[t][2])

=============================================================================
