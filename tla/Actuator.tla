------------------------------ MODULE Actuator ------------------------------
(***************************************************************************)
(* The actuator node of the AD5592R example (actuator.py), with the part   *)
(* of adi_iio it talks to: the services AttrReadString, AttrEnableTopic    *)
(* and AttrDisableTopic and the /write topics of two output channels.      *)
(*                                                                         *)
(* Callbacks run one at a time (rclpy.spin).  Each service of adi_iio      *)
(* answers its requests in order, and different services run side by side, *)
(* so what is sent to one may overtake what was sent to another.  A        *)
(* request sent before its service was discovered reaches nobody.          *)
(***************************************************************************)
EXTENDS Integers, Sequences, FiniteSets

CONSTANTS
    Depth,        \* qos, 10 in the code
    MaxCode,      \* the largest DAC code, 4095 in the code
    Scale,        \* the scale attribute of each channel, in microvolts per code
    Discoveries   \* the sets of services that can be discovered in one go

Electrodes == {"anode", "cathode"}
Services   == {"AttrReadString", "AttrEnableTopic", "AttrDisableTopic"}
Unset      == -1

ActuatorAssumption ==
    /\ Depth \in Nat \ {0}
    /\ MaxCode \in Nat
    /\ Scale \in [Electrodes -> Nat \ {0}]
    /\ Discoveries \subseteq SUBSET Services

VARIABLES
    phase,      \* "waiting" and "requesting" in the constructor, "spinning", "ended"
    found,      \* the services the node has discovered
    asked,      \* the requests each service has yet to serve
    unserved,   \* requests that reached nobody
    answers,    \* answers to read_scale on their way
    scale,      \* scale_anode and scale_cathode, Unset for None
    listening,  \* the subscriptions exist
    command,    \* the queues of the anode and the cathode topic
    enabled,    \* adi_iio has the attribute topic of the channel
    written,    \* the queue of the channel's /write topic
    dac,        \* the code in the channel's raw attribute
    forwarded,  \* the last command taken of a topic went on to an enabled channel
    landed,     \* the last message taken of the /write topic wrote the attribute
    onAtStop    \* the topics that were enabled when destroy_node ran

client == <<phase, found, scale, listening>>
node   == <<asked, unserved, answers, enabled, written, dac>>
aux    == <<forwarded, landed, onAtStop>>
vars   == <<client, node, command, aux>>

TypeOK ==
    /\ phase \in {"waiting", "requesting", "spinning", "ended"}
    /\ found \subseteq Services
    /\ DOMAIN asked = Services
    /\ unserved \in BOOLEAN
    /\ scale \in [Electrodes -> {Unset} \cup {Scale[e] : e \in Electrodes}]
    /\ listening \in BOOLEAN
    /\ \A e \in Electrodes : Len(command[e]) =< Depth /\ Len(written[e]) =< Depth
    /\ enabled \in [Electrodes -> BOOLEAN]
    /\ dac \in [Electrodes -> 0..MaxCode]
    /\ forwarded \in [Electrodes -> BOOLEAN]
    /\ landed \in [Electrodes -> BOOLEAN]
    /\ onAtStop \subseteq Electrodes

Init ==
    /\ phase = "waiting"
    /\ found = {}
    /\ asked = [s \in Services |-> <<>>]
    /\ unserved = FALSE
    /\ answers = {}
    /\ scale = [e \in Electrodes |-> Unset]
    /\ listening = FALSE
    /\ command = [e \in Electrodes |-> <<>>]
    /\ enabled = [e \in Electrodes |-> FALSE]
    /\ written = [e \in Electrodes |-> <<>>]
    /\ dac = [e \in Electrodes |-> 0]
    /\ forwarded = [e \in Electrodes |-> FALSE]
    /\ landed = [e \in Electrodes |-> FALSE]
    /\ onAtStop = {}

(* Mutant: the queue has no bound.                                         *)
KeepAll(queue, msg) == Append(queue, msg)

KeepLast(queue, msg) ==
    IF Len(queue) < Depth THEN Append(queue, msg) ELSE Append(Tail(queue), msg)

------------------------------------------------------------------------------
(* The node *)

Discover ==
    /\ phase # "ended"
    /\ \E s \in Discoveries : ~(s \subseteq found) /\ found' = found \cup s
    /\ UNCHANGED <<phase, scale, listening, node, command, aux>>

(* The loop goes on while the first service and the second and the third   *)
(* are missing: one service found is enough to leave it.                   *)
WaitForServices ==
    /\ phase = "waiting"
    /\ found # {}
    /\ phase' = "requesting"
    /\ UNCHANGED <<found, scale, listening, node, command, aux>>

(* call_async for every request of list, in order.                         *)
Send(lists) ==
    /\ asked' = [s \in Services |-> IF s \in found THEN asked[s] \o lists[s] ELSE asked[s]]
    /\ unserved' = (unserved \/ \E s \in Services \ found : lists[s] # <<>>)

enable_requests == << [path |-> "anode"], [path |-> "cathode"] >>

(* Both requests name the anode's scale; state tells which answer is whose. *)
read_scale == << [path |-> "anode", state |-> "anode"],
                 [path |-> "anode", state |-> "cathode"] >>

(* The rest of the constructor: enable both topics, subscribe, read_scale. *)
Setup ==
    /\ phase = "requesting"
    /\ Send([AttrEnableTopic |-> enable_requests, AttrReadString |-> read_scale,
             AttrDisableTopic |-> <<>>])
    /\ listening' = TRUE
    /\ phase' = "spinning"
    /\ UNCHANGED <<found, scale, answers, enabled, written, dac, command, aux>>

(* A failed answer is logged, and nothing asks again.                      *)
read_scale_response_callback(a) ==
    /\ phase = "spinning"
    /\ a \in answers
    /\ answers' = answers \ {a}
    /\ scale' = IF a.success THEN [scale EXCEPT ![a.state] = a.message] ELSE scale
    /\ UNCHANGED <<phase, found, listening, asked, unserved, enabled, written, dac, command, aux>>

(* int(mV / scale) of a voltage that is not negative, and min(4095, .).    *)
Raw(uV, s) == IF uV \div s < MaxCode THEN uV \div s ELSE MaxCode

(* What is published on a /write topic without a subscriber is gone.       *)
PublishWrite(e, code) ==
    /\ written' = IF enabled[e] THEN [written EXCEPT ![e] = KeepLast(@, code)] ELSE written
    /\ forwarded' = [forwarded EXCEPT ![e] = enabled[e]]

(* Mutant: the cathode's commands go to the anode's channel.               *)
DataCallbackCrossed(e) ==
    /\ phase = "spinning"
    /\ command[e] # <<>>
    /\ command' = [command EXCEPT ![e] = Tail(@)]
    /\ IF scale[e] = Unset
       THEN forwarded' = [forwarded EXCEPT ![e] = FALSE] /\ UNCHANGED written
       ELSE /\ written' = IF enabled["anode"]
                          THEN [written EXCEPT !["anode"] =
                                  KeepLast(@, Raw(Head(command[e]), scale[e]))]
                          ELSE written
            /\ forwarded' = [forwarded EXCEPT ![e] = enabled[e]]
    /\ UNCHANGED <<client, asked, unserved, answers, enabled, dac, landed, onAtStop>>

(* Mutant: nothing goes on before both scales are read.                    *)
DataCallbackNeedsBoth(e) ==
    /\ phase = "spinning"
    /\ command[e] # <<>>
    /\ command' = [command EXCEPT ![e] = Tail(@)]
    /\ IF \E x \in Electrodes : scale[x] = Unset
       THEN forwarded' = [forwarded EXCEPT ![e] = FALSE] /\ UNCHANGED written
       ELSE PublishWrite(e, Raw(Head(command[e]), scale[e]))
    /\ UNCHANGED <<client, asked, unserved, answers, enabled, dac, landed, onAtStop>>

(* anode_data_callback and cathode_data_callback                           *)
data_callback(e) ==
    /\ phase = "spinning"
    /\ command[e] # <<>>
    /\ command' = [command EXCEPT ![e] = Tail(@)]
    /\ IF scale[e] = Unset
       THEN forwarded' = [forwarded EXCEPT ![e] = FALSE] /\ UNCHANGED written
       ELSE PublishWrite(e, Raw(Head(command[e]), scale[e]))
    /\ UNCHANGED <<client, asked, unserved, answers, enabled, dac, landed, onAtStop>>

(* Mutant: the second request of destroy_node names the anode again.       *)
DisableAnodeTwice == << [path |-> "anode"], [path |-> "anode"] >>

disable_requests == << [path |-> "anode"], [path |-> "cathode"] >>

(* SIGINT while spinning: destroy_node asks to disable both topics and     *)
(* waits for no answer.                                                    *)
destroy_node ==
    /\ phase = "spinning"
    /\ Send([AttrEnableTopic |-> <<>>, AttrReadString |-> <<>>,
             AttrDisableTopic |-> disable_requests])
    /\ phase' = "ended"
    /\ listening' = FALSE
    /\ command' = [e \in Electrodes |-> <<>>]
    /\ answers' = {}
    /\ onAtStop' = IF "AttrDisableTopic" \in found THEN {e \in Electrodes : enabled[e]} ELSE {}
    /\ UNCHANGED <<found, scale, enabled, written, dac, forwarded, landed>>

(* SIGINT in the constructor, which main calls outside of its try: no      *)
(* destroy_node.                                                           *)
InterruptedSetup ==
    /\ phase \in {"waiting", "requesting"}
    /\ phase' = "ended"
    /\ UNCHANGED <<found, scale, listening, node, command, aux>>

------------------------------------------------------------------------------
(* adi_iio *)

Take(s) == asked[s] # <<>> /\ asked' = [asked EXCEPT ![s] = Tail(@)]

ServeEnable ==
    /\ Take("AttrEnableTopic")
    /\ \/ enabled' = [enabled EXCEPT ![Head(asked["AttrEnableTopic"]).path] = TRUE]
       \/ UNCHANGED enabled
    /\ UNCHANGED <<client, unserved, answers, written, dac, command, aux>>

ServeDisable ==
    LET e == Head(asked["AttrDisableTopic"]).path IN
    /\ Take("AttrDisableTopic")
    /\ enabled' = [enabled EXCEPT ![e] = FALSE]
    /\ written' = [written EXCEPT ![e] = <<>>]
    /\ UNCHANGED <<client, unserved, answers, dac, command, aux>>

ServeRead ==
    LET r == Head(asked["AttrReadString"]) IN
    /\ Take("AttrReadString")
    /\ answers' = IF phase = "ended" THEN answers
                  ELSE answers \cup {[state |-> r.state, success |-> TRUE,
                                      message |-> Scale[r.path]]}
    /\ UNCHANGED <<client, unserved, enabled, written, dac, command, aux>>

ServeReadFails ==
    LET r == Head(asked["AttrReadString"]) IN
    /\ Take("AttrReadString")
    /\ answers' = IF phase = "ended" THEN answers
                  ELSE answers \cup {[state |-> r.state, success |-> FALSE, message |-> 0]}
    /\ UNCHANGED <<client, unserved, enabled, written, dac, command, aux>>

(* IIOAttrTopic::update: the subscription of the /write topic writes the   *)
(* attribute.  What rwAttrPath returns is dropped: after a failed write    *)
(* the message is gone and the attribute keeps what it had.                *)
UpdateAttr(e) ==
    /\ written[e] # <<>>
    /\ \/ dac' = [dac EXCEPT ![e] = Head(written[e])] /\ landed' = [landed EXCEPT ![e] = TRUE]
       \/ UNCHANGED dac /\ landed' = [landed EXCEPT ![e] = FALSE]
    /\ written' = [written EXCEPT ![e] = Tail(@)]
    /\ UNCHANGED <<client, asked, unserved, answers, enabled, command, forwarded, onAtStop>>

------------------------------------------------------------------------------

Callback == \/ \E a \in answers : read_scale_response_callback(a)
            \/ \E e \in Electrodes : data_callback(e)
Serve    == ServeEnable \/ ServeDisable \/ ServeRead \/ ServeReadFails

Next ==
    \/ Discover \/ WaitForServices \/ Setup \/ destroy_node \/ InterruptedSetup
    \/ Callback
    \/ Serve
    \/ \E e \in Electrodes : UpdateAttr(e)

Spec == Init /\ [][Next]_vars

------------------------------------------------------------------------------
(* When adi_iio has served what destroy_node asked for, no attribute topic *)
(* that was enabled when it ran is left, whatever overtook what ("Use      *)
(* AttrDisableTopic during node shutdown to clean up the topics",          *)
(* doc/Examples/02_example_ad5592r.rst:439).                               *)
TeardownDisables ==
    phase = "ended" /\ asked["AttrDisableTopic"] = <<>> => \A e \in onAtStop : ~enabled[e]

(* "Wait for the services to be available" (actuator.py:126): every        *)
(* request is sent to a service that is there.                             *)
RequestsFindTheirService == ~unserved

=============================================================================
