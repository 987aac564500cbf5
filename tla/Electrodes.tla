----------------------------- MODULE Electrodes -----------------------------
(***************************************************************************)
(* The AD5592R example: the state machine node, the anode and the cathode  *)
(* topic, the actuator node and adi_iio's two output channels.             *)
(***************************************************************************)
EXTENDS Integers, Sequences

CONSTANTS NPoints, Depth, MaxCode, Scale, Discoveries

VARIABLES state, idx, last, listening, command,
          phase, found, asked, unserved, answers, scale, enabled, written, dac,
          forwarded, landed, onAtStop

SM  == INSTANCE StateMachine
Act == INSTANCE Actuator

ramp == <<state, idx, last>>
vars == <<ramp, Act!vars>>

Init == SM!Init /\ Act!Init

Tick == SM!timer_callback
        /\ UNCHANGED <<phase, found, asked, unserved, answers, scale, enabled, written, dac,
                       forwarded, landed, onAtStop>>

Next == Tick \/ (Act!Next /\ UNCHANGED ramp)

Spec == Init /\ [][Next]_vars

(* The timer fires and rclpy.spin serves each subscription that has a      *)
(* message.  No request has to be served, no service to appear.            *)
FairSpec ==
    /\ Spec
    /\ WF_vars(Tick)
    /\ \A e \in SM!Electrodes : WF_vars(Act!data_callback(e) /\ UNCHANGED ramp)

------------------------------------------------------------------------------
(* The types of both nodes.                                                *)
TypeOK == SM!TypeOK /\ Act!TypeOK

(* The voltages asked for do not jump and drive one electrode at a time    *)
(* (state_machine.py).                                                     *)
Continuity          == SM!Continuity
OneElectrodeAtATime == SM!OneElectrodeAtATime

(* The actuator's teardown (actuator.py:206) disables its topics.          *)
TeardownDisables == Act!TeardownDisables

(* The actuator's requests reach their services (actuator.py:126).         *)
RequestsFindTheirService == Act!RequestsFindTheirService

(* The actuator has what it needs to drive electrode e.                    *)
Ready(e) == phase = "spinning" /\ enabled[e] /\ scale[e] # Act!Unset

(* When no message is on its way, the DAC of a driven electrode holds the  *)
(* code of the voltage the state machine last asked of it, in the scale    *)
(* the actuator has read, unless the device refused that very write: no    *)
(* stale command overtakes a newer one, a full queue loses old ones only,  *)
(* and a write that failed before is made good by the next one.            *)
LatestReachesDAC ==
    \A e \in SM!Electrodes :
        Ready(e) /\ forwarded[e] /\ landed[e] /\ command[e] = <<>> /\ written[e] = <<>>
            => dac[e] = Act!Raw(SM!SIGNAL[last[e]], scale[e])

(* Again and again every electrode whose scale was read and whose topic is *)
(* enabled is driven: it does not wait for ever while the node runs.       *)
EventuallyDriven == []<>(\A e \in SM!Electrodes : Ready(e) => forwarded[e])

=============================================================================
