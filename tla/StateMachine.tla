---------------------------- MODULE StateMachine ----------------------------
(***************************************************************************)
(* The state machine node of the AD5592R example (state_machine.py): a     *)
(* timer that plays a ramp up and down, first on the anode topic, then on  *)
(* the cathode topic, one point a tick.                                    *)
(*                                                                         *)
(* The two branches for a state outside of STATE_TRANSITIONS (lines 76-78  *)
(* and 83-87) are left out: state starts inside and only ever becomes some *)
(* "next" of the table.                                                    *)
(***************************************************************************)
EXTENDS Integers, Sequences

CONSTANTS
    NPoints,  \* N_POINTS, 1024 in the code
    Depth     \* how many messages a topic keeps for its subscriber, 10 in the code

StateMachineAssumption ==
    /\ NPoints \in Nat /\ NPoints > 1
    /\ Depth \in Nat \ {0}

VARIABLES
    state,      \* self.state
    idx,        \* self.idx
    last,       \* the point each topic was last given, Unset before the first
    listening,  \* the subscriber of both topics exists
    command     \* its queue of each topic, oldest message first

vars == <<state, idx, last, listening, command>>

Electrodes == {"anode", "cathode"}
Unset      == -1

(* np.linspace(0, 2.5, N_POINTS), in microvolts.                           *)
SIGNAL == [i \in 0..(NPoints - 1) |-> (2500000 * i) \div (NPoints - 1)]

(* Mutant: the falling ramp of the anode ends one point early.             *)
TransitionsEndEarly ==
    [ANODE_RISING    |-> [next |-> "ANODE_FALLING",   increment |-> 1,  target_idx |-> NPoints - 1],
     ANODE_FALLING   |-> [next |-> "CATHODE_RISING",  increment |-> -1, target_idx |-> 1],
     CATHODE_RISING  |-> [next |-> "CATHODE_FALLING", increment |-> 1,  target_idx |-> NPoints - 1],
     CATHODE_FALLING |-> [next |-> "ANODE_RISING",    increment |-> -1, target_idx |-> 0]]

STATE_TRANSITIONS ==
    [ANODE_RISING    |-> [next |-> "ANODE_FALLING",   increment |-> 1,  target_idx |-> NPoints - 1],
     ANODE_FALLING   |-> [next |-> "CATHODE_RISING",  increment |-> -1, target_idx |-> 0],
     CATHODE_RISING  |-> [next |-> "CATHODE_FALLING", increment |-> 1,  target_idx |-> NPoints - 1],
     CATHODE_FALLING |-> [next |-> "ANODE_RISING",    increment |-> -1, target_idx |-> 0]]

States == DOMAIN STATE_TRANSITIONS

Init ==
    /\ state = "ANODE_RISING"
    /\ idx = 0
    /\ last = [e \in Electrodes |-> Unset]
    /\ listening = FALSE
    /\ command = [e \in Electrodes |-> <<>>]

(* state.startswith("ANODE"), state.startswith("CATHODE")                  *)
Driven(st) == IF st \in {"ANODE_RISING", "ANODE_FALLING"} THEN "anode" ELSE "cathode"

(* KEEP_LAST: a full queue loses its oldest message.                       *)
KeepLast(queue, msg) ==
    IF Len(queue) < Depth THEN Append(queue, msg) ELSE Append(Tail(queue), msg)

publish(e) ==
    /\ last' = [last EXCEPT ![e] = idx]
    /\ command' = IF listening
                  THEN [command EXCEPT ![e] = KeepLast(@, SIGNAL[idx])]
                  ELSE command

(* Mutant: a falling ramp starts again from the top.                       *)
UpdateStateWraps ==
    LET transition == STATE_TRANSITIONS[state]
        moved      == (idx + 1) % NPoints
    IN  /\ idx' = moved
        /\ state' = IF moved = transition.target_idx THEN transition.next ELSE state

update_state ==
    LET transition == STATE_TRANSITIONS[state]
        moved      == (idx + transition.increment) % NPoints
    IN  /\ idx' = moved
        /\ state' = IF moved = transition.target_idx THEN transition.next ELSE state

timer_callback ==
    /\ publish(Driven(state))
    /\ update_state
    /\ UNCHANGED listening

Spec == Init /\ [][timer_callback]_vars

------------------------------------------------------------------------------
(* state and idx stay inside the tables they index.                        *)
TypeOK ==
    /\ state \in States
    /\ idx \in DOMAIN SIGNAL
    /\ last \in [Electrodes -> DOMAIN SIGNAL \cup {Unset}]

(* Each electrode is moved by at most one point of the ramp from one       *)
(* message to the next, over the turning points, the change of electrode   *)
(* and the modulo of update_state: the voltage never jumps.                *)
Continuity ==
    [][\A e \in Electrodes :
         last[e] # Unset => last'[e] - last[e] \in {-1, 0, 1}]_last

(* While one electrode is above the lowest step of the ramp the other one  *)
(* rests at it or below: update_state leaves a ramp only when it is down.  *)
OneElectrodeAtATime == \E e \in Electrodes : last[e] =< 1

=============================================================================
