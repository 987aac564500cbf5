-------------------------- MODULE Electrodes_proofs --------------------------
(***************************************************************************)
(* Theorems about Electrodes for every number of points, every depth of    *)
(* the queues, every largest code and every order of discovery.            *)
(***************************************************************************)
EXTENDS Electrodes, SequenceTheorems, TLAPS

Assumption == SM!StateMachineAssumption /\ Act!ActuatorAssumption

AC == {"anode", "cathode"}

Other(e) == IF e = "anode" THEN "cathode" ELSE "anode"

(* Where an electrode may be that rests: never driven, or one point up.    *)
Resting == {SM!Unset, 1}

(* The point before idx on the ramp of state, as its electrode was given.  *)
Behind ==
    IF state \in {"ANODE_RISING", "CATHODE_RISING"}
    THEN /\ idx \in 0..(NPoints - 2)
         /\ idx = 0 => last[SM!Driven(state)] \in Resting
         /\ idx > 0 => last[SM!Driven(state)] = idx - 1
    ELSE /\ idx \in 1..(NPoints - 1)
         /\ idx = NPoints - 1 => last[SM!Driven(state)] = NPoints - 2
         /\ idx < NPoints - 1 => last[SM!Driven(state)] = idx + 1

(* The inductive invariant: a ramp is at idx, the other electrode rests.   *)
RampInv ==
    /\ SM!TypeOK
    /\ Behind
    /\ last[Other(SM!Driven(state))] \in Resting

(* What the two queues of an electrode carry.  The codes are all in the    *)
(* scale of the anode: both requests of read_scale name it, and the two    *)
(* channels need not have the same one.                                    *)
Points == {SM!SIGNAL[i] : i \in 0..(NPoints - 1)}
Code(p) == Act!Raw(p, Scale["anode"])
Codes  == {Code(p) : p \in Points}

Newest(q) == q[Len(q)]

(* The types of the queues, and of what read_scale is answered.            *)
QueueInv ==
    /\ command \in [AC -> Seq(Points)]
    /\ written \in [AC -> Seq(Codes)]
    /\ DOMAIN forwarded = AC
    /\ DOMAIN dac = AC /\ DOMAIN landed = AC
    /\ asked["AttrReadString"] \in Seq({[path |-> "anode", state |-> e] : e \in AC})
    /\ \A a \in answers : a.state \in AC /\ (a.success => a.message = Scale["anode"])
    /\ scale \in [AC -> {Act!Unset, Scale["anode"]}]
    /\ last \in [AC -> 0..(NPoints - 1) \cup {SM!Unset}]

(* Nothing is forwarded before the node spins, and nothing is disabled     *)
(* while it does.                                                          *)
PhaseInv ==
    /\ DOMAIN asked = Act!Services
    /\ phase \in {"waiting", "requesting", "spinning", "ended"}
    /\ phase = "spinning" <=> listening
    /\ listening \in BOOLEAN
    /\ phase # "ended" => asked["AttrDisableTopic"] = <<>>
    /\ phase \in {"waiting", "requesting"} =>
         \A e \in AC : command[e] = <<>> /\ ~forwarded[e]

(* Of each electrode, the newest message on its way is the last command;   *)
(* once it was forwarded, the newest code is its code, and so is what the  *)
(* DAC holds when that code was the last to be taken and was not refused.  *)
Newer(e) ==
    /\ command[e] # <<>> =>
         last[e] \in 0..(NPoints - 1) /\ Newest(command[e]) = SM!SIGNAL[last[e]]
    /\ command[e] = <<>> /\ forwarded[e] =>
         IF written[e] = <<>>
         THEN landed[e] => dac[e] = Code(SM!SIGNAL[last[e]])
         ELSE Newest(written[e]) = Code(SM!SIGNAL[last[e]])

DeliveryInv ==
    /\ RampInv
    /\ QueueInv
    /\ PhaseInv
    /\ phase = "spinning" => \A e \in AC : Newer(e)

------------------------------------------------------------------------------
(* The ramp *)

LEMMA ModIsIdentity ==
    ASSUME SM!StateMachineAssumption, NEW i \in 0..(NPoints - 1)
    PROVE  i % NPoints = i
  BY SMT DEF SM!StateMachineAssumption

(* SM!update_state on a rising ramp.                                          *)
LEMMA Rises ==
    ASSUME SM!StateMachineAssumption, RampInv, SM!timer_callback,
           state \in {"ANODE_RISING", "CATHODE_RISING"}
    PROVE  /\ idx' = idx + 1
           /\ state' = IF idx' = NPoints - 1 THEN SM!STATE_TRANSITIONS[state].next ELSE state
  <1>1. (idx + 1) \in 0..(NPoints - 1)
    BY DEF SM!StateMachineAssumption, RampInv, Behind
  <1>2. SM!STATE_TRANSITIONS[state].increment = 1 /\ SM!STATE_TRANSITIONS[state].target_idx = NPoints - 1
    BY DEF SM!STATE_TRANSITIONS
  <1>3. (idx + 1) % NPoints = idx + 1
    BY <1>1, ModIsIdentity
  <1> QED BY <1>2, <1>3 DEF SM!timer_callback, SM!update_state

(* SM!update_state on a falling ramp.                                         *)
LEMMA Falls ==
    ASSUME SM!StateMachineAssumption, RampInv, SM!timer_callback,
           state \in {"ANODE_FALLING", "CATHODE_FALLING"}
    PROVE  /\ idx' = idx - 1
           /\ state' = IF idx' = 0 THEN SM!STATE_TRANSITIONS[state].next ELSE state
  <1>1. (idx - 1) \in 0..(NPoints - 1) /\ idx + -1 = idx - 1
    BY DEF SM!StateMachineAssumption, RampInv, Behind
  <1>2. SM!STATE_TRANSITIONS[state].increment = -1 /\ SM!STATE_TRANSITIONS[state].target_idx = 0
    BY DEF SM!STATE_TRANSITIONS
  <1>3. (idx + -1) % NPoints = idx - 1
    BY <1>1, ModIsIdentity
  <1> QED BY <1>2, <1>3 DEF SM!timer_callback, SM!update_state

LEMMA RampInit ==
    ASSUME SM!StateMachineAssumption, SM!Init
    PROVE  RampInv
  BY DEF SM!StateMachineAssumption, SM!Init, RampInv, SM!TypeOK, Behind, Resting, Other, SM!Driven,
         SM!Electrodes, SM!States, SM!STATE_TRANSITIONS, SM!SIGNAL, SM!Unset

LEMMA RampStep ==
    ASSUME SM!StateMachineAssumption, RampInv, SM!timer_callback
    PROVE  RampInv'
  <1> USE DEF SM!StateMachineAssumption
  <1>1. last' = [last EXCEPT ![SM!Driven(state)] = idx]
    BY DEF SM!timer_callback, SM!publish
  <1>2. state \in {"ANODE_RISING", "ANODE_FALLING", "CATHODE_RISING", "CATHODE_FALLING"}
    BY DEF RampInv, SM!TypeOK, SM!States, SM!STATE_TRANSITIONS
  <1>3. idx \in 0..(NPoints - 1) /\ last \in [{"anode", "cathode"} -> -1..(NPoints - 1)]
    BY DEF RampInv, SM!TypeOK, SM!SIGNAL, SM!Electrodes, SM!Unset
  <1>4. CASE state \in {"ANODE_RISING", "CATHODE_RISING"}
    <2>1. /\ idx' = idx + 1
          /\ state' = IF idx' = NPoints - 1 THEN SM!STATE_TRANSITIONS[state].next ELSE state
      BY <1>4, Rises
    <2>2. CASE state = "ANODE_RISING"
      BY <1>1, <1>3, <2>1, <2>2 DEF RampInv, SM!TypeOK, Behind, Resting, Other, SM!Driven,
         SM!Electrodes, SM!States, SM!STATE_TRANSITIONS, SM!SIGNAL, SM!Unset
    <2>3. CASE state = "CATHODE_RISING"
      BY <1>1, <1>3, <2>1, <2>3 DEF RampInv, SM!TypeOK, Behind, Resting, Other, SM!Driven,
         SM!Electrodes, SM!States, SM!STATE_TRANSITIONS, SM!SIGNAL, SM!Unset
    <2> QED BY <1>4, <2>2, <2>3
  <1>5. CASE state \in {"ANODE_FALLING", "CATHODE_FALLING"}
    <2>1. /\ idx' = idx - 1
          /\ state' = IF idx' = 0 THEN SM!STATE_TRANSITIONS[state].next ELSE state
      BY <1>5, Falls
    <2>2. CASE state = "ANODE_FALLING"
      BY <1>1, <1>3, <2>1, <2>2 DEF RampInv, SM!TypeOK, Behind, Resting, Other, SM!Driven,
         SM!Electrodes, SM!States, SM!STATE_TRANSITIONS, SM!SIGNAL, SM!Unset
    <2>3. CASE state = "CATHODE_FALLING"
      BY <1>1, <1>3, <2>1, <2>3 DEF RampInv, SM!TypeOK, Behind, Resting, Other, SM!Driven,
         SM!Electrodes, SM!States, SM!STATE_TRANSITIONS, SM!SIGNAL, SM!Unset
    <2> QED BY <1>5, <2>2, <2>3
  <1> QED BY <1>2, <1>4, <1>5

LEMMA RampStutter ==
    ASSUME RampInv, UNCHANGED <<state, idx, last>>
    PROVE  RampInv'
  BY DEF RampInv, SM!TypeOK, Behind

(* What Continuity says of a step.                                         *)
Near == \A e \in SM!Electrodes : last[e] # SM!Unset => last'[e] - last[e] \in {-1, 0, 1}

LEMMA RampNear ==
    ASSUME SM!StateMachineAssumption, RampInv, SM!timer_callback
    PROVE  Near
  <1> SUFFICES ASSUME NEW e \in SM!Electrodes, last[e] # SM!Unset
               PROVE  last'[e] - last[e] \in {-1, 0, 1}
    BY DEF Near
  <1>1. last' = [last EXCEPT ![SM!Driven(state)] = idx]
    BY DEF SM!timer_callback, SM!publish
  <1>2. last[e] \in Int /\ idx \in Int /\ last \in [SM!Electrodes -> Int]
    BY DEF RampInv, SM!TypeOK, SM!SIGNAL, SM!Unset, SM!StateMachineAssumption
  <1>3. CASE e = SM!Driven(state)
    BY <1>1, <1>2, <1>3 DEF RampInv, Behind, Resting, SM!StateMachineAssumption, SM!Unset
  <1>4. CASE e # SM!Driven(state)
    BY <1>1, <1>2, <1>4
  <1> QED BY <1>3, <1>4

------------------------------------------------------------------------------
(* Queues *)

LEMMA Appended ==
    ASSUME NEW S, NEW q \in Seq(S), NEW m \in S
    PROVE  /\ Append(q, m) \in Seq(S)
           /\ Append(q, m) # <<>>
           /\ Newest(Append(q, m)) = m
  BY DEF Newest

LEMMA Taken ==
    ASSUME NEW S, NEW q \in Seq(S), q # <<>>
    PROVE  /\ Head(q) \in S
           /\ Tail(q) \in Seq(S)
           /\ Newest(q) = IF Tail(q) = <<>> THEN Head(q) ELSE Newest(Tail(q))
  <1>1. /\ Head(q) \in S /\ Tail(q) \in Seq(S)
        /\ Len(Tail(q)) = Len(q) - 1
        /\ \A i \in 1..Len(Tail(q)) : Tail(q)[i] = q[i + 1]
    BY HeadTailProperties
  <1>2. CASE Tail(q) = <<>>
    <2>1. Len(Tail(q)) = 0
      BY <1>2, EmptySeq
    <2>2. Len(q) \in Nat /\ Head(q) = q[1]
      BY LenProperties
    <2>3. Len(q) = 1
      <3>1. Len(Tail(q)) = Len(q) - 1
        BY <1>1
      <3>2. 0 = Len(q) - 1
        BY <2>1, <3>1, Zenon
      <3> QED BY <2>2, <3>2
    <2>4. Newest(q) = Head(q)
      BY <2>2, <2>3, Zenon DEF Newest
    <2> QED BY <1>1, <1>2, <2>4
  <1>3. CASE Tail(q) # <<>>
    <2>1. Len(Tail(q)) \in 1..Len(Tail(q)) /\ Len(q) \in Nat
      BY <1>1, <1>3, EmptySeq, LenProperties
    <2>2. Tail(q)[Len(Tail(q))] = q[Len(Tail(q)) + 1] /\ Len(Tail(q)) + 1 = Len(q)
      BY <1>1, <2>1
    <2> QED BY <1>1, <1>3, <2>2 DEF Newest
  <1> QED BY <1>1, <1>2, <1>3

LEMMA Kept ==
    ASSUME Depth \in Nat \ {0}, NEW S, NEW q \in Seq(S), NEW m \in S
    PROVE  /\ SM!KeepLast(q, m) = Act!KeepLast(q, m)
           /\ SM!KeepLast(q, m) \in Seq(S)
           /\ SM!KeepLast(q, m) # <<>>
           /\ Newest(SM!KeepLast(q, m)) = m
  <1>1. CASE Len(q) < Depth
    BY <1>1, Appended DEF SM!KeepLast, Act!KeepLast
  <1>2. CASE ~(Len(q) < Depth)
    <2>1. q # <<>>
      BY <1>2
    <2>2. Tail(q) \in Seq(S)
      BY <2>1, Taken
    <2> QED BY <1>2, <2>2, Appended DEF SM!KeepLast, Act!KeepLast
  <1> QED BY <1>1, <1>2

LEMMA Distinct == SM!Electrodes = AC /\ Act!Electrodes = AC
  BY DEF SM!Electrodes, Act!Electrodes, AC

------------------------------------------------------------------------------
(* The initial states *)

LEMMA DeliveryInit ==
    ASSUME Assumption, Init
    PROVE  DeliveryInv
  <1>1. RampInv
    BY RampInit DEF Init, Assumption
  <1>2. QueueInv
    BY DEF Init, SM!Init, Act!Init, QueueInv, AC, SM!Electrodes, Act!Electrodes, Act!Services
  <1>3. PhaseInv /\ phase # "spinning"
    BY DEF Init, SM!Init, Act!Init, PhaseInv, AC, SM!Electrodes, Act!Electrodes, Act!Services
  <1> QED BY <1>1, <1>2, <1>3 DEF DeliveryInv

------------------------------------------------------------------------------
(* The steps *)

(* A step that leaves the queues alone keeps what is on its way.           *)
LEMMA Quiet ==
    ASSUME DeliveryInv, QueueInv', PhaseInv', UNCHANGED ramp,
           UNCHANGED <<command, written, dac, forwarded, landed>>,
           phase' = "spinning" => phase = "spinning"
    PROVE  DeliveryInv'
  <1>1. RampInv'
    BY RampStutter DEF DeliveryInv, ramp
  <1>2. ASSUME NEW e \in AC, phase' = "spinning"
        PROVE  Newer(e)'
    BY <1>2 DEF DeliveryInv, Newer, Newest, ramp
  <1> QED BY <1>1, <1>2 DEF DeliveryInv

(* The timer publishes: its message is the newest of its queue.            *)
LEMMA TickStep ==
    ASSUME Assumption, DeliveryInv, Tick
    PROVE  DeliveryInv'
  <1>1. RampInv'
    BY RampStep DEF DeliveryInv, Tick, Assumption
  <1> DEFINE d == SM!Driven(state)
             m == SM!SIGNAL[idx]
  <1>2. d \in AC /\ last' = [last EXCEPT ![d] = idx]
        /\ command' = IF listening THEN [command EXCEPT ![d] = SM!KeepLast(@, m)] ELSE command
    BY DEF Tick, SM!timer_callback, SM!publish, SM!Driven, AC
  <1>3. idx \in 0..(NPoints - 1) /\ m \in Points
    BY DEF DeliveryInv, RampInv, SM!TypeOK, SM!SIGNAL, Points
  <1>4. /\ SM!KeepLast(command[d], m) \in Seq(Points)
        /\ SM!KeepLast(command[d], m) # <<>>
        /\ Newest(SM!KeepLast(command[d], m)) = m
    <2>1. command[d] \in Seq(Points) /\ Depth \in Nat \ {0}
      BY <1>2 DEF DeliveryInv, QueueInv, Assumption, SM!StateMachineAssumption
    <2> QED BY <1>3, <2>1, Kept
  <1>5. UNCHANGED <<phase, asked, answers, scale, listening, written, dac, forwarded, landed>>
    BY DEF Tick, SM!timer_callback
  <1> HIDE DEF d, m
  <1>6. QueueInv'
    BY <1>2, <1>3, <1>4, <1>5 DEF DeliveryInv, QueueInv
  <1>7. PhaseInv'
    <2>1. command' \in [AC -> Seq(Points)]
      BY <1>6 DEF QueueInv
    <2> QED BY <1>2, <1>5, <2>1 DEF DeliveryInv, PhaseInv
  <1>8. ASSUME NEW e \in AC, phase' = "spinning"
        PROVE  Newer(e)'
    <2>1. listening /\ Newer(e)
      BY <1>5, <1>8 DEF DeliveryInv, PhaseInv
    <2>2. CASE e = d
      <3>1. command'[e] = SM!KeepLast(command[d], m) /\ last'[e] = idx
        BY <1>2, <2>1, <2>2 DEF DeliveryInv, QueueInv
      <3> QED BY <1>3, <1>4, <3>1 DEF Newer, m
    <2>3. CASE e # d
      <3>1. command'[e] = command[e] /\ last'[e] = last[e]
        BY <1>2, <2>3 DEF DeliveryInv, QueueInv
      <3> QED BY <1>5, <2>1, <3>1 DEF Newer
    <2> QED BY <2>2, <2>3
  <1> QED BY <1>1, <1>6, <1>7, <1>8 DEF DeliveryInv

Requests == {[path |-> "anode", state |-> e] : e \in AC}

LEMMA ReadScale == Act!read_scale \in Seq(Requests)
  BY DEF Act!read_scale, Requests, AC

(* What Send does to the two queues of requests that the invariant names.  *)
LEMMA Sent ==
    ASSUME DeliveryInv, NEW lists, DOMAIN lists = Act!Services, Act!Send(lists)
    PROVE  /\ DOMAIN asked' = Act!Services
           /\ lists["AttrReadString"] \in Seq(Requests) => asked'["AttrReadString"] \in Seq(Requests)
           /\ asked["AttrDisableTopic"] = <<>> /\ lists["AttrDisableTopic"] = <<>>
                => asked'["AttrDisableTopic"] = <<>>
  <1>1. asked' = [s \in Act!Services |-> IF s \in found THEN asked[s] \o lists[s] ELSE asked[s]]
    BY DEF Act!Send
  <1>2. asked["AttrReadString"] \in Seq(Requests)
    BY DEF DeliveryInv, QueueInv, Requests
  <1>3. {"AttrReadString", "AttrDisableTopic"} \subseteq Act!Services
    BY DEF Act!Services
  <1>4. <<>> \o <<>> = <<>>
    OBVIOUS
  <1> QED BY <1>1, <1>2, <1>3, <1>4

(* The subscriptions begin: nothing is on its way.                         *)
LEMMA SetupStep ==
    ASSUME DeliveryInv, Act!Setup, UNCHANGED ramp
    PROVE  DeliveryInv'
  <1> DEFINE lists == [AttrEnableTopic |-> Act!enable_requests,
                       AttrReadString |-> Act!read_scale, AttrDisableTopic |-> <<>>]
  <1>1. DOMAIN lists = Act!Services /\ lists["AttrReadString"] = Act!read_scale
        /\ lists["AttrDisableTopic"] = <<>>
    BY DEF Act!Services
  <1>2. Act!Send(lists)
    BY DEF Act!Setup
  <1> HIDE DEF lists
  <1>3. /\ DOMAIN asked' = Act!Services
        /\ asked'["AttrReadString"] \in Seq(Requests)
        /\ phase # "ended" => asked'["AttrDisableTopic"] = <<>>
    BY <1>1, <1>2, Sent, ReadScale DEF DeliveryInv, PhaseInv
  <1>4. /\ phase = "requesting" /\ phase' = "spinning" /\ listening' = TRUE
        /\ UNCHANGED <<scale, answers, written, dac, command, forwarded, landed>>
    BY DEF Act!Setup, Act!aux
  <1>5. QueueInv'
    BY <1>3, <1>4 DEF DeliveryInv, QueueInv, ramp, Requests
  <1>6. PhaseInv'
    BY <1>3, <1>4 DEF DeliveryInv, PhaseInv
  <1>7. ASSUME NEW e \in AC
        PROVE  Newer(e)'
    BY <1>4, <1>7 DEF DeliveryInv, PhaseInv, Newer
  <1>8. RampInv'
    BY RampStutter DEF DeliveryInv, ramp
  <1> QED BY <1>5, <1>6, <1>7, <1>8 DEF DeliveryInv

(* A node that has ended promises nothing.                                 *)
LEMMA DestroyStep ==
    ASSUME DeliveryInv, Act!destroy_node, UNCHANGED ramp
    PROVE  DeliveryInv'
  <1> DEFINE lists == [AttrEnableTopic |-> <<>>, AttrReadString |-> <<>>,
                       AttrDisableTopic |-> Act!disable_requests]
  <1>1. DOMAIN lists = Act!Services /\ lists["AttrReadString"] \in Seq(Requests)
    BY DEF Act!Services
  <1>2. Act!Send(lists)
    BY DEF Act!destroy_node
  <1> HIDE DEF lists
  <1>3. DOMAIN asked' = Act!Services /\ asked'["AttrReadString"] \in Seq(Requests)
    BY <1>1, <1>2, Sent
  <1>4. /\ phase' = "ended" /\ listening' = FALSE /\ answers' = {}
        /\ command' = [e \in AC |-> <<>>]
        /\ UNCHANGED <<scale, written, dac, forwarded, landed>>
    BY Distinct DEF Act!destroy_node
  <1>5. QueueInv'
    BY <1>3, <1>4 DEF DeliveryInv, QueueInv, ramp, Requests
  <1>6. PhaseInv'
    BY <1>3, <1>4 DEF PhaseInv
  <1>7. RampInv'
    BY RampStutter DEF DeliveryInv, ramp
  <1> QED BY <1>4, <1>5, <1>6, <1>7 DEF DeliveryInv

(* The actuator takes a command: if it was the newest one and goes on, its *)
(* code is the newest of the /write topic.                                 *)
LEMMA CommandStep ==
    ASSUME Assumption, DeliveryInv, NEW e \in AC, Act!data_callback(e), UNCHANGED ramp
    PROVE  DeliveryInv'
  <1> DEFINE c == Head(command[e])
  <1>1. /\ c \in Points /\ Tail(command[e]) \in Seq(Points)
        /\ Newest(command[e]) = IF Tail(command[e]) = <<>> THEN c ELSE Newest(Tail(command[e]))
    <2>1. command[e] # <<>> /\ command[e] \in Seq(Points)
      BY DEF Act!data_callback, DeliveryInv, QueueInv
    <2> QED BY <2>1, Taken
  <1>2. Code(c) \in Codes
    BY <1>1 DEF Codes
  <1>3. /\ Act!KeepLast(written[e], Code(c)) \in Seq(Codes)
        /\ Act!KeepLast(written[e], Code(c)) # <<>>
        /\ Newest(Act!KeepLast(written[e], Code(c))) = Code(c)
    <2>1. written[e] \in Seq(Codes) /\ Depth \in Nat \ {0}
      BY DEF DeliveryInv, QueueInv, Assumption, SM!StateMachineAssumption
    <2> QED BY <1>2, <2>1, Kept
  <1>4. /\ phase = "spinning" /\ command[e] # <<>>
        /\ command' = [command EXCEPT ![e] = Tail(@)]
        /\ UNCHANGED <<phase, listening, scale, asked, answers, dac, landed>>
        /\ \/ written' = [written EXCEPT ![e] = Act!KeepLast(@, Code(c))]
              /\ forwarded' = [forwarded EXCEPT ![e] = enabled[e]]
           \/ forwarded' = [forwarded EXCEPT ![e] = FALSE] /\ written' = written
    <2>1. scale[e] # Act!Unset => Act!Raw(c, scale[e]) = Code(c)
      BY DEF DeliveryInv, QueueInv, Code
    <2> QED BY <2>1 DEF Act!data_callback, Act!PublishWrite, Act!client
  <1> HIDE DEF c
  <1>5. QueueInv'
    <2>1. command' \in [AC -> Seq(Points)]
      BY <1>1, <1>4 DEF DeliveryInv, QueueInv
    <2>2. written' \in [AC -> Seq(Codes)]
      BY <1>3, <1>4 DEF DeliveryInv, QueueInv
    <2>3. DOMAIN forwarded' = AC
      BY <1>4 DEF DeliveryInv, QueueInv
    <2> QED BY <1>4, <2>1, <2>2, <2>3 DEF DeliveryInv, QueueInv, ramp
  <1>6. PhaseInv'
    BY <1>4 DEF DeliveryInv, PhaseInv
  <1>7. ASSUME NEW x \in AC
        PROVE  Newer(x)'
    <2>1. Newer(x) /\ last' = last
      BY <1>4 DEF DeliveryInv, ramp
    <2>2. CASE x # e
      <3>1. command'[x] = command[x] /\ written'[x] = written[x] /\ forwarded'[x] = forwarded[x]
        BY <1>4, <2>2 DEF DeliveryInv, QueueInv
      <3> QED BY <1>4, <2>1, <3>1 DEF Newer
    <2>3. CASE x = e
      <3>1. command'[e] = Tail(command[e])
        BY <1>4 DEF DeliveryInv, QueueInv
      <3>2. CASE Tail(command[e]) # <<>>
        BY <1>1, <1>4, <2>1, <2>3, <3>1, <3>2 DEF Newer
      <3>3. CASE Tail(command[e]) = <<>>
        <4>1. Code(SM!SIGNAL[last[e]]) = Code(c)
          BY <1>1, <1>4, <2>1, <2>3, <3>3 DEF Newer
        <4>2. forwarded'[e] => written'[e] = Act!KeepLast(written[e], Code(c))
          BY <1>4 DEF DeliveryInv, QueueInv
        <4> QED BY <1>3, <2>1, <2>3, <3>1, <3>3, <4>1, <4>2 DEF Newer
      <3> QED BY <3>2, <3>3
    <2> QED BY <2>2, <2>3
  <1>8. RampInv'
    BY RampStutter DEF DeliveryInv, ramp
  <1> QED BY <1>5, <1>6, <1>7, <1>8 DEF DeliveryInv

(* adi_iio takes a code: the last one of the queue is what the DAC keeps,  *)
(* unless the device refuses it.                                           *)
LEMMA WriteStep ==
    ASSUME DeliveryInv, NEW e \in AC, Act!UpdateAttr(e), UNCHANGED ramp
    PROVE  DeliveryInv'
  <1>1. /\ Head(written[e]) \in Codes /\ Tail(written[e]) \in Seq(Codes)
        /\ Newest(written[e]) = IF Tail(written[e]) = <<>> THEN Head(written[e])
                                ELSE Newest(Tail(written[e]))
    <2>1. written[e] # <<>> /\ written[e] \in Seq(Codes)
      BY DEF Act!UpdateAttr, DeliveryInv, QueueInv
    <2> QED BY <2>1, Taken
  <1>2. /\ written[e] # <<>>
        /\ \/ /\ dac' = [dac EXCEPT ![e] = Head(written[e])]
              /\ landed' = [landed EXCEPT ![e] = TRUE]
           \/ dac' = dac /\ landed' = [landed EXCEPT ![e] = FALSE]
        /\ written' = [written EXCEPT ![e] = Tail(@)]
        /\ UNCHANGED <<phase, listening, scale, asked, answers, command, forwarded>>
    BY DEF Act!UpdateAttr, Act!client, Act!aux
  <1>3. QueueInv'
    BY <1>1, <1>2 DEF DeliveryInv, QueueInv, ramp
  <1>4. PhaseInv'
    BY <1>2 DEF DeliveryInv, PhaseInv
  <1>5. ASSUME NEW x \in AC, phase' = "spinning"
        PROVE  Newer(x)'
    <2>1. Newer(x) /\ last' = last
      BY <1>2, <1>5 DEF DeliveryInv, ramp
    <2>2. CASE x # e
      <3>1. written'[x] = written[x] /\ dac'[x] = dac[x] /\ landed'[x] = landed[x]
        BY <1>2, <2>2 DEF DeliveryInv, QueueInv
      <3> QED BY <1>2, <2>1, <3>1 DEF Newer
    <2>3. CASE x = e
      <3>1. /\ written'[e] = Tail(written[e])
            /\ landed'[e] => dac'[e] = Head(written[e])
        BY <1>2 DEF DeliveryInv, QueueInv
      <3> QED BY <1>1, <1>2, <2>1, <2>3, <3>1 DEF Newer
    <2> QED BY <2>2, <2>3
  <1>6. RampInv'
    BY RampStutter DEF DeliveryInv, ramp
  <1> QED BY <1>3, <1>4, <1>5, <1>6 DEF DeliveryInv

------------------------------------------------------------------------------
(* The steps that leave the queues of the electrodes alone                 *)

LEMMA AnswerStep ==
    ASSUME DeliveryInv, NEW a \in answers, Act!read_scale_response_callback(a), UNCHANGED ramp
    PROVE  DeliveryInv'
  <1>1. /\ answers' = answers \ {a}
        /\ scale' = IF a.success THEN [scale EXCEPT ![a.state] = a.message] ELSE scale
        /\ UNCHANGED <<phase, listening, asked, command, written, dac, forwarded, landed>>
    BY DEF Act!read_scale_response_callback, Act!aux
  <1>2. QueueInv'
    BY <1>1 DEF DeliveryInv, QueueInv, ramp
  <1>3. PhaseInv'
    BY <1>1 DEF DeliveryInv, PhaseInv
  <1> QED BY <1>1, <1>2, <1>3, Quiet

LEMMA ReadStep ==
    ASSUME DeliveryInv, Act!ServeRead \/ Act!ServeReadFails, UNCHANGED ramp
    PROVE  DeliveryInv'
  <1> DEFINE r == Head(asked["AttrReadString"])
  <1>1. /\ asked' = [asked EXCEPT !["AttrReadString"] = Tail(@)]
        /\ UNCHANGED <<phase, listening, scale, command, written, dac, forwarded, landed>>
        /\ asked["AttrReadString"] # <<>>
    BY DEF Act!ServeRead, Act!ServeReadFails, Act!Take, Act!client, Act!aux
  <1>2. r \in Requests /\ Tail(asked["AttrReadString"]) \in Seq(Requests)
    <2>1. asked["AttrReadString"] \in Seq(Requests)
      BY DEF DeliveryInv, QueueInv, Requests
    <2> QED BY <1>1, <2>1, Taken
  <1>3. r.state \in AC /\ r.path = "anode"
    BY <1>2 DEF Requests
  <1>4. \/ answers' = answers
        \/ answers' = answers \cup {[state |-> r.state, success |-> TRUE, message |-> Scale[r.path]]}
        \/ answers' = answers \cup {[state |-> r.state, success |-> FALSE, message |-> 0]}
    BY DEF Act!ServeRead, Act!ServeReadFails
  <1> HIDE DEF r
  <1>5. \A a \in answers' : a.state \in AC /\ (a.success => a.message = Scale["anode"])
    BY <1>3, <1>4 DEF DeliveryInv, QueueInv
  <1>6. DOMAIN asked' = Act!Services /\ asked'["AttrReadString"] \in Seq(Requests)
        /\ asked'["AttrDisableTopic"] = asked["AttrDisableTopic"]
    BY <1>1, <1>2 DEF DeliveryInv, PhaseInv, Act!Services
  <1>7. QueueInv'
    BY <1>1, <1>5, <1>6 DEF DeliveryInv, QueueInv, ramp, Requests
  <1>8. PhaseInv'
    BY <1>1, <1>6 DEF DeliveryInv, PhaseInv
  <1> QED BY <1>1, <1>7, <1>8, Quiet

(* The services that change the topics only are asked after the node has   *)
(* ended, or do not touch the queues.                                      *)
LEMMA TopicStep ==
    ASSUME DeliveryInv, Act!ServeEnable \/ Act!ServeDisable, UNCHANGED ramp
    PROVE  DeliveryInv'
  <1>1. CASE Act!ServeEnable
    <2>1. /\ asked' = [asked EXCEPT !["AttrEnableTopic"] = Tail(@)]
          /\ UNCHANGED <<phase, listening, scale, answers, command, written, dac, forwarded, landed>>
      BY <1>1 DEF Act!ServeEnable, Act!Take, Act!client, Act!aux
    <2>2. DOMAIN asked' = Act!Services /\ asked'["AttrReadString"] = asked["AttrReadString"]
          /\ asked'["AttrDisableTopic"] = asked["AttrDisableTopic"]
      BY <2>1 DEF DeliveryInv, PhaseInv, Act!Services
    <2>3. QueueInv' /\ PhaseInv'
      BY <2>1, <2>2 DEF DeliveryInv, QueueInv, PhaseInv, ramp
    <2> QED BY <2>1, <2>3, Quiet
  <1>2. CASE Act!ServeDisable
    <2> DEFINE e == Head(asked["AttrDisableTopic"]).path
    <2>1. /\ asked["AttrDisableTopic"] # <<>>
          /\ asked' = [asked EXCEPT !["AttrDisableTopic"] = Tail(@)]
          /\ written' = [written EXCEPT ![e] = <<>>]
          /\ UNCHANGED <<phase, listening, scale, answers, command, dac, forwarded, landed>>
      BY <1>2 DEF Act!ServeDisable, Act!Take, Act!client, Act!aux
    <2> HIDE DEF e
    <2>2. phase = "ended" /\ phase' = "ended"
      BY <2>1 DEF DeliveryInv, PhaseInv
    <2>3. DOMAIN asked' = Act!Services /\ asked'["AttrReadString"] = asked["AttrReadString"]
      BY <2>1 DEF DeliveryInv, PhaseInv, Act!Services
    <2>4. QueueInv'
      <3>1. <<>> \in Seq(Codes)
        BY EmptySeq
      <3>2. written' \in [AC -> Seq(Codes)]
        BY <2>1, <3>1 DEF DeliveryInv, QueueInv
      <3> QED BY <2>1, <2>3, <3>2 DEF DeliveryInv, QueueInv, ramp
    <2>5. PhaseInv'
      BY <2>1, <2>2, <2>3 DEF DeliveryInv, PhaseInv
    <2>6. RampInv'
      BY RampStutter DEF DeliveryInv, ramp
    <2> QED BY <2>2, <2>4, <2>5, <2>6 DEF DeliveryInv
  <1> QED BY <1>1, <1>2

LEMMA WaitingStep ==
    ASSUME DeliveryInv, Act!Discover \/ Act!WaitForServices \/ Act!InterruptedSetup,
           UNCHANGED ramp
    PROVE  DeliveryInv'
  <1>1. /\ phase' = "spinning" <=> phase = "spinning"
        /\ phase' \in {"waiting", "requesting", "spinning", "ended"}
        /\ phase' # "ended" => phase # "ended"
        /\ phase' \in {"waiting", "requesting"} => phase \in {"waiting", "requesting"}
        /\ UNCHANGED <<listening, scale, asked, answers, command, written, dac, forwarded, landed>>
    BY DEF Act!Discover, Act!WaitForServices, Act!InterruptedSetup, Act!node, Act!aux,
           DeliveryInv, PhaseInv
  <1>2. QueueInv' /\ PhaseInv'
    BY <1>1 DEF DeliveryInv, QueueInv, PhaseInv, ramp
  <1> QED BY <1>1, <1>2, Quiet

LEMMA DeliveryStep ==
    ASSUME Assumption, DeliveryInv, [Next]_vars
    PROVE  DeliveryInv'
  <1>1. CASE Tick
    BY <1>1, TickStep
  <1>2. CASE Act!Next /\ UNCHANGED ramp
    <2>1. CASE \E a \in answers : Act!read_scale_response_callback(a)
      BY <1>2, <2>1, AnswerStep
    <2>2. CASE \E e \in Act!Electrodes : Act!data_callback(e)
      BY <1>2, <2>2, CommandStep, Distinct
    <2>3. CASE \E e \in Act!Electrodes : Act!UpdateAttr(e)
      BY <1>2, <2>3, WriteStep, Distinct
    <2>4. CASE Act!Serve
      BY <1>2, <2>4, ReadStep, TopicStep DEF Act!Serve
    <2> QED BY <1>2, <2>1, <2>2, <2>3, <2>4, SetupStep, DestroyStep, WaitingStep
            DEF Act!Next, Act!Callback
  <1>3. CASE UNCHANGED vars
    <2>1. UNCHANGED ramp
          /\ UNCHANGED <<phase, listening, scale, asked, answers, command, written, dac, forwarded, landed>>
      BY <1>3 DEF vars, Act!vars, Act!client, Act!node, Act!aux
    <2>2. QueueInv' /\ PhaseInv'
      BY <2>1 DEF DeliveryInv, QueueInv, PhaseInv, ramp
    <2> QED BY <2>1, <2>2, Quiet
  <1> QED BY <1>1, <1>2, <1>3 DEF Next

LEMMA DeliveryImplies ==
    ASSUME Assumption, DeliveryInv
    PROVE  LatestReachesDAC
  <1> SUFFICES ASSUME NEW e \in AC, phase = "spinning", forwarded[e], command[e] = <<>>,
                      written[e] = <<>>, landed[e], scale[e] # Act!Unset
               PROVE  dac[e] = Act!Raw(SM!SIGNAL[last[e]], scale[e])
    BY Distinct DEF LatestReachesDAC, Ready
  <1>1. dac[e] = Code(SM!SIGNAL[last[e]])
    BY DEF DeliveryInv, Newer
  <1>2. scale[e] = Scale["anode"]
    BY DEF DeliveryInv, QueueInv
  <1> QED BY <1>1, <1>2 DEF Code

(* When no message is on its way and the device did not refuse the newest  *)
(* write, the DAC of a driven electrode holds the code of the voltage the  *)
(* state machine last asked of it, in the scale the actuator was answered: *)
(* whatever writes failed before, whatever the depth of the queues, the    *)
(* scales of the channels and the order in which the callbacks of the two  *)
(* nodes and the services of adi_iio run.                                  *)
THEOREM Delivery ==
    ASSUME Assumption
    PROVE  Spec => []LatestReachesDAC
  <1>1. Init => DeliveryInv
    BY DeliveryInit
  <1>2. DeliveryInv /\ [Next]_vars => DeliveryInv'
    BY DeliveryStep
  <1>3. DeliveryInv => LatestReachesDAC
    BY DeliveryImplies
  <1> QED BY <1>1, <1>2, <1>3, PTL DEF Spec

------------------------------------------------------------------------------
(* The types of the actuator: no queue is longer than its depth, and what  *)
(* reaches the DAC is a code of it.                                        *)
WireInv ==
    /\ found \subseteq Act!Services /\ unserved \in BOOLEAN
    /\ \A e \in AC : Len(command[e]) =< Depth /\ Len(written[e]) =< Depth
    /\ enabled \in [AC -> BOOLEAN] /\ forwarded \in [AC -> BOOLEAN]
    /\ landed \in [AC -> BOOLEAN]
    /\ dac \in [AC -> 0..MaxCode]
    /\ onAtStop \subseteq AC

LEMMA CodesFit ==
    ASSUME Assumption
    PROVE  Codes \subseteq 0..MaxCode
  <1>1. \A a \in Nat, b \in Nat \ {0} : a \div b \in Nat
    OBVIOUS
  <1>2. Points \subseteq Nat
    <2>1. NPoints - 1 \in Nat \ {0}
      BY DEF Assumption, SM!StateMachineAssumption
    <2>2. \A i \in 0..(NPoints - 1) : SM!SIGNAL[i] = (2500000 * i) \div (NPoints - 1)
      BY SMT DEF SM!SIGNAL
    <2>3. \A i \in 0..(NPoints - 1) : 2500000 * i \in Nat
      BY <2>1, SMT
    <2>4. \A i \in 0..(NPoints - 1) : SM!SIGNAL[i] \in Nat
      <3> SUFFICES ASSUME NEW i \in 0..(NPoints - 1) PROVE SM!SIGNAL[i] \in Nat
        OBVIOUS
      <3> DEFINE a == 2500000 * i
                 b == NPoints - 1
      <3>1. a \in Nat /\ b \in Nat \ {0}
        BY <2>1, <2>3, SMT
      <3>2. SM!SIGNAL[i] = a \div b
        BY <2>2, SMT
      <3> HIDE DEF a, b
      <3> QED BY <1>1, <3>1, <3>2, SMT
    <2> QED BY <2>4 DEF Points
  <1>3. Scale["anode"] \in Nat \ {0} /\ MaxCode \in Nat
    BY DEF Assumption, Act!ActuatorAssumption, Act!Electrodes
  <1>4. \A p \in Points : Code(p) \in 0..MaxCode
    <2>1. \A p \in Points : p \div Scale["anode"] \in Nat
      BY <1>1, <1>2, <1>3
    <2> QED BY <1>3, <2>1 DEF Code, Act!Raw
  <1> QED BY <1>4 DEF Codes

LEMMA KeptShort ==
    ASSUME Depth \in Nat \ {0}, NEW S, NEW q \in Seq(S), Len(q) =< Depth, NEW m \in S
    PROVE  /\ Len(SM!KeepLast(q, m)) =< Depth
           /\ Len(Act!KeepLast(q, m)) =< Depth
  <1>1. CASE Len(q) < Depth
    <2>1. Len(Append(q, m)) = Len(q) + 1
      OBVIOUS
    <2> QED BY <1>1, <2>1 DEF SM!KeepLast, Act!KeepLast
  <1>2. CASE ~(Len(q) < Depth)
    <2>1. q # <<>>
      BY <1>2
    <2>2. Tail(q) \in Seq(S) /\ Len(Tail(q)) = Len(q) - 1
      BY <2>1
    <2>3. Len(Append(Tail(q), m)) = Len(q)
      BY <2>2
    <2> QED BY <1>2, <2>3 DEF SM!KeepLast, Act!KeepLast
  <1> QED BY <1>1, <1>2

LEMMA WireInit ==
    ASSUME Assumption, Init
    PROVE  WireInv
  <1>1. Depth \in Nat /\ MaxCode \in Nat
    BY DEF Assumption, SM!StateMachineAssumption, Act!ActuatorAssumption
  <1>2. /\ found = {} /\ unserved = FALSE /\ onAtStop = {}
        /\ command = [e \in AC |-> <<>>] /\ written = [e \in AC |-> <<>>]
        /\ enabled = [e \in AC |-> FALSE] /\ forwarded = [e \in AC |-> FALSE]
        /\ dac = [e \in AC |-> 0] /\ landed = [e \in AC |-> FALSE]
    BY Distinct DEF Init, Act!Init
  <1>3. \A e \in AC : Len(command[e]) =< Depth /\ Len(written[e]) =< Depth
    BY <1>1, <1>2
  <1>4. dac \in [AC -> 0..MaxCode]
    BY <1>1, <1>2
  <1>5. /\ found \subseteq Act!Services /\ unserved \in BOOLEAN /\ onAtStop \subseteq AC
        /\ enabled \in [AC -> BOOLEAN] /\ forwarded \in [AC -> BOOLEAN]
        /\ landed \in [AC -> BOOLEAN]
    BY <1>2
  <1> QED BY <1>3, <1>4, <1>5 DEF WireInv

LEMMA WireStep ==
    ASSUME Assumption, DeliveryInv, WireInv, [Next]_vars
    PROVE  WireInv'
  <1>1. /\ Depth \in Nat \ {0}
        /\ \A e \in AC : command[e] \in Seq(Points) /\ written[e] \in Seq(Codes)
    BY DEF Assumption, SM!StateMachineAssumption, DeliveryInv, QueueInv
  <1>2. CASE Tick
    <2> DEFINE d == SM!Driven(state)
    <2>1. d \in AC /\ SM!SIGNAL[idx] \in Points
      <3>1. idx \in 0..(NPoints - 1)
        BY DEF DeliveryInv, RampInv, SM!TypeOK, SM!SIGNAL
      <3> QED BY <3>1 DEF SM!Driven, AC, Points
    <2> HIDE DEF d
    <2>2. /\ \/ command' = command
             \/ command' = [command EXCEPT ![d] = SM!KeepLast(command[d], SM!SIGNAL[idx])]
          /\ UNCHANGED <<found, unserved, enabled, written, dac, forwarded, landed, onAtStop>>
      BY <1>2 DEF Tick, SM!timer_callback, SM!publish, d
    <2>3. Len(SM!KeepLast(command[d], SM!SIGNAL[idx])) =< Depth
      BY <1>1, <2>1, KeptShort DEF WireInv
    <2>4. \A e \in AC : Len(command'[e]) =< Depth
      BY <1>1, <2>1, <2>2, <2>3 DEF WireInv, DeliveryInv, QueueInv
    <2> QED BY <2>2, <2>4 DEF WireInv
  <1>3. CASE Act!Discover \/ Act!WaitForServices \/ Act!InterruptedSetup
    BY <1>3 DEF WireInv, Act!Discover, Act!WaitForServices, Act!InterruptedSetup, Act!node, Act!aux,
                Assumption, Act!ActuatorAssumption
  <1>4. CASE Act!Setup
    BY <1>4 DEF WireInv, Act!Setup, Act!Send, Act!aux
  <1>5. CASE Act!destroy_node
    <2>1. command' = [e \in AC |-> <<>>] /\ unserved' \in BOOLEAN /\ onAtStop' \subseteq AC
      BY <1>5, Distinct DEF WireInv, Act!destroy_node, Act!Send
    <2>2. \A e \in AC : Len(command'[e]) =< Depth
      BY <1>1, <2>1
    <2> QED BY <1>5, <2>1, <2>2 DEF WireInv, Act!destroy_node
  <1>6. ASSUME NEW a \in answers, Act!read_scale_response_callback(a)
        PROVE  WireInv'
    BY <1>6 DEF WireInv, Act!read_scale_response_callback, Act!aux
  <1>7. ASSUME NEW e \in AC, Act!data_callback(e)
        PROVE  WireInv'
    <2> DEFINE code == Act!Raw(Head(command[e]), scale[e])
    <2>1. /\ command[e] # <<>> /\ command' = [command EXCEPT ![e] = Tail(command[e])]
          /\ UNCHANGED <<found, unserved, enabled, dac, landed, onAtStop>>
      BY <1>7 DEF Act!data_callback, Act!client
    <2>2. \A x \in AC : Len(command'[x]) =< Depth
      <3>1. Len(Tail(command[e])) =< Depth
        BY <1>1, <2>1 DEF WireInv
      <3> QED BY <2>1, <3>1 DEF WireInv, DeliveryInv, QueueInv
    <2>3. scale[e] # Act!Unset => code \in Codes
      <3>1. Head(command[e]) \in Points /\ scale[e] \in {Act!Unset, Scale["anode"]}
        BY <1>1, <2>1, Taken DEF DeliveryInv, QueueInv
      <3> QED BY <3>1 DEF Codes, Code
    <2>4. /\ \/ written' = written
             \/ /\ scale[e] # Act!Unset
                /\ written' = [written EXCEPT ![e] = Act!KeepLast(written[e], code)]
          /\ forwarded' \in [AC -> BOOLEAN]
      BY <1>7 DEF Act!data_callback, Act!PublishWrite, WireInv
    <2> HIDE DEF code
    <2>5. scale[e] # Act!Unset => Len(Act!KeepLast(written[e], code)) =< Depth
      BY <1>1, <2>3, KeptShort DEF WireInv
    <2>6. \A x \in AC : Len(written'[x]) =< Depth
      BY <2>4, <2>5 DEF WireInv, DeliveryInv, QueueInv
    <2> QED BY <2>1, <2>2, <2>4, <2>6 DEF WireInv
  <1>8. CASE Act!ServeEnable
    BY <1>8 DEF WireInv, Act!ServeEnable, Act!client, Act!aux
  <1>9. CASE Act!ServeDisable
    <2> DEFINE x == Head(asked["AttrDisableTopic"]).path
    <2>2. /\ enabled' = [enabled EXCEPT ![x] = FALSE]
          /\ written' = [written EXCEPT ![x] = <<>>]
      BY <1>9 DEF Act!ServeDisable
    <2> HIDE DEF x
    <2>1. \A e \in AC : written'[e] = IF e = x THEN <<>> ELSE written[e]
      BY <2>2 DEF DeliveryInv, QueueInv
    <2>3. \A e \in AC : Len(written'[e]) =< Depth
      BY <1>1, <2>1 DEF WireInv
    <2>4. enabled' \in [AC -> BOOLEAN]
      BY <2>2 DEF WireInv
    <2> QED BY <1>9, <2>3, <2>4 DEF WireInv, Act!ServeDisable, Act!client, Act!aux
  <1>10. CASE Act!ServeRead \/ Act!ServeReadFails
    BY <1>10 DEF WireInv, Act!ServeRead, Act!ServeReadFails, Act!client, Act!aux
  <1>11. ASSUME NEW e \in AC, Act!UpdateAttr(e)
        PROVE  WireInv'
    <2>1. /\ written[e] # <<>>
          /\ dac' = [dac EXCEPT ![e] = Head(written[e])] \/ dac' = dac
          /\ \/ landed' = [landed EXCEPT ![e] = TRUE]
             \/ landed' = [landed EXCEPT ![e] = FALSE]
          /\ written' = [written EXCEPT ![e] = Tail(written[e])]
          /\ UNCHANGED <<found, unserved, enabled, command, forwarded, onAtStop>>
      BY <1>11 DEF Act!UpdateAttr, Act!client, Act!aux
    <2>2. Head(written[e]) \in 0..MaxCode /\ Len(Tail(written[e])) =< Depth
      <3>1. Head(written[e]) \in Codes
        BY <1>1, <2>1, Taken
      <3>2. Len(Tail(written[e])) = Len(written[e]) - 1 /\ Len(written[e]) \in Nat
        BY <1>1, <2>1
      <3> QED BY <1>1, <3>1, <3>2, CodesFit DEF WireInv
    <2>3. \A x \in AC : Len(written'[x]) =< Depth
      BY <2>1, <2>2 DEF WireInv, DeliveryInv, QueueInv
    <2>4. dac' \in [AC -> 0..MaxCode] /\ landed' \in [AC -> BOOLEAN]
      BY <2>1, <2>2 DEF WireInv
    <2> QED BY <2>1, <2>3, <2>4 DEF WireInv
  <1>12. CASE UNCHANGED vars
    BY <1>12 DEF WireInv, vars, Act!vars, Act!client, Act!node, Act!aux
  <1> QED BY <1>2, <1>3, <1>4, <1>5, <1>6, <1>7, <1>8, <1>9, <1>10, <1>11, <1>12, Distinct
      DEF Next, Act!Next, Act!Callback, Act!Serve

LEMMA WireTypes ==
    ASSUME DeliveryInv, WireInv
    PROVE  TypeOK
  <1>1. SM!TypeOK
    BY DEF DeliveryInv, RampInv
  <1>2. scale \in [AC -> {Act!Unset} \cup {Scale[e] : e \in AC}]
    BY DEF DeliveryInv, QueueInv, AC
  <1>3. Act!TypeOK
    BY <1>2, Distinct DEF WireInv, DeliveryInv, PhaseInv, Act!TypeOK
  <1> QED BY <1>1, <1>3 DEF TypeOK

(* The types of both nodes of the AD5592R example: state and idx index the *)
(* tables of state_machine.py, no queue is longer than its depth and every *)
(* code that reaches a DAC is one it has (actuator.py:172).                *)
THEOREM TypeCorrect ==
    ASSUME Assumption
    PROVE  Spec => []TypeOK
  <1>1. Init => DeliveryInv /\ WireInv
    BY DeliveryInit, WireInit
  <1>2. DeliveryInv /\ WireInv /\ [Next]_vars => (DeliveryInv /\ WireInv)'
    BY DeliveryStep, WireStep
  <1>3. DeliveryInv /\ WireInv => TypeOK
    BY WireTypes
  <1> QED BY <1>1, <1>2, <1>3, PTL DEF Spec

------------------------------------------------------------------------------
(* The ramp beside the actuator *)

(* Only the timer of the state machine moves the ramp.                     *)
LEMMA OnlyTimer ==
    ASSUME [Next]_vars
    PROVE  SM!timer_callback \/ UNCHANGED <<state, idx, last>>
  <1>1. CASE Tick
    BY <1>1 DEF Tick
  <1>2. CASE Act!Next /\ UNCHANGED ramp
    BY <1>2 DEF ramp
  <1>3. CASE UNCHANGED vars
    BY <1>3 DEF vars, ramp
  <1> QED BY <1>1, <1>2, <1>3 DEF Next

LEMMA RampInvariant ==
    ASSUME Assumption
    PROVE  Spec => []RampInv
  <1>1. Init => DeliveryInv
    BY DeliveryInit
  <1>2. DeliveryInv /\ [Next]_vars => DeliveryInv'
    BY DeliveryStep
  <1>3. DeliveryInv => RampInv
    BY DEF DeliveryInv
  <1> QED BY <1>1, <1>2, <1>3, PTL DEF Spec

(* While one electrode is above the lowest step of its ramp, the other one *)
(* rests (state_machine.py:94), whatever the actuator and adi_iio do.      *)
THEOREM OneElectrode ==
    ASSUME Assumption
    PROVE  Spec => []OneElectrodeAtATime
  <1>1. RampInv => OneElectrodeAtATime
    BY DEF OneElectrodeAtATime, SM!OneElectrodeAtATime, SM!Electrodes, RampInv,
           Resting, Other, SM!Driven, SM!Unset
  <1> QED BY <1>1, RampInvariant, PTL

(* The voltage asked of an electrode never moves by more than one point,   *)
(* over every turning point and change of electrode (state_machine.py:91). *)
THEOREM RampContinuous ==
    ASSUME Assumption
    PROVE  Spec => Continuity
  <1>1. RampInv /\ [Next]_vars => [Near]_last
    BY OnlyTimer, RampNear DEF Assumption
  <1> QED BY <1>1, RampInvariant, PTL DEF Spec, Continuity, SM!Continuity, Near

=============================================================================
