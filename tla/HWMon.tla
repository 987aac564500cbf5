-------------------------------- MODULE HWMon --------------------------------
(***************************************************************************)
(* The hwmon node (dell_precision_5530.py) with the part of adi_iio it     *)
(* talks to: AttrEnableTopic, AttrDisableTopic and the /read topics.       *)
(*                                                                         *)
(* A one-shot timer enables the attribute topics one after the other,      *)
(* polling each future on a thread of a MultiThreadedExecutor (of two or   *)
(* more threads), and subscribes; a second timer then publishes what the   *)
(* subscriptions stored.  The timer's callback reads and publishes one     *)
(* value after the other while the subscriptions go on storing.            *)
(***************************************************************************)
EXTENDS Integers, Sequences

CONSTANTS
    MaxEvents,    \* readings that are new and topics adi_iio refuses, a bound
    None          \* an error text; before any reading

VARIABLES
    hRunning,     \* main is in executor.spin
    hStep,        \* where the set-up stands in Script; Armed, Waiting before
    hUp,          \* adi_iio's two services are discovered
    polling,      \* attr_enable_topic waits for its future
    hEnabled,     \* the attributes whose topic adi_iio publishes
    refused,      \* how many it has refused
    toDisable,    \* the requests to AttrDisableTopic not yet served, in order
    readings,     \* what was read, in order: [attr, text]
    latest,       \* the last good reading of each attribute, None before it
    arrived,      \* the queue of each subscription
    data,         \* self.data, by the name of the entry
    tick,         \* the publication timer_callback is at, 0 outside of it
    shown,        \* the last value on each topic of the node, None at first
    hOnAtStop     \* the topics that were enabled when destroy_node ran

setup == <<hRunning, hStep, hUp, polling, hEnabled, refused, toDisable, hOnAtStop>>
flow  == <<readings, latest, arrived, data, tick, shown>>
vars  == <<setup, flow>>

Attributes == {"curr1", "in0", "temp2", "temp3", "temp4", "temp5", "fan1", "fan2"}

HWMonAssumption ==
    /\ MaxEvents \in Nat
    /\ None \notin Int

Armed   == -1
Waiting == 0

(* What a setup_* function does with its attributes: it enables all their  *)
(* topics, then subscribes to each.                                        *)
Do(what, attrs) == [i \in DOMAIN attrs |-> [do |-> what, attr |-> attrs[i]]]
SetUpAll(attrs) == Do("enable", attrs) \o Do("subscribe", attrs)

setup_bat0_current == SetUpAll(<<"curr1">>)
setup_bat0_voltage == SetUpAll(<<"in0">>)
setup_core_temp    == SetUpAll(<<"temp2", "temp3", "temp4", "temp5">>)
setup_fans         == SetUpAll(<<"fan1">>) \o SetUpAll(<<"fan2">>)

Script == setup_bat0_current \o setup_bat0_voltage \o setup_core_temp \o setup_fans

MainLoop == Len(Script) + 1

Subscribed(attr) ==
    \E i \in 1..(hStep - 1) : Script[i] = [do |-> "subscribe", attr |-> attr]

(* Mutant: the callback of temp4 stores into the entry of temp3.           *)
EntryMixedUp(attr) ==
    CASE attr = "curr1" -> "current" [] attr = "in0"   -> "voltage"
      [] attr = "temp2" -> "Core 0"  [] attr = "temp3" -> "Core 1"
      [] attr = "temp4" -> "Core 1"  [] attr = "temp5" -> "Core 3"
      [] attr = "fan1"  -> "CPU Fan" [] attr = "fan2"  -> "GPU Fan"

(* The entry of self.data that each subscription's callback stores.        *)
Entry(attr) ==
    CASE attr = "curr1" -> "current" [] attr = "in0"   -> "voltage"
      [] attr = "temp2" -> "Core 0"  [] attr = "temp3" -> "Core 1"
      [] attr = "temp4" -> "Core 2"  [] attr = "temp5" -> "Core 3"
      [] attr = "fan1"  -> "CPU Fan" [] attr = "fan2"  -> "GPU Fan"

(* mA to uA, millivolts and millidegrees to units (of whole ones), rpm.    *)
Converted(attr, text) ==
    CASE attr = "curr1"           -> text * 1000
      [] attr \in {"fan1", "fan2"} -> text
      [] OTHER                    -> text \div 1000

(* What timer_callback publishes, in its order.                            *)
Publications ==
    << [topic |-> "BAT0/uA",        entry |-> "current"],
       [topic |-> "BAT0/V",         entry |-> "voltage"],
       [topic |-> "coretemp/core0", entry |-> "Core 0"],
       [topic |-> "coretemp/core1", entry |-> "Core 1"],
       [topic |-> "coretemp/core2", entry |-> "Core 2"],
       [topic |-> "coretemp/core3", entry |-> "Core 3"],
       [topic |-> "fan/cpu",        entry |-> "CPU Fan"],
       [topic |-> "fan/gpu",        entry |-> "GPU Fan"] >>

(* The topics the node announces for each attribute.                       *)
TopicFor(attr) ==
    CASE attr = "curr1" -> "BAT0/uA"        [] attr = "in0"   -> "BAT0/V"
      [] attr = "temp2" -> "coretemp/core0" [] attr = "temp3" -> "coretemp/core1"
      [] attr = "temp4" -> "coretemp/core2" [] attr = "temp5" -> "coretemp/core3"
      [] attr = "fan1"  -> "fan/cpu"        [] attr = "fan2"  -> "fan/gpu"

(* The n-th reading: one that no other attribute has had.                  *)
Reading(n) == 1000 * n

Entries   == {Publications[i].entry : i \in DOMAIN Publications}
OwnTopics == {Publications[i].topic : i \in DOMAIN Publications}

NoMessages == [a \in Attributes |-> <<>>]

Init ==
    /\ hRunning = TRUE
    /\ hStep = Armed
    /\ hUp = FALSE
    /\ polling = FALSE
    /\ hEnabled = {}
    /\ refused = 0
    /\ toDisable = <<>>
    /\ hOnAtStop = {}
    /\ readings = <<>>
    /\ latest = [a \in Attributes |-> None]
    /\ arrived = NoMessages
    /\ data = [entry \in Entries |-> 0]
    /\ tick = 0
    /\ shown = [topic \in OwnTopics |-> None]

------------------------------------------------------------------------------
(* Set-up *)

ServicesUp ==
    /\ ~hUp
    /\ hUp' = TRUE
    /\ UNCHANGED <<hRunning, hStep, polling, hEnabled, refused, toDisable, hOnAtStop, flow>>

setup_service_client ==
    /\ hRunning /\ hStep = Armed
    /\ hStep' = Waiting
    /\ UNCHANGED <<hRunning, hUp, polling, hEnabled, refused, toDisable, hOnAtStop, flow>>

(* The loop ends as soon as one service is there.  Both appear at once     *)
(* here: RequestsFindTheirService of Actuator is about the other case.     *)
WaitForServices ==
    /\ hRunning /\ hStep = Waiting /\ hUp
    /\ hStep' = 1
    /\ UNCHANGED <<hRunning, hUp, polling, hEnabled, refused, toDisable, hOnAtStop, flow>>

At(what) == hStep \in DOMAIN Script /\ Script[hStep].do = what

attr_enable_topic ==
    /\ hRunning /\ At("enable") /\ ~polling
    /\ polling' = TRUE
    /\ UNCHANGED <<hRunning, hStep, hUp, hEnabled, refused, toDisable, hOnAtStop, flow>>

(* Mutant: a refused request raises and the set-up is never resumed.       *)
EnableServedOnly(ok) ==
    /\ polling
    /\ \/ ok /\ hEnabled' = hEnabled \cup {Script[hStep].attr} /\ UNCHANGED refused
       \/ ~ok /\ Len(readings) + refused < MaxEvents /\ refused' = refused + 1
          /\ UNCHANGED hEnabled
    /\ polling' = FALSE
    /\ hStep' = IF ok THEN hStep + 1 ELSE Armed - 1
    /\ UNCHANGED <<hRunning, hUp, toDisable, hOnAtStop, flow>>

(* adi_iio answers, and a poll that still runs sees it: what the answer    *)
(* says changes nothing.  After SIGINT adi_iio still serves the request.   *)
ServeEnable(ok) ==
    /\ polling
    /\ \/ ok /\ hEnabled' = hEnabled \cup {Script[hStep].attr} /\ UNCHANGED refused
       \/ ~ok /\ Len(readings) + refused < MaxEvents /\ refused' = refused + 1
          /\ UNCHANGED hEnabled
    /\ polling' = FALSE
    /\ hStep' = IF hRunning THEN hStep + 1 ELSE hStep
    /\ UNCHANGED <<hRunning, hUp, toDisable, hOnAtStop, flow>>

create_subscription ==
    /\ hRunning /\ At("subscribe")
    /\ hStep' = hStep + 1
    /\ UNCHANGED <<hRunning, hUp, polling, hEnabled, refused, toDisable, hOnAtStop, flow>>

------------------------------------------------------------------------------
(* Teardown *)

(* Mutant: one of the eight requests is forgotten, another one made twice. *)
DisableRequestsRepeat ==
    << "curr1", "in0", "temp2", "temp3", "temp3", "temp5", "fan1", "fan2" >>

(* Mutant: one of the eight requests names a topic that does not exist.    *)
DisableRequestsMisnamed ==
    << "curr1", "in0", "temp1", "temp3", "temp4", "temp5", "fan1", "fan2" >>

(* The requests as destroy_node writes them out.                           *)
disable_requests ==
    << "curr1", "in0", "temp2", "temp3", "temp4", "temp5", "fan1", "fan2" >>

(* However spin ended, main calls destroy_node, which asks to disable every *)
(* topic and waits for nothing.  Before setup_service_client the client is *)
(* None, and what is sent to an undiscovered service is lost.  What the    *)
(* process kept goes with it.                                              *)
Stop ==
    /\ hRunning' = FALSE
    /\ toDisable' = IF hUp /\ hStep # Armed THEN disable_requests ELSE <<>>
    /\ hOnAtStop' = IF hUp /\ hStep # Armed THEN hEnabled ELSE {}
    /\ readings' = <<>>
    /\ latest' = [a \in Attributes |-> None]
    /\ arrived' = NoMessages
    /\ data' = [entry \in Entries |-> 0]
    /\ tick' = 0
    /\ shown' = [topic \in OwnTopics |-> None]
    /\ UNCHANGED <<hStep, hUp, polling, hEnabled, refused>>

(* SIGINT                                                                  *)
destroy_node == hRunning /\ Stop

ServeDisable ==
    /\ toDisable # <<>>
    /\ toDisable' = Tail(toDisable)
    /\ hEnabled' = hEnabled \ {Head(toDisable)}
    /\ UNCHANGED <<hRunning, hStep, hUp, polling, refused, hOnAtStop, flow>>

------------------------------------------------------------------------------
(* The main loop *)

Published(attr) == hRunning /\ attr \in hEnabled /\ Subscribed(attr)

(* adi_iio publishes a reading that is new, or the text of an error.  The  *)
(* queue, of depth 10, never holds as many.                                *)
PublishReading(attr, ok) ==
    /\ Published(attr)
    /\ Len(readings) + refused < MaxEvents
    /\ LET text == IF ok THEN Reading(Len(readings) + 1) ELSE None
       IN  /\ readings' = Append(readings, [attr |-> attr, text |-> text])
           /\ arrived' = [arrived EXCEPT ![attr] = Append(@, text)]
           /\ latest' = IF ok THEN [latest EXCEPT ![attr] = text] ELSE latest
    /\ UNCHANGED <<setup, data, tick, shown>>

(* It goes on publishing what an attribute has, for ever; here no sooner   *)
(* than the subscriptions have taken what came before, a bound.            *)
PublishAgain(attr) ==
    /\ Published(attr)
    /\ latest[attr] # None
    /\ arrived = NoMessages
    /\ arrived' = [arrived EXCEPT ![attr] = <<latest[attr]>>]
    /\ UNCHANGED <<setup, readings, latest, data, tick, shown>>

(* The update_* callbacks.  float() and int() of an error text raise; on   *)
(* the rclpy release depends whether that ends executor.spin.              *)
update(attr) ==
    /\ hRunning /\ arrived[attr] # <<>>
    /\ \/ /\ Head(arrived[attr]) # None
          /\ arrived' = [arrived EXCEPT ![attr] = Tail(@)]
          /\ data' = [data EXCEPT ![Entry(attr)] = Converted(attr, Head(arrived[attr]))]
          /\ UNCHANGED <<setup, readings, latest, tick, shown>>
       \/ /\ Head(arrived[attr]) = None
          /\ arrived' = [arrived EXCEPT ![attr] = Tail(@)]
          /\ UNCHANGED <<setup, readings, latest, data, tick, shown>>
       \/ /\ Head(arrived[attr]) = None
          /\ Stop

(* One publication of timer_callback after the other.                      *)
timer_callback ==
    /\ hRunning /\ hStep = MainLoop
    /\ LET p == Publications[tick + 1]
       IN  shown' = [shown EXCEPT ![p.topic] = data[p.entry]]
    /\ tick' = (tick + 1) % Len(Publications)
    /\ UNCHANGED <<setup, readings, latest, arrived, data>>

------------------------------------------------------------------------------

SetUp == \/ setup_service_client \/ WaitForServices \/ attr_enable_topic
         \/ \E ok \in BOOLEAN : ServeEnable(ok)
         \/ create_subscription

Store == \E attr \in Attributes : update(attr)

Next == \/ ServicesUp \/ SetUp
        \/ \E attr \in Attributes, ok \in BOOLEAN : PublishReading(attr, ok)
        \/ \E attr \in Attributes : PublishAgain(attr)
        \/ Store \/ timer_callback
        \/ destroy_node \/ ServeDisable

Spec == Init /\ [][Next]_vars

(* adi_iio answers every request, the poll of a set-up goes on with the    *)
(* answer, the executor runs the subscriptions that have a message, and    *)
(* the publishing timer fires.  Nothing has to be read, no service to      *)
(* appear and nobody to press Ctrl-C.                                      *)
FairSpec == Spec /\ WF_vars(SetUp) /\ WF_vars(Store) /\ WF_vars(timer_callback)

------------------------------------------------------------------------------
(* Where the set-up stands, what is stored and what is shown have their    *)
(* types, and a queue never holds more than was published.                 *)
TypeOK ==
    /\ hStep \in {Armed, Waiting} \cup 1..MainLoop
    /\ hEnabled \subseteq Attributes
    /\ \A i \in DOMAIN toDisable : toDisable[i] \in Attributes
    /\ tick \in 0..(Len(Publications) - 1)
    /\ \A entry \in DOMAIN data : data[entry] \in Nat
    /\ \A topic \in DOMAIN shown : shown[topic] \in Nat \cup {None}
    /\ \A a \in Attributes : Len(arrived[a]) =< Len(readings)

(* With both services there the set-up comes to the main loop, whatever    *)
(* adi_iio answers to the requests, unless the node is stopped.            *)
SetupCompletes == hUp /\ hRunning ~> hStep = MainLoop \/ ~hRunning

(* Topic value v of attribute attr is its n-th reading or a later one.     *)
IsReading(attr, v, n) ==
    \E k \in DOMAIN readings :
        /\ k >= n
        /\ readings[k].attr = attr
        /\ readings[k].text # None
        /\ v = Converted(attr, readings[k].text)

(* Each of the eight topics shows readings of its own attribute only, in   *)
(* its unit: no callback, entry or publication is taken for another, and   *)
(* no error text gets through.                                             *)
ShowsOwnReadings ==
    \A a \in Attributes :
        shown[TopicFor(a)] \in {None, 0} \/ IsReading(a, shown[TopicFor(a)], 1)

(* Every good reading, or a later one of the same attribute, gets to the   *)
(* attribute's topic, while the other readings, the errors and the timer   *)
(* go on in any order, unless the node is stopped.                         *)
ShowsItsAttribute ==
    \A n \in 1..MaxEvents :
        n \in DOMAIN readings /\ readings[n].text # None
            ~> \/ ~hRunning
               \/ IsReading(readings[n].attr, shown[TopicFor(readings[n].attr)], n)

(* When adi_iio has served what destroy_node asked for, no attribute topic *)
(* that was enabled when it ran is left, also when the request the set-up  *)
(* was polling for is served in between.                                   *)
TeardownDisables == ~hRunning /\ toDisable = <<>> => hOnAtStop \cap hEnabled = {}

=============================================================================
