---------------------------- MODULE HWMon_proofs ----------------------------
(***************************************************************************)
(* Theorems about HWMon for every number of readings and refusals.         *)
(***************************************************************************)
EXTENDS HWMon, SequenceTheorems, TLAPS

Texts    == Nat \cup {None}
Readings == [attr : Attributes, text : Texts]

(* What the set-up script is made of.                                      *)
ScriptSteps == [do : {"enable", "subscribe"}, attr : Attributes]

SetUpInv ==
    /\ hRunning \in BOOLEAN /\ polling \in BOOLEAN
    /\ hStep \in {Armed, Waiting} \cup 1..MainLoop
    /\ polling => At("enable")
    /\ hEnabled \subseteq Attributes
    /\ toDisable \in Seq(Attributes)

FlowTypes ==
    /\ readings \in Seq(Readings)
    /\ latest \in [Attributes -> Texts]
    /\ arrived \in [Attributes -> Seq(Texts)]
    /\ \A a \in Attributes : Len(arrived[a]) =< Len(readings)
    /\ data \in [Entries -> Nat]
    /\ tick \in 0..7
    /\ shown \in [OwnTopics -> Texts]

(* text was read of attribute a, v is one of its readings in its unit.     *)
Had(rs, a, text) ==
    text # None /\ \E k \in DOMAIN rs : rs[k].attr = a /\ rs[k].text = text

Shows(rs, a, v) == \E text \in Nat : Had(rs, a, text) /\ v = Converted(a, text)

(* On its whole way from adi_iio to the topic, a value is one of its       *)
(* attribute: in the subscription's queue, in self.data and on the topic.  *)
OwnInv ==
    \A a \in Attributes :
        /\ latest[a] = None \/ Had(readings, a, latest[a])
        /\ \A i \in 1..Len(arrived[a]) :
              arrived[a][i] = None \/ Had(readings, a, arrived[a][i])
        /\ data[Entry(a)] = 0 \/ Shows(readings, a, data[Entry(a)])
        /\ shown[TopicFor(a)] \in {None, 0} \/ Shows(readings, a, shown[TopicFor(a)])

MonitorInv == SetUpInv /\ FlowTypes /\ OwnInv

------------------------------------------------------------------------------
(* The tables *)

LEMMA Eight ==
    Attributes = {"curr1", "in0", "temp2", "temp3", "temp4", "temp5", "fan1", "fan2"}
  BY DEF Attributes

LEMMA SetUpSteps ==
    ASSUME NEW attrs \in Seq(Attributes)
    PROVE  SetUpAll(attrs) \in Seq(ScriptSteps)
  <1>1. ASSUME NEW what \in {"enable", "subscribe"}
        PROVE  Do(what, attrs) \in Seq(ScriptSteps)
    <2>1. Len(attrs) \in Nat /\ DOMAIN attrs = 1..Len(attrs)
      OBVIOUS
    <2>2. \A i \in 1..Len(attrs) : [do |-> what, attr |-> attrs[i]] \in ScriptSteps
      BY <2>1 DEF ScriptSteps
    <2>3. Do(what, attrs) = [i \in 1..Len(attrs) |-> [do |-> what, attr |-> attrs[i]]]
      BY <2>1 DEF Do
    <2> QED BY <2>1, <2>2, <2>3
  <1> QED BY <1>1, ConcatProperties DEF SetUpAll

LEMMA ScriptIsSteps ==
    /\ Script \in Seq(ScriptSteps)
    /\ Len(Script) \in Nat
    /\ DOMAIN Script = 1..Len(Script)
    /\ \A i \in 1..Len(Script) : Script[i].attr \in Attributes
  <1>1. /\ <<"curr1">> \in Seq(Attributes) /\ <<"in0">> \in Seq(Attributes)
        /\ <<"fan1">> \in Seq(Attributes) /\ <<"fan2">> \in Seq(Attributes)
    BY DEF Attributes
  <1>2. <<"temp2", "temp3", "temp4", "temp5">> \in Seq(Attributes)
    BY DEF Attributes
  <1>3. /\ setup_bat0_current \in Seq(ScriptSteps)
        /\ setup_bat0_voltage \in Seq(ScriptSteps)
        /\ setup_core_temp \in Seq(ScriptSteps)
    BY <1>1, <1>2, SetUpSteps DEF setup_bat0_current, setup_bat0_voltage, setup_core_temp
  <1>4. setup_fans \in Seq(ScriptSteps)
    BY <1>1, SetUpSteps, ConcatProperties DEF setup_fans
  <1>5. setup_bat0_current \o setup_bat0_voltage \in Seq(ScriptSteps)
    BY <1>3, ConcatProperties
  <1>6. setup_bat0_current \o setup_bat0_voltage \o setup_core_temp \in Seq(ScriptSteps)
    BY <1>3, <1>5, ConcatProperties
  <1>7. Script \in Seq(ScriptSteps)
    BY <1>4, <1>6, ConcatProperties DEF Script
  <1>8. \A i \in 1..Len(Script) : Script[i] \in ScriptSteps
    BY <1>7
  <1> QED BY <1>7, <1>8 DEF ScriptSteps

(* Every publication is the one of some attribute.                         *)
LEMMA PublicationFacts ==
    /\ Len(Publications) = 8 /\ DOMAIN Publications = 1..8
    /\ \A i \in 1..8 : \E a \in Attributes :
          Publications[i].topic = TopicFor(a) /\ Publications[i].entry = Entry(a)
    /\ \A a \in Attributes : \E i \in 1..8 :
          Publications[i].topic = TopicFor(a) /\ Publications[i].entry = Entry(a)
  <1>1. Len(Publications) = 8 /\ DOMAIN Publications = 1..8
    BY DEF Publications
  <1> DEFINE Of(i, a) == Publications[i].topic = TopicFor(a) /\ Publications[i].entry = Entry(a)
  <1>2. /\ Of(1, "curr1") /\ Of(2, "in0") /\ Of(3, "temp2") /\ Of(4, "temp3")
        /\ Of(5, "temp4") /\ Of(6, "temp5") /\ Of(7, "fan1") /\ Of(8, "fan2")
    BY DEF Publications, TopicFor, Entry
  <1> HIDE DEF Of
  <1>3. 1..8 = {1, 2, 3, 4, 5, 6, 7, 8}
    OBVIOUS
  <1>4. \A i \in 1..8 : \E a \in Attributes : Of(i, a)
    BY <1>2, <1>3, Eight
  <1>5. \A a \in Attributes : \E i \in 1..8 : Of(i, a)
    BY <1>2, <1>3, Eight
  <1> QED BY <1>1, <1>4, <1>5 DEF Of

(* No two attributes share an entry or a topic.                            *)
LEMMA NoneShared ==
    /\ \A a \in Attributes : Entry(a) \in Entries /\ TopicFor(a) \in OwnTopics
    /\ \A a, b \in Attributes : Entry(a) = Entry(b) \/ TopicFor(a) = TopicFor(b) => a = b
  <1>1. \A a \in Attributes : Entry(a) \in Entries /\ TopicFor(a) \in OwnTopics
    BY PublicationFacts DEF Entries, OwnTopics
  <1>2. ASSUME NEW a \in Attributes, NEW b \in Attributes, Entry(a) = Entry(b)
        PROVE  a = b
    <2>1. /\ Entry("curr1") = "current" /\ Entry("in0") = "voltage"
          /\ Entry("temp2") = "Core 0" /\ Entry("temp3") = "Core 1"
          /\ Entry("temp4") = "Core 2" /\ Entry("temp5") = "Core 3"
          /\ Entry("fan1") = "CPU Fan" /\ Entry("fan2") = "GPU Fan"
      BY DEF Entry
    <2>2. b \in {"curr1", "in0", "temp2", "temp3", "temp4", "temp5", "fan1", "fan2"}
      BY Eight
    <2>3. CASE a \in {"curr1", "in0", "temp2", "temp3"}
      BY <1>2, <2>1, <2>2, <2>3
    <2>4. CASE a \in {"temp4", "temp5", "fan1", "fan2"}
      BY <1>2, <2>1, <2>2, <2>4
    <2> QED BY <2>3, <2>4, Eight
  <1>3. \A a, b \in Attributes : TopicFor(a) = TopicFor(b) => a = b
    BY Eight DEF TopicFor
  <1> QED BY <1>1, <1>2, <1>3

LEMMA ConvertedIsNat ==
    ASSUME NEW a, NEW text \in Nat
    PROVE  Converted(a, text) \in Nat
  BY DEF Converted

LEMMA ShowsIsReading ==
    ASSUME FlowTypes, NEW a, NEW v, Shows(readings, a, v)
    PROVE  IsReading(a, v, 1)
  <1>1. PICK text \in Nat : Had(readings, a, text) /\ v = Converted(a, text)
    BY DEF Shows
  <1>2. PICK k \in DOMAIN readings : readings[k].attr = a /\ readings[k].text = text
    BY <1>1 DEF Had
  <1>3. k \in 1..Len(readings) /\ text # None
    BY <1>1 DEF FlowTypes, Had
  <1> QED BY <1>1, <1>2, <1>3 DEF IsReading

------------------------------------------------------------------------------
(* The initial states, and those after the end *)

Blank ==
    /\ readings = <<>> /\ latest = [a \in Attributes |-> None] /\ arrived = NoMessages
    /\ data = [entry \in Entries |-> 0] /\ tick = 0 /\ shown = [topic \in OwnTopics |-> None]

LEMMA Forgotten == Blank => FlowTypes /\ OwnInv
  <1> SUFFICES ASSUME Blank PROVE FlowTypes /\ OwnInv
    OBVIOUS
  <1> USE DEF Blank
  <1>1. Len(<<>>) = 0 /\ <<>> \in Seq(Texts) /\ <<>> \in Seq(Readings) /\ 1..0 = {}
    OBVIOUS
  <1>2. FlowTypes
    BY <1>1 DEF FlowTypes, NoMessages, Texts
  <1>3. OwnInv
    BY <1>1, NoneShared DEF OwnInv, NoMessages
  <1> QED BY <1>2, <1>3

LEMMA MonitorInit ==
    ASSUME HWMonAssumption, Init
    PROVE  MonitorInv
  <1>1. SetUpInv
    <2>1. toDisable \in Seq(Attributes)
      BY DEF Init
    <2>2. hStep \in {Armed, Waiting} \cup 1..MainLoop
      BY DEF Init
    <2> QED BY <2>1, <2>2 DEF Init, SetUpInv
  <1>2. Blank
    BY DEF Init, Blank
  <1> QED BY <1>1, <1>2, Forgotten DEF MonitorInv

------------------------------------------------------------------------------
(* The steps and the set-up *)

LEMMA StopKeeps ==
    ASSUME MonitorInv, Stop
    PROVE  MonitorInv'
  <1>1. disable_requests \in Seq(Attributes)
    BY Eight DEF disable_requests
  <1>2. toDisable' \in Seq(Attributes)
    BY <1>1 DEF Stop
  <1>3. SetUpInv'
    BY <1>2 DEF Stop, MonitorInv, SetUpInv, At
  <1>4. (FlowTypes /\ OwnInv)'
    <2>1. Blank'
      BY DEF Stop, Blank, NoMessages
    <2> QED BY <2>1, Forgotten, PTL
  <1> QED BY <1>3, <1>4 DEF MonitorInv

LEMMA SetUpKeeps ==
    ASSUME MonitorInv, ServicesUp \/ SetUp \/ ServeDisable
    PROVE  SetUpInv'
  <1> USE ScriptIsSteps DEF MonitorInv, SetUpInv, At, MainLoop, Armed, Waiting
  <1>1. CASE ServicesUp
    BY <1>1 DEF ServicesUp
  <1>2. CASE setup_service_client
    BY <1>2 DEF setup_service_client
  <1>3. CASE WaitForServices
    BY <1>3 DEF WaitForServices
  <1>4. CASE attr_enable_topic
    BY <1>4 DEF attr_enable_topic
  <1>5. ASSUME NEW ok \in BOOLEAN, ServeEnable(ok) PROVE SetUpInv'
    <2>1. hStep \in 1..Len(Script) /\ Script[hStep].attr \in Attributes
      BY <1>5 DEF ServeEnable
    <2>2. hStep' \in 1..MainLoop /\ polling' = FALSE
      BY <1>5, <2>1 DEF ServeEnable
    <2>3. hEnabled' \subseteq Attributes
      BY <1>5, <2>1 DEF ServeEnable
    <2> QED BY <1>5, <2>2, <2>3 DEF ServeEnable
  <1>6. CASE create_subscription
    <2>1. hStep \in 1..Len(Script) /\ ~polling
      BY <1>6 DEF create_subscription
    <2>2. hStep' \in 1..MainLoop
      BY <1>6, <2>1 DEF create_subscription
    <2> QED BY <1>6, <2>1, <2>2 DEF create_subscription
  <1>7. CASE ServeDisable
    <2>1. toDisable' \in Seq(Attributes) /\ hEnabled' \subseteq Attributes
      BY <1>7 DEF ServeDisable
    <2> QED BY <1>7, <2>1 DEF ServeDisable
  <1> QED BY <1>1, <1>2, <1>3, <1>4, <1>5, <1>6, <1>7 DEF SetUp

------------------------------------------------------------------------------
(* The steps and the readings *)

LEMMA PublishReadingKeeps ==
    ASSUME HWMonAssumption, MonitorInv,
           NEW attr \in Attributes, NEW ok \in BOOLEAN, PublishReading(attr, ok)
    PROVE  (FlowTypes /\ OwnInv)'
  <1> DEFINE text == IF ok THEN Reading(Len(readings) + 1) ELSE None
             new  == [attr |-> attr, text |-> text]
  <1>1. /\ readings \in Seq(Readings) /\ Len(readings) \in Nat
        /\ DOMAIN readings = 1..Len(readings)
        /\ latest \in [Attributes -> Texts]
        /\ arrived \in [Attributes -> Seq(Texts)]
        /\ \A a \in Attributes : Len(arrived[a]) \in Nat /\ Len(arrived[a]) =< Len(readings)
    BY DEF MonitorInv, FlowTypes
  <1>2. text \in Texts /\ new \in Readings
    BY <1>1 DEF Reading, Texts, Readings
  <1>3. /\ readings' = Append(readings, new)
        /\ arrived' = [arrived EXCEPT ![attr] = Append(arrived[attr], text)]
        /\ latest' = latest \/ (text # None /\ latest' = [latest EXCEPT ![attr] = text])
        /\ UNCHANGED <<data, tick, shown>>
    <2>1. ok => text # None
      BY <1>1 DEF Reading, HWMonAssumption
    <2> QED BY <2>1 DEF PublishReading
  <1>4. new.attr = attr /\ new.text = text
    OBVIOUS
  <1> HIDE DEF text, new
  <1>5. /\ readings' \in Seq(Readings) /\ Len(readings') = Len(readings) + 1
        /\ DOMAIN readings' = 1..(Len(readings) + 1)
        /\ \A k \in 1..Len(readings) : readings'[k] = readings[k]
        /\ readings'[Len(readings) + 1] = new
    BY <1>1, <1>2, <1>3
  <1>6. \A a, t : Had(readings, a, t) => Had(readings', a, t)
    BY <1>1, <1>5 DEF Had
  <1>7. \A a, v : Shows(readings, a, v) => Shows(readings', a, v)
    BY <1>6 DEF Shows
  <1>8. text # None => Had(readings', attr, text)
    <2>1. Len(readings) + 1 \in DOMAIN readings'
      BY <1>1, <1>5
    <2>2. /\ readings'[Len(readings) + 1].attr = attr
          /\ readings'[Len(readings) + 1].text = text
      BY <1>4, <1>5
    <2> QED BY <2>1, <2>2 DEF Had
  <1>9. /\ Append(arrived[attr], text) \in Seq(Texts)
        /\ Len(Append(arrived[attr], text)) = Len(arrived[attr]) + 1
        /\ Append(arrived[attr], text)[Len(arrived[attr]) + 1] = text
        /\ \A i \in 1..Len(arrived[attr]) : Append(arrived[attr], text)[i] = arrived[attr][i]
    BY <1>1, <1>2
  <1>10. FlowTypes'
    <2>1. latest' \in [Attributes -> Texts]
      BY <1>1, <1>2, <1>3
    <2>2. /\ arrived' \in [Attributes -> Seq(Texts)]
          /\ \A a \in Attributes : Len(arrived'[a]) =< Len(readings')
      BY <1>1, <1>3, <1>5, <1>9
    <2> QED BY <1>3, <1>5, <2>1, <2>2 DEF MonitorInv, FlowTypes
  <1>11. ASSUME NEW a \in Attributes
         PROVE  latest'[a] = None \/ Had(readings', a, latest'[a])
    BY <1>1, <1>3, <1>6, <1>8 DEF MonitorInv, OwnInv
  <1>12. ASSUME NEW a \in Attributes, NEW i \in 1..Len(arrived'[a])
         PROVE  arrived'[a][i] = None \/ Had(readings', a, arrived'[a][i])
    <2>1. CASE a = attr
      <3>1. arrived'[a] = Append(arrived[attr], text)
        BY <1>1, <1>3, <2>1
      <3>2. CASE i = Len(arrived[attr]) + 1
        BY <1>8, <1>9, <2>1, <3>1, <3>2
      <3>3. CASE i # Len(arrived[attr]) + 1
        <4>1. i \in 1..Len(arrived[attr]) /\ arrived'[a][i] = arrived[attr][i]
          BY <1>1, <1>9, <3>1, <3>3
        <4> QED BY <1>6, <2>1, <4>1 DEF MonitorInv, OwnInv
      <3> QED BY <3>2, <3>3
    <2>2. CASE a # attr
      <3>1. arrived'[a] = arrived[a]
        BY <1>1, <1>3, <2>2
      <3> QED BY <1>6, <3>1 DEF MonitorInv, OwnInv
    <2> QED BY <2>1, <2>2
  <1>13. ASSUME NEW a \in Attributes
         PROVE  /\ data'[Entry(a)] = 0 \/ Shows(readings', a, data'[Entry(a)])
                /\ \/ shown'[TopicFor(a)] \in {None, 0}
                   \/ Shows(readings', a, shown'[TopicFor(a)])
    BY <1>3, <1>7 DEF MonitorInv, OwnInv
  <1> QED BY <1>10, <1>11, <1>12, <1>13 DEF OwnInv

LEMMA PublishAgainKeeps ==
    ASSUME MonitorInv, NEW attr \in Attributes, PublishAgain(attr)
    PROVE  (FlowTypes /\ OwnInv)'
  <1>1. /\ arrived' = [arrived EXCEPT ![attr] = <<latest[attr]>>]
        /\ arrived = NoMessages /\ latest[attr] # None
        /\ UNCHANGED <<readings, latest, data, tick, shown>>
    BY DEF PublishAgain
  <1>2. /\ arrived \in [Attributes -> Seq(Texts)] /\ latest[attr] \in Texts
        /\ readings \in Seq(Readings) /\ Len(readings) \in Nat
        /\ DOMAIN readings = 1..Len(readings)
        /\ \A a \in Attributes : Len(arrived[a]) =< Len(readings)
    BY DEF MonitorInv, FlowTypes
  <1>3. Had(readings, attr, latest[attr])
    BY <1>1 DEF MonitorInv, OwnInv
  <1>4. Len(readings) >= 1
    BY <1>2, <1>3 DEF Had
  <1>5. /\ <<latest[attr]>> \in Seq(Texts) /\ Len(<<latest[attr]>>) = 1
        /\ <<latest[attr]>>[1] = latest[attr]
    BY <1>2
  <1>6. /\ arrived'[attr] = <<latest[attr]>>
        /\ \A a \in Attributes \ {attr} : arrived'[a] = arrived[a]
        /\ arrived' \in [Attributes -> Seq(Texts)]
    BY <1>1, <1>2, <1>5
  <1>7. \A a \in Attributes : Len(arrived'[a]) =< Len(readings')
    BY <1>1, <1>2, <1>4, <1>5, <1>6
  <1>8. FlowTypes'
    BY <1>1, <1>6, <1>7 DEF MonitorInv, FlowTypes
  <1>9. ASSUME NEW a \in Attributes, NEW i \in 1..Len(arrived'[a])
        PROVE  arrived'[a][i] = None \/ Had(readings', a, arrived'[a][i])
    <2>1. CASE a = attr
      <3>1. Len(arrived'[a]) = 1
        BY <1>5, <1>6, <2>1
      <3>2. i = 1
        BY <3>1
      <3> QED BY <1>1, <1>3, <1>5, <1>6, <2>1, <3>2
    <2>2. CASE a # attr
      BY <1>1, <1>6, <2>2 DEF MonitorInv, OwnInv
    <2> QED BY <2>1, <2>2
  <1> QED BY <1>1, <1>8, <1>9 DEF MonitorInv, OwnInv

LEMMA UpdateKeeps ==
    ASSUME MonitorInv, NEW attr \in Attributes, update(attr), ~Stop
    PROVE  (FlowTypes /\ OwnInv)'
  <1> DEFINE text == Head(arrived[attr])
  <1>1. /\ arrived[attr] # <<>>
        /\ arrived' = [arrived EXCEPT ![attr] = Tail(arrived[attr])]
        /\ UNCHANGED <<readings, latest, tick, shown>>
        /\ \/ text # None /\ data' = [data EXCEPT ![Entry(attr)] = Converted(attr, text)]
           \/ data' = data
    BY DEF update
  <1>2. /\ arrived \in [Attributes -> Seq(Texts)] /\ data \in [Entries -> Nat]
        /\ readings \in Seq(Readings) /\ Len(readings) \in Nat
        /\ \A a \in Attributes : Len(arrived[a]) \in Nat /\ Len(arrived[a]) =< Len(readings)
    BY DEF MonitorInv, FlowTypes
  <1>3. /\ Tail(arrived[attr]) \in Seq(Texts) /\ text \in Texts
        /\ Len(Tail(arrived[attr])) = Len(arrived[attr]) - 1
        /\ Len(arrived[attr]) >= 1 /\ text = arrived[attr][1]
        /\ \A i \in 1..(Len(arrived[attr]) - 1) : Tail(arrived[attr])[i] = arrived[attr][i + 1]
    BY <1>1, <1>2
  <1> HIDE DEF text
  <1>4. text # None => text \in Nat /\ Had(readings, attr, text)
    BY <1>2, <1>3 DEF Texts, MonitorInv, OwnInv
  <1>5. text # None => /\ Converted(attr, text) \in Nat
                       /\ Shows(readings, attr, Converted(attr, text))
    BY <1>4, ConvertedIsNat DEF Shows
  <1>6. /\ arrived' \in [Attributes -> Seq(Texts)]
        /\ \A a \in Attributes : Len(arrived'[a]) =< Len(readings')
    BY <1>1, <1>2, <1>3
  <1>7. data' \in [Entries -> Nat]
    BY <1>1, <1>2, <1>5
  <1>8. FlowTypes'
    BY <1>1, <1>6, <1>7 DEF MonitorInv, FlowTypes
  <1>9. ASSUME NEW a \in Attributes, NEW i \in 1..Len(arrived'[a])
        PROVE  arrived'[a][i] = None \/ Had(readings', a, arrived'[a][i])
    <2>1. CASE a = attr
      <3>1. /\ arrived'[a] = Tail(arrived[attr]) /\ i \in 1..(Len(arrived[attr]) - 1)
            /\ i + 1 \in 1..Len(arrived[attr])
        BY <1>1, <1>2, <1>3, <2>1
      <3>2. arrived'[a][i] = arrived[attr][i + 1]
        BY <1>3, <3>1
      <3> QED BY <1>1, <2>1, <3>1, <3>2 DEF MonitorInv, OwnInv
    <2>2. CASE a # attr
      <3>1. arrived'[a] = arrived[a]
        BY <1>1, <1>2, <2>2
      <3> QED BY <1>1, <3>1 DEF MonitorInv, OwnInv
    <2> QED BY <2>1, <2>2
  <1>10. ASSUME NEW a \in Attributes
         PROVE  data'[Entry(a)] = 0 \/ Shows(readings', a, data'[Entry(a)])
    <2>1. CASE data' = data
      BY <1>1, <2>1 DEF MonitorInv, OwnInv
    <2>2. CASE text # None /\ data' = [data EXCEPT ![Entry(attr)] = Converted(attr, text)]
      <3>1. CASE a = attr
        <4>1. data'[Entry(a)] = Converted(attr, text)
          BY <1>2, <2>2, <3>1, NoneShared
        <4> QED BY <1>1, <1>5, <2>2, <3>1, <4>1
      <3>2. CASE a # attr
        <4>1. data'[Entry(a)] = data[Entry(a)]
          BY <1>2, <2>2, <3>2, NoneShared
        <4> QED BY <1>1, <4>1 DEF MonitorInv, OwnInv
      <3> QED BY <3>1, <3>2
    <2> QED BY <1>1, <2>1, <2>2
  <1> QED BY <1>1, <1>8, <1>9, <1>10 DEF MonitorInv, OwnInv

LEMMA TimerKeeps ==
    ASSUME MonitorInv, timer_callback
    PROVE  (FlowTypes /\ OwnInv)'
  <1>1. tick \in 0..7 /\ tick + 1 \in 1..8
    BY DEF MonitorInv, FlowTypes
  <1>2. PICK b \in Attributes : /\ Publications[tick + 1].topic = TopicFor(b)
                                /\ Publications[tick + 1].entry = Entry(b)
    BY <1>1, PublicationFacts
  <1>3. /\ shown' = [shown EXCEPT ![TopicFor(b)] = data[Entry(b)]]
        /\ tick' = (tick + 1) % 8
        /\ UNCHANGED <<readings, latest, arrived, data>>
    BY <1>2, PublicationFacts DEF timer_callback
  <1>4. tick' \in 0..7
    BY <1>1, <1>3
  <1>5. data[Entry(b)] \in Nat /\ shown \in [OwnTopics -> Texts] /\ TopicFor(b) \in OwnTopics
    BY <1>2, NoneShared DEF MonitorInv, FlowTypes
  <1>6. shown' \in [OwnTopics -> Texts]
    BY <1>3, <1>5 DEF Texts
  <1>7. FlowTypes'
    BY <1>3, <1>4, <1>6 DEF MonitorInv, FlowTypes
  <1>8. ASSUME NEW a \in Attributes
        PROVE  shown'[TopicFor(a)] \in {None, 0} \/ Shows(readings', a, shown'[TopicFor(a)])
    <2>1. CASE a = b
      <3>1. shown'[TopicFor(a)] = data[Entry(a)]
        BY <1>3, <1>5, <2>1
      <3> QED BY <1>3, <3>1 DEF MonitorInv, OwnInv
    <2>2. CASE a # b
      <3>1. shown'[TopicFor(a)] = shown[TopicFor(a)]
        BY <1>3, <1>5, <2>2, NoneShared
      <3> QED BY <1>3, <3>1 DEF MonitorInv, OwnInv
    <2> QED BY <2>1, <2>2
  <1> QED BY <1>3, <1>7, <1>8 DEF MonitorInv, OwnInv

------------------------------------------------------------------------------

LEMMA NextKeeps ==
    ASSUME HWMonAssumption, MonitorInv, [Next]_vars
    PROVE  MonitorInv'
  <1>1. CASE UNCHANGED flow /\ SetUpInv'
    BY <1>1 DEF flow, MonitorInv, FlowTypes, OwnInv
  <1>2. CASE ServicesUp \/ SetUp \/ ServeDisable
    <2>1. UNCHANGED flow
      BY <1>2 DEF ServicesUp, SetUp, setup_service_client, WaitForServices, attr_enable_topic,
                  ServeEnable, create_subscription, ServeDisable
    <2> QED BY <1>1, <1>2, <2>1, SetUpKeeps
  <1>3. CASE Stop
    BY <1>3, StopKeeps
  <1>4. ASSUME UNCHANGED setup PROVE SetUpInv'
    BY <1>4 DEF setup, MonitorInv, SetUpInv, At
  <1>5. ASSUME NEW attr \in Attributes, NEW ok \in BOOLEAN, PublishReading(attr, ok)
        PROVE  MonitorInv'
    <2>1. UNCHANGED setup
      BY <1>5 DEF PublishReading
    <2> QED BY <1>4, <1>5, <2>1, PublishReadingKeeps DEF MonitorInv
  <1>6. ASSUME NEW attr \in Attributes, PublishAgain(attr)
        PROVE  MonitorInv'
    <2>1. UNCHANGED setup
      BY <1>6 DEF PublishAgain
    <2> QED BY <1>4, <1>6, <2>1, PublishAgainKeeps DEF MonitorInv
  <1>7. ASSUME NEW attr \in Attributes, update(attr)
        PROVE  MonitorInv'
    <2>1. ~Stop => UNCHANGED setup
      BY <1>7 DEF update
    <2> QED BY <1>3, <1>4, <1>7, <2>1, UpdateKeeps DEF MonitorInv
  <1>8. CASE timer_callback
    <2>1. UNCHANGED setup
      BY <1>8 DEF timer_callback
    <2> QED BY <1>4, <1>8, <2>1, TimerKeeps DEF MonitorInv
  <1>9. CASE destroy_node
    BY <1>3, <1>9 DEF destroy_node
  <1>10. CASE UNCHANGED vars
    BY <1>1, <1>4, <1>10 DEF vars
  <1> QED BY <1>2, <1>5, <1>6, <1>7, <1>8, <1>9, <1>10 DEF Next, Store

LEMMA Invariant == ASSUME HWMonAssumption PROVE Spec => []MonitorInv
  <1>1. Init => MonitorInv
    BY MonitorInit
  <1>2. MonitorInv /\ [Next]_vars => MonitorInv'
    BY NextKeeps
  <1> QED BY <1>1, <1>2, PTL DEF Spec

(* The set-up's place, the requests, the queues and what is stored and     *)
(* shown have their types, however often it is read, refused and stopped   *)
(* (dell_precision_5530.py:83).                                            *)
THEOREM TypeCorrect == ASSUME HWMonAssumption PROVE Spec => []TypeOK
  <1>1. MonitorInv => TypeOK
    <2> SUFFICES ASSUME MonitorInv PROVE TypeOK
      OBVIOUS
    <2>1. \A i \in DOMAIN toDisable : toDisable[i] \in Attributes
      BY DEF MonitorInv, SetUpInv
    <2>2. tick \in 0..(Len(Publications) - 1)
      BY PublicationFacts DEF MonitorInv, FlowTypes
    <2>3. /\ \A entry \in DOMAIN data : data[entry] \in Nat
          /\ \A topic \in DOMAIN shown : shown[topic] \in Nat \cup {None}
      BY DEF MonitorInv, FlowTypes, Texts
    <2> QED BY <2>1, <2>2, <2>3 DEF MonitorInv, SetUpInv, FlowTypes, TypeOK
  <1> QED BY <1>1, Invariant, PTL

(* A topic of the node shows readings of its own attribute only, for every *)
(* number of readings: they keep to their attribute in the subscription's  *)
(* queue, in self.data and in what timer_callback publishes                *)
(* (dell_precision_5530.py:338).                                           *)
THEOREM OwnReadings == ASSUME HWMonAssumption PROVE Spec => []ShowsOwnReadings
  <1>1. MonitorInv => ShowsOwnReadings
    <2> SUFFICES ASSUME MonitorInv, NEW a \in Attributes
                 PROVE  \/ shown[TopicFor(a)] \in {None, 0}
                        \/ IsReading(a, shown[TopicFor(a)], 1)
      BY DEF ShowsOwnReadings
    <2> QED BY ShowsIsReading DEF MonitorInv, OwnInv
  <1> QED BY <1>1, Invariant, PTL

------------------------------------------------------------------------------
(* The teardown *)

(* The enable steps of a script are for attributes of A, each for another. *)
Distinct(s, A) ==
    /\ s \in Seq(ScriptSteps)
    /\ \A i \in 1..Len(s) : s[i].do = "enable" => s[i].attr \in A
    /\ \A i, j \in 1..Len(s) :
          s[i].do = "enable" /\ s[j].do = "enable" /\ s[i].attr = s[j].attr => i = j

(* Script after script keeps them apart if the scripts' attributes are.    *)
LEMMA JoinDistinct ==
    ASSUME NEW s, NEW t, NEW A, NEW B, Distinct(s, A), Distinct(t, B), A \cap B = {}
    PROVE  Distinct(s \o t, A \cup B)
  <1>1. s \in Seq(ScriptSteps) /\ t \in Seq(ScriptSteps) /\ Len(s) \in Nat /\ Len(t) \in Nat
    BY DEF Distinct
  <1>2. /\ s \o t \in Seq(ScriptSteps)
        /\ Len(s \o t) = Len(s) + Len(t)
        /\ \A i \in 1..(Len(s) + Len(t)) :
              (s \o t)[i] = IF i =< Len(s) THEN s[i] ELSE t[i - Len(s)]
    BY <1>1, ConcatProperties
  <1> DEFINE st == s \o t
  <1>3. \A i \in 1..Len(st) : i =< Len(s) => i \in 1..Len(s) /\ st[i] = s[i]
    BY <1>1, <1>2
  <1>4. \A i \in 1..Len(st) : ~(i =< Len(s)) =>
            i - Len(s) \in 1..Len(t) /\ st[i] = t[i - Len(s)]
    BY <1>1, <1>2
  <1> HIDE DEF st
  <1>5. \A i \in 1..Len(st) : st[i].do = "enable" =>
            st[i].attr \in IF i =< Len(s) THEN A ELSE B
    BY <1>3, <1>4 DEF Distinct
  <1>6. ASSUME NEW i \in 1..Len(st), NEW j \in 1..Len(st),
               st[i].do = "enable", st[j].do = "enable", st[i].attr = st[j].attr
        PROVE  i = j
    <2>1. CASE i =< Len(s) /\ j =< Len(s)
      BY <1>3, <1>6, <2>1 DEF Distinct
    <2>2. CASE ~(i =< Len(s)) /\ ~(j =< Len(s))
      <3>1. i - Len(s) = j - Len(s)
        BY <1>4, <1>6, <2>2 DEF Distinct
      <3> QED BY <1>1, <3>1
    <2> QED BY <1>5, <1>6, <2>1, <2>2
  <1> QED BY <1>2, <1>5, <1>6 DEF Distinct, st

(* A setup_* function enables each of its attributes once.                 *)
LEMMA SetUpDistinct ==
    ASSUME NEW attrs \in Seq(Attributes), NEW A,
           \A i \in 1..Len(attrs) : attrs[i] \in A,
           \A i, j \in 1..Len(attrs) : attrs[i] = attrs[j] => i = j
    PROVE  Distinct(SetUpAll(attrs), A)
  <1>1. Len(attrs) \in Nat /\ DOMAIN attrs = 1..Len(attrs)
    OBVIOUS
  <1>2. ASSUME NEW what \in {"enable", "subscribe"}
        PROVE  /\ Do(what, attrs) \in Seq(ScriptSteps)
               /\ Len(Do(what, attrs)) = Len(attrs)
               /\ \A i \in 1..Len(attrs) :
                     Do(what, attrs)[i].do = what /\ Do(what, attrs)[i].attr = attrs[i]
    <2>1. \A i \in 1..Len(attrs) : [do |-> what, attr |-> attrs[i]] \in ScriptSteps
      BY <1>1 DEF ScriptSteps
    <2>2. Do(what, attrs) = [i \in 1..Len(attrs) |-> [do |-> what, attr |-> attrs[i]]]
      BY <1>1 DEF Do
    <2> QED BY <1>1, <2>1, <2>2
  <1>3. Distinct(Do("enable", attrs), A)
    BY <1>2 DEF Distinct
  <1>4. Distinct(Do("subscribe", attrs), {})
    BY <1>2 DEF Distinct
  <1>5. A \cap {} = {} /\ A \cup {} = A
    OBVIOUS
  <1> QED BY <1>3, <1>4, <1>5, JoinDistinct DEF SetUpAll

LEMMA ScriptDistinct ==
    \A i, j \in 1..Len(Script) :
        Script[i].do = "enable" /\ Script[j].do = "enable" /\ Script[i].attr = Script[j].attr
            => i = j
  <1>1. ASSUME NEW a \in Attributes
        PROVE  Distinct(SetUpAll(<<a>>), {a})
    <2>1. <<a>> \in Seq(Attributes) /\ Len(<<a>>) = 1 /\ <<a>>[1] = a
      OBVIOUS
    <2>2. \A i \in 1..Len(<<a>>) : <<a>>[i] \in {a} /\ i = 1
      BY <2>1
    <2> QED BY <2>1, <2>2, SetUpDistinct
  <1>2. Distinct(setup_core_temp, {"temp2", "temp3", "temp4", "temp5"})
    <2> DEFINE cores == <<"temp2", "temp3", "temp4", "temp5">>
    <2>1. cores \in Seq(Attributes) /\ Len(cores) = 4
      BY DEF Attributes
    <2>2. 1..4 = {1, 2, 3, 4}
      OBVIOUS
    <2>3. /\ cores[1] = "temp2" /\ cores[2] = "temp3"
          /\ cores[3] = "temp4" /\ cores[4] = "temp5"
      OBVIOUS
    <2> HIDE DEF cores
    <2>4. \A i \in 1..4 : cores[i] \in {"temp2", "temp3", "temp4", "temp5"}
      BY <2>2, <2>3
    <2>5. \A i, j \in 1..4 : cores[i] = cores[j] => i = j
      BY <2>2, <2>3
    <2>6. Distinct(SetUpAll(cores), {"temp2", "temp3", "temp4", "temp5"})
      BY <2>1, <2>4, <2>5, SetUpDistinct
    <2> QED BY <2>6 DEF setup_core_temp, cores
  <1>3. /\ Distinct(setup_bat0_current, {"curr1"}) /\ Distinct(setup_bat0_voltage, {"in0"})
        /\ Distinct(SetUpAll(<<"fan1">>), {"fan1"}) /\ Distinct(SetUpAll(<<"fan2">>), {"fan2"})
    BY <1>1 DEF setup_bat0_current, setup_bat0_voltage, Attributes
  <1>4. Distinct(setup_fans, {"fan1"} \cup {"fan2"})
    BY <1>3, JoinDistinct DEF setup_fans
  <1>5. Distinct(setup_bat0_current \o setup_bat0_voltage, {"curr1"} \cup {"in0"})
    BY <1>3, JoinDistinct
  <1>6. Distinct(setup_bat0_current \o setup_bat0_voltage \o setup_core_temp,
                 ({"curr1"} \cup {"in0"}) \cup {"temp2", "temp3", "temp4", "temp5"})
    BY <1>2, <1>5, JoinDistinct
  <1>7. PICK A : Distinct(Script, A)
    <2>1. (({"curr1"} \cup {"in0"}) \cup {"temp2", "temp3", "temp4", "temp5"})
              \cap ({"fan1"} \cup {"fan2"}) = {}
      OBVIOUS
    <2>2. Distinct(Script, (({"curr1"} \cup {"in0"}) \cup {"temp2", "temp3", "temp4", "temp5"})
                                \cup ({"fan1"} \cup {"fan2"}))
      BY <1>4, <1>6, <2>1, JoinDistinct DEF Script
    <2> QED BY <2>2
  <1> QED BY <1>7 DEF Distinct

(* An attribute whose enable request is behind the place of the set-up.    *)
Requested(a) ==
    \E i \in 1..Len(Script) : i < hStep /\ Script[i].do = "enable" /\ Script[i].attr = a

(* What is left of the topics that were enabled at destroy_node is still   *)
(* asked to be disabled, and the one the set-up polls for is none of them. *)
TeardownInv ==
    /\ hRunning => hOnAtStop = {}
    /\ hOnAtStop \subseteq Attributes
    /\ \A a \in hOnAtStop : Requested(a)
    /\ hRunning => \A a \in hEnabled : Requested(a)
    /\ \A a \in hOnAtStop \cap hEnabled : \E i \in 1..Len(toDisable) : toDisable[i] = a

LEMMA TeardownStop ==
    ASSUME MonitorInv, TeardownInv, Stop, hRunning
    PROVE  TeardownInv'
  <1>1. \A a \in Attributes : \E i \in 1..Len(disable_requests) : disable_requests[i] = a
    <2> DEFINE D == disable_requests
    <2>1. Len(D) = 8 /\ 1..8 = {1, 2, 3, 4, 5, 6, 7, 8}
      BY DEF disable_requests
    <2>2. /\ D[1] = "curr1" /\ D[2] = "in0" /\ D[3] = "temp2" /\ D[4] = "temp3"
          /\ D[5] = "temp4" /\ D[6] = "temp5" /\ D[7] = "fan1" /\ D[8] = "fan2"
      BY DEF disable_requests
    <2> HIDE DEF D
    <2>3. \A a \in Attributes : \E i \in 1..Len(D) : D[i] = a
      BY <2>1, <2>2, Eight
    <2> QED BY <2>3 DEF D
  <1>2. hStep' = hStep /\ hEnabled' = hEnabled /\ ~hRunning'
    BY DEF Stop
  <1>3. hEnabled \subseteq Attributes /\ \A a \in hEnabled : Requested(a)'
    BY <1>2 DEF MonitorInv, SetUpInv, TeardownInv, Requested
  <1>4. CASE hUp /\ hStep # Armed
    <2>1. toDisable' = disable_requests /\ hOnAtStop' = hEnabled
      BY <1>4 DEF Stop
    <2>2. \A a \in (hOnAtStop \cap hEnabled)' : \E i \in 1..Len(toDisable') : toDisable'[i] = a
      BY <1>1, <1>2, <1>3, <2>1
    <2> QED BY <1>2, <1>3, <2>1, <2>2 DEF TeardownInv
  <1>5. CASE ~(hUp /\ hStep # Armed)
    <2>1. hOnAtStop' = {}
      BY <1>5 DEF Stop
    <2> QED BY <1>2, <2>1 DEF TeardownInv
  <1> QED BY <1>4, <1>5

LEMMA TeardownServeEnable ==
    ASSUME MonitorInv, TeardownInv, NEW ok \in BOOLEAN, ServeEnable(ok)
    PROVE  TeardownInv'
  <1> PICK polled : polled = Script[hStep].attr
    OBVIOUS
  <1>1. hStep \in 1..Len(Script) /\ Script[hStep].do = "enable"
    BY ScriptIsSteps DEF ServeEnable, MonitorInv, SetUpInv, At
  <1>2. /\ hEnabled' = hEnabled \/ hEnabled' = hEnabled \cup {polled}
        /\ UNCHANGED <<hRunning, hOnAtStop, toDisable>>
        /\ hStep' = IF hRunning THEN hStep + 1 ELSE hStep
    BY DEF ServeEnable
  <1>3. polled \notin hOnAtStop
    BY <1>1, ScriptDistinct DEF TeardownInv, Requested
  <1>4. \A a : Requested(a) => Requested(a)'
    BY <1>1, <1>2, ScriptIsSteps DEF Requested
  <1>5. hRunning => Requested(polled)'
    BY <1>1, <1>2, ScriptIsSteps DEF Requested
  <1>6. (hOnAtStop \cap hEnabled)' = hOnAtStop \cap hEnabled
    BY <1>2, <1>3
  <1>7. hRunning' => \A a \in hEnabled' : Requested(a)'
    BY <1>2, <1>4, <1>5 DEF TeardownInv
  <1> QED BY <1>2, <1>4, <1>6, <1>7 DEF TeardownInv

LEMMA TeardownKeeps ==
    ASSUME MonitorInv, TeardownInv, [Next]_vars
    PROVE  TeardownInv'
  <1>1. ASSUME UNCHANGED <<hRunning, hEnabled, toDisable, hOnAtStop>>,
               hStep' = hStep \/ (hStep \in {Armed, Waiting} /\ hStep' >= hStep
                                  /\ hStep' \in Int)
                 \/ (hStep \in Int /\ hStep' = hStep + 1)
        PROVE  TeardownInv'
    <2>1. \A a : Requested(a) => Requested(a)'
      BY <1>1, ScriptIsSteps DEF Requested, Armed, Waiting
    <2> QED BY <1>1, <2>1 DEF TeardownInv
  <1>2. CASE ServicesUp \/ attr_enable_topic
    BY <1>1, <1>2 DEF ServicesUp, attr_enable_topic
  <1>3. CASE setup_service_client \/ WaitForServices
    BY <1>1, <1>3 DEF setup_service_client, WaitForServices, Armed, Waiting
  <1>4. CASE create_subscription
    <2>1. hStep \in Int
      BY <1>4, ScriptIsSteps DEF create_subscription, At
    <2> QED BY <1>1, <1>4, <2>1 DEF create_subscription
  <1>5. CASE ServeDisable
    <2>1. /\ toDisable \in Seq(Attributes) /\ toDisable # <<>>
          /\ toDisable' = Tail(toDisable) /\ hEnabled' = hEnabled \ {Head(toDisable)}
          /\ UNCHANGED <<hRunning, hStep, hOnAtStop>>
      BY <1>5 DEF ServeDisable, MonitorInv, SetUpInv
    <2>2. ASSUME NEW a \in hOnAtStop \cap hEnabled, a # Head(toDisable)
          PROVE  \E i \in 1..Len(toDisable') : toDisable'[i] = a
      <3>1. PICK i \in 1..Len(toDisable) : toDisable[i] = a
        BY DEF TeardownInv
      <3>2. i # 1
        BY <2>1, <2>2, <3>1
      <3>3. i - 1 \in 1..Len(toDisable') /\ toDisable'[i - 1] = a
        BY <2>1, <3>1, <3>2
      <3> QED BY <3>3
    <2>3. \A a : Requested(a)' <=> Requested(a)
      BY <2>1 DEF Requested
    <2> QED BY <2>1, <2>2, <2>3 DEF TeardownInv
  <1>6. CASE UNCHANGED setup
    BY <1>1, <1>6 DEF setup
  <1>7. ASSUME NEW attr \in Attributes,
               PublishAgain(attr) \/ update(attr) \/ \E ok \in BOOLEAN : PublishReading(attr, ok)
        PROVE  TeardownInv'
    <2>1. UNCHANGED setup \/ (Stop /\ hRunning)
      BY <1>7 DEF PublishAgain, PublishReading, update
    <2> QED BY <1>6, <2>1, TeardownStop
  <1>8. CASE timer_callback
    BY <1>6, <1>8 DEF timer_callback
  <1>9. CASE destroy_node
    BY <1>9, TeardownStop DEF destroy_node
  <1>10. CASE UNCHANGED vars
    BY <1>6, <1>10 DEF vars
  <1> QED BY <1>2, <1>3, <1>4, <1>5, <1>7, <1>8, <1>9, <1>10, TeardownServeEnable
          DEF Next, SetUp, Store

(* The eight requests that destroy_node writes out                         *)
(* (dell_precision_5530.py:447) leave no topic behind that was enabled when *)
(* it ran, wherever SIGINT or a failed callback met the set-up and         *)
(* whichever of its requests were refused.                                 *)
THEOREM TeardownSafety == ASSUME HWMonAssumption PROVE Spec => []TeardownDisables
  <1>1. Init => TeardownInv
    BY DEF Init, TeardownInv
  <1>2. MonitorInv /\ TeardownInv /\ [Next]_vars => TeardownInv'
    BY TeardownKeeps
  <1>3. TeardownInv => TeardownDisables
    BY DEF TeardownInv, TeardownDisables
  <1> QED BY <1>1, <1>2, <1>3, Invariant, PTL DEF Spec

=============================================================================
