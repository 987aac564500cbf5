-------------------------- MODULE Conversion_proofs --------------------------
(***************************************************************************)
(* What the ad7124_8_buffer_scaled node and the visualizer do with the     *)
(* samples, for every number of channels, samples and messages.            *)
(*                                                                         *)
(* While the set-up runs no message arrives, and once one has arrived the  *)
(* scales stay: the proof has an invariant of the set-up, ScalesInv, and   *)
(* one of the messages, each after the step before it: RawInv, the         *)
(* conversion under self.lock in ScaledInv and PendingInv, OnceInv, and    *)
(* PlotInv.                                                                *)
(***************************************************************************)
EXTENDS Conversion, SequenceTheorems, TLAPS

ChannelCount == Len(Channels)

(* How many channels' scales have been asked for: Read is the third call   *)
(* of a channel, after the two calls on the buffer.                        *)
ReadsDone == IF step >= 3 THEN (step - 3) \div 3 ELSE 0

SetupTypeOK ==
    /\ running \in BOOLEAN /\ up \in BOOLEAN /\ calling \in BOOLEAN
    /\ step \in {Armed, Waiting} \cup 1..Listening
    /\ calling => step \in 1..Len(SetupCalls)
    /\ sent \subseteq {"BufferDestroy", "BufferDisableTopic"}

ScalesInv ==
    /\ hwScale \in [ChannelNames -> Nat]
    /\ chnScales \in Seq(Nat)
    /\ Len(chnScales) =< ReadsDone
    /\ Len(chnScales) = ReadsDone =>
           \A i \in 1..ReadsDone : chnScales[i] = hwScale[Channels[i]]
    /\ \A k \in DOMAIN chnScales :
           \E i \in 1..ReadsDone : chnScales[k] = hwScale[Channels[i]]

Places == 0..(Samples * ChannelCount - 1)

RawOf(n, refill) == [seq |-> n, layout |-> <<Samples, Len(Channels)>>,
                     data |-> Interleaved(refill), refill |-> refill]

Raw == {RawOf(n, refill) : n \in Nat, refill \in Waveforms}

Message == [seq : Nat, layout : {<<Samples, ChannelCount>>}, data : [Places -> Int]]

RawInv ==
    /\ rawTopic \in Seq(Raw)
    /\ \A i \in DOMAIN rawTopic : rawTopic[i].seq = i
    /\ rawTopic # <<>> => step = Listening
    /\ untaken \in 1..(Len(rawTopic) + 1)
    /\ taken \subseteq {rawTopic[i] : i \in 1..(untaken - 1)}

(* A conversion of one that has been taken, with scales to do so.          *)
FromRaw(d) ==
    /\ chnScales # <<>>
    /\ \E i \in 1..(untaken - 1) : d = Converted(rawTopic[i])

(* A message made of such a conversion.                                    *)
Good(m) ==
    \E d \in {Converted(rawTopic[i]) : i \in 1..(untaken - 1)} :
        FromRaw(d) /\ m = [seq |-> d.seq, layout |-> <<Samples, ChannelCount>>, data |-> d.data]

(* What self.lock guards, step by step of its holder.                      *)
PendingInv ==
    /\ holder \in {Free, "data", "flag", "published"}
    /\ scaledMsg = [seq |-> scaledMsg.seq, layout |-> scaledMsg.layout, data |-> scaledMsg.data]
    /\ available \in BOOLEAN
    /\ scaledData = NoData \/ FromRaw(scaledData)
    /\ holder = "data" => FromRaw(scaledData) /\ scaledMsg.layout = <<Samples, ChannelCount>>
    /\ holder = "flag" => Good(scaledMsg)
    /\ available /\ holder # "data" => Good(scaledMsg)
    /\ holder = "published" => available

ScaledInv ==
    /\ mVTopic \in Seq(Message)
    /\ \A k \in DOMAIN mVTopic : Good(mVTopic[k])

(* The conversions that are still to be published.                         *)
Pending ==
    CASE holder = "data" -> {scaledData.seq}
      [] holder = "flag" \/ (holder = Free /\ available) -> {scaledMsg.seq}
      [] OTHER -> {}

(* A refill is in one place: held by a thread, converted, or published.    *)
OnceInv ==
    /\ EachOnce
    /\ \A k \in DOMAIN mVTopic, msg \in taken : mVTopic[k].seq # msg.seq
    /\ \A s \in Pending :
           /\ \A k \in DOMAIN mVTopic : mVTopic[k].seq # s
           /\ \A msg \in taken : msg.seq # s

PlotInv ==
    /\ plotted \in 0..Len(mVTopic)
    /\ matrix # <<>> => plotted # 0 /\ matrix = Matrix(mVTopic[plotted])

MessagesInv == RawInv /\ PendingInv /\ ScaledInv /\ OnceInv /\ PlotInv

ConversionInv == SetupTypeOK /\ ScalesInv /\ MessagesInv

------------------------------------------------------------------------------
(* The calls of the set-up                                                 *)

LEMMA CallCount ==
    ASSUME ConversionAssumption
    PROVE  /\ ChannelCount \in Nat \ {0}
           /\ DOMAIN Channels = 1..ChannelCount
           /\ Len(SetupCalls) = 3 * ChannelCount + 2
           /\ Listening = 3 * ChannelCount + 3
  <1> DEFINE First == << [to |-> "BufferCreate"], [to |-> "BufferEnableTopic"] >>
             At(k) == CallsOf(Channels[((k - 1) \div 3) + 1])[((k - 1) % 3) + 1]
             Rest  == [k \in 1..(3 * ChannelCount) |-> At(k)]
             Calls == {First[1], First[2]} \cup {At(k) : k \in 1..(3 * ChannelCount)}
  <1>1. ChannelCount \in Nat \ {0} /\ DOMAIN Channels = 1..ChannelCount
    BY DEF ConversionAssumption, ChannelCount
  <1>2. SetupCalls = First \o Rest
    BY DEF SetupCalls, ChannelCount
  <1>3. Len(First) = 2 /\ First \in Seq(Calls)
    <2> HIDE DEF At
    <2> QED OBVIOUS
  <1>4. 3 * ChannelCount \in Nat
    BY <1>1
  <1>5. Rest \in Seq(Calls) /\ Len(Rest) = 3 * ChannelCount
    <2> HIDE DEF At
    <2> QED BY <1>4
  <1> HIDE DEF First, At, Rest, Calls
  <1>6. Len(First \o Rest) = 2 + 3 * ChannelCount
    <2>1. Len(First \o Rest) = Len(First) + Len(Rest)
      BY <1>3, <1>5, ConcatProperties, Zenon
    <2> QED BY <1>3, <1>5, <2>1
  <1> QED BY <1>1, <1>2, <1>6 DEF Listening

LEMMA CallAt ==
    ASSUME ConversionAssumption, NEW n \in 1..Len(SetupCalls)
    PROVE  \/ n = 1 /\ SetupCalls[n] = [to |-> "BufferCreate"]
           \/ n = 2 /\ SetupCalls[n] = [to |-> "BufferEnableTopic"]
           \/ \E i \in 1..ChannelCount :
                  \/ n = 3 * i /\ SetupCalls[n] = Write("sampling_frequency", Channels[i])
                  \/ n = 3 * i + 1 /\ SetupCalls[n] = Write("scale", Channels[i])
                  \/ n = 3 * i + 2 /\ SetupCalls[n] = Read(Channels[i])
  <1> DEFINE First == << [to |-> "BufferCreate"], [to |-> "BufferEnableTopic"] >>
             At(k) == CallsOf(Channels[((k - 1) \div 3) + 1])[((k - 1) % 3) + 1]
             Rest  == [k \in 1..(3 * ChannelCount) |-> At(k)]
             Calls == {First[1], First[2]} \cup {At(k) : k \in 1..(3 * ChannelCount)}
  <1>1. /\ ChannelCount \in Nat \ {0}
        /\ n \in 1..(3 * ChannelCount + 2)
    BY CallCount
  <1>2. SetupCalls = First \o Rest
    BY DEF SetupCalls, ChannelCount
  <1>3. /\ Len(First) = 2 /\ First \in Seq(Calls)
        /\ First[1] = [to |-> "BufferCreate"] /\ First[2] = [to |-> "BufferEnableTopic"]
    <2> HIDE DEF At
    <2> QED OBVIOUS
  <1>4. /\ Rest \in Seq(Calls) /\ Len(Rest) = 3 * ChannelCount
        /\ \A k \in 1..(3 * ChannelCount) : Rest[k] = At(k)
    <2> HIDE DEF At
    <2> QED BY <1>1
  <1> HIDE DEF First, At, Rest, Calls
  <1>5. SetupCalls[n] = IF n =< 2 THEN First[n] ELSE Rest[n - 2]
    <2>1. \A k \in 1..(Len(First) + Len(Rest)) :
              (First \o Rest)[k] = IF k <= Len(First) THEN First[k] ELSE Rest[k - Len(First)]
      BY <1>3, <1>4, ConcatProperties, Zenon
    <2> QED BY <1>1, <1>2, <1>3, <1>4, <2>1
  <1>6. CASE n =< 2
    BY <1>1, <1>3, <1>5, <1>6
  <1>7. CASE n > 2
    <2> DEFINE i == ((n - 3) \div 3) + 1
    <2>1. SetupCalls[n] = At(n - 2)
      BY <1>1, <1>4, <1>5, <1>7
    <2>2. i \in 1..ChannelCount /\ n - 3 = 3 * (i - 1) + ((n - 3) % 3) /\ (n - 3) % 3 \in 0..2
      BY <1>1, <1>7
    <2>3. SetupCalls[n] = CallsOf(Channels[i])[((n - 3) % 3) + 1]
      <3>1. n - 2 - 1 = n - 3
        BY <1>1
      <3> QED BY <2>1, <3>1 DEF At
    <2> HIDE DEF i
    <2>4. CASE (n - 3) % 3 = 0
      <3>1. n = 3 * i
        BY <1>1, <2>2, <2>4
      <3> QED BY <2>2, <2>3, <2>4, <3>1 DEF CallsOf
    <2>5. CASE (n - 3) % 3 = 1
      <3>1. n = 3 * i + 1
        BY <1>1, <2>2, <2>5
      <3> QED BY <2>2, <2>3, <2>5, <3>1 DEF CallsOf
    <2>6. CASE (n - 3) % 3 = 2
      <3>1. n = 3 * i + 2
        BY <1>1, <2>2, <2>6
      <3> QED BY <2>2, <2>3, <2>6, <3>1 DEF CallsOf
    <2> QED BY <2>2, <2>4, <2>5, <2>6
  <1> QED BY <1>1, <1>6, <1>7

------------------------------------------------------------------------------
(* The set-up                                                              *)

LEMMA ReadFacts ==
    ASSUME ConversionAssumption, SetupTypeOK
    PROVE  /\ ReadsDone \in 0..ChannelCount
           /\ step = Listening => ReadsDone = ChannelCount
           /\ Listening # Armed /\ Listening # Waiting
           /\ Listening \notin 1..Len(SetupCalls)
  BY CallCount DEF SetupTypeOK, ReadsDone, Armed, Waiting

(* Without a message everything behind the topic is as it was at first.    *)
LEMMA NothingYet ==
    ASSUME rawTopic = <<>>, untaken = 1, taken = {}, holder = Free, scaledData = NoData,
           scaledMsg = Empty, available = FALSE, mVTopic = <<>>, plotted = 0, matrix = <<>>
    PROVE  MessagesInv
  <1>1. RawInv
    BY DEF RawInv
  <1>2. PendingInv
    BY DEF PendingInv, Empty, Free
  <1>3. ScaledInv
    <2>1. mVTopic \in Seq(Message) /\ DOMAIN mVTopic = {}
      OBVIOUS
    <2> QED BY <2>1 DEF ScaledInv
  <1>4. OnceInv
    <2>1. Pending = {} /\ DOMAIN mVTopic = {}
      BY DEF Pending, Free
    <2> QED BY <2>1 DEF OnceInv, EachOnce
  <1>5. PlotInv
    BY DEF PlotInv
  <1> QED BY <1>1, <1>2, <1>3, <1>4, <1>5 DEF MessagesInv

LEMMA ConversionInit ==
    ASSUME ConversionAssumption, Init
    PROVE  ConversionInv
  <1>1. SetupTypeOK
    BY DEF Init, SetupTypeOK
  <1>2. ScalesInv
    BY DEF Init, ScalesInv, ReadsDone, Armed, ConversionAssumption
  <1>3. MessagesInv
    BY NothingYet DEF Init
  <1> QED BY <1>1, <1>2, <1>3 DEF ConversionInv

(* Steps that touch neither the scales nor the messages.                   *)
LEMMA Aside ==
    ASSUME ConversionInv, SetupTypeOK', UNCHANGED <<hwScale, chnScales, stream>>,
           ReadsDone' = ReadsDone, rawTopic # <<>> => step' = step
    PROVE  ConversionInv'
  <1>1. ScalesInv'
    BY DEF ConversionInv, ScalesInv
  <1> USE DEF ConversionInv, MessagesInv, stream, shared
  <1>2. RawInv'
    BY DEF RawInv, Listening, SetupCalls
  <1>3. \A m : (FromRaw(m) => FromRaw(m)') /\ (Good(m) => Good(m)')
    BY DEF FromRaw, Good, Converted, ToMilliVolts
  <1>4. PendingInv'
    BY <1>3 DEF PendingInv
  <1>5. ScaledInv'
    BY <1>3 DEF ScaledInv
  <1>6. OnceInv' /\ PlotInv'
    BY DEF OnceInv, EachOnce, Pending, PlotInv
  <1> QED BY <1>1, <1>2, <1>4, <1>5, <1>6

LEMMA SetupKeeps ==
    ASSUME ConversionAssumption, ConversionInv,
           \/ ServicesUp \/ setup_service_clients \/ WaitForServices \/ Call \/ destroy_node
           \/ UNCHANGED vars
    PROVE  ConversionInv'
  <1>1. UNCHANGED <<hwScale, chnScales, stream>>
    BY DEF ServicesUp, setup_service_clients, WaitForServices, Call, destroy_node, vars, device
  <1>2. SetupTypeOK'
    <2>1. Len(SetupCalls)' = Len(SetupCalls) /\ Listening' = Listening
      BY DEF Listening, SetupCalls
    <2>2. SetupTypeOK /\ 1 \in 1..Listening
      BY CallCount DEF ConversionInv
    <2>3. CASE ServicesUp
      BY <2>1, <2>2, <2>3 DEF SetupTypeOK, ServicesUp
    <2>8. CASE UNCHANGED vars
      BY <2>1, <2>2, <2>8 DEF SetupTypeOK, vars
    <2>4. CASE setup_service_clients
      BY <2>1, <2>2, <2>4, CallCount DEF SetupTypeOK, setup_service_clients, Armed
    <2>5. CASE WaitForServices
      BY <2>1, <2>2, <2>5, CallCount DEF SetupTypeOK, WaitForServices, Waiting
    <2>6. CASE Call
      BY <2>1, <2>2, <2>6 DEF SetupTypeOK, Call
    <2>7. CASE destroy_node
      BY <2>1, <2>2, <2>7 DEF SetupTypeOK, destroy_node, Teardown
    <2> QED BY <2>3, <2>4, <2>5, <2>6, <2>7, <2>8
  <1>3. ReadsDone' = ReadsDone
    BY CallCount DEF ConversionInv, SetupTypeOK, ReadsDone, ServicesUp, setup_service_clients,
                     WaitForServices, Call, destroy_node, vars, Armed, Waiting
  <1>4. rawTopic # <<>> => step' = step
    BY ReadFacts DEF ConversionInv, MessagesInv, RawInv, ServicesUp, setup_service_clients, WaitForServices,
                     Call, destroy_node, vars
  <1> QED BY <1>1, <1>2, <1>3, <1>4, Aside

(* Before the node listens there is no message.                            *)
LEMMA NoMessage ==
    ASSUME ConversionInv, step # Listening
    PROVE  /\ rawTopic = <<>> /\ untaken = 1 /\ taken = {}
           /\ holder = Free /\ scaledData = NoData /\ available = FALSE
           /\ mVTopic = <<>> /\ plotted = 0 /\ matrix = <<>>
  <1> USE DEF ConversionInv, MessagesInv
  <1>1. rawTopic = <<>>
    BY DEF RawInv
  <1>2. untaken = 1 /\ taken = {}
    BY <1>1 DEF RawInv
  <1>3. \A m : ~FromRaw(m) /\ ~Good(m)
    BY <1>2 DEF FromRaw, Good
  <1>4. holder = Free /\ scaledData = NoData /\ available = FALSE
    BY <1>3 DEF PendingInv
  <1>5. mVTopic = <<>>
    BY <1>3 DEF ScaledInv
  <1> QED BY <1>1, <1>2, <1>4, <1>5 DEF PlotInv

(* What a call does, of the scales and of those the node has kept.         *)
LEMMA ServeEffect ==
    ASSUME ConversionAssumption, SetupTypeOK, NEW ok \in BOOLEAN, Serve(ok)
    PROVE  \/ UNCHANGED <<hwScale, chnScales>> /\ ReadsDone' = ReadsDone
           \/ \E i \in 1..ChannelCount :
                  /\ ReadsDone = i - 1 /\ ReadsDone' = i - 1
                  /\ hwScale' = [hwScale EXCEPT ![Channels[i]] = Scale]
                  /\ UNCHANGED chnScales
           \/ \E i \in 1..ChannelCount :
                  /\ ReadsDone = i - 1 /\ ReadsDone' = i
                  /\ chnScales' = IF ok THEN Append(chnScales, hwScale[Channels[i]])
                                  ELSE chnScales
                  /\ UNCHANGED hwScale
  <1>1. /\ step \in 1..Len(SetupCalls) /\ step' = step + 1 /\ step \in Int
        /\ Answer(SetupCalls[step], ok)
    BY DEF Serve, Return, SetupTypeOK
  <1>2. CASE step = 1 /\ SetupCalls[step] = [to |-> "BufferCreate"]
    <2>1. UNCHANGED <<hwScale, chnScales>>
      BY <1>1, <1>2 DEF Answer
    <2> QED BY <1>1, <1>2, <2>1 DEF ReadsDone
  <1>3. CASE step = 2 /\ SetupCalls[step] = [to |-> "BufferEnableTopic"]
    <2>1. UNCHANGED <<hwScale, chnScales>>
      BY <1>1, <1>3 DEF Answer
    <2> QED BY <1>1, <1>3, <2>1 DEF ReadsDone
  <1>4. ASSUME NEW i \in 1..ChannelCount,
               step = 3 * i /\ SetupCalls[step] = Write("sampling_frequency", Channels[i])
        PROVE  UNCHANGED <<hwScale, chnScales>> /\ ReadsDone' = ReadsDone
    <2>1. UNCHANGED <<hwScale, chnScales>>
      BY <1>1, <1>4 DEF Answer, Write
    <2> QED BY <1>1, <1>4, <2>1, CallCount DEF ReadsDone
  <1>5. ASSUME NEW i \in 1..ChannelCount,
               step = 3 * i + 1 /\ SetupCalls[step] = Write("scale", Channels[i])
        PROVE  /\ ReadsDone = i - 1 /\ ReadsDone' = i - 1
               /\ hwScale' = [hwScale EXCEPT ![Channels[i]] = Scale] \/ hwScale' = hwScale
               /\ UNCHANGED chnScales
    <2>1. /\ hwScale' = [hwScale EXCEPT ![Channels[i]] = Scale] \/ hwScale' = hwScale
          /\ UNCHANGED chnScales
      BY <1>1, <1>5 DEF Answer, Write
    <2> QED BY <1>1, <1>5, <2>1, CallCount DEF ReadsDone
  <1>6. ASSUME NEW i \in 1..ChannelCount,
               step = 3 * i + 2 /\ SetupCalls[step] = Read(Channels[i])
        PROVE  /\ ReadsDone = i - 1 /\ ReadsDone' = i
               /\ chnScales' = IF ok THEN Append(chnScales, hwScale[Channels[i]]) ELSE chnScales
               /\ UNCHANGED hwScale
    <2>1. /\ chnScales' = IF ok THEN Append(chnScales, hwScale[Channels[i]]) ELSE chnScales
          /\ UNCHANGED hwScale
      BY <1>1, <1>6 DEF Answer, Read, device
    <2> QED BY <1>1, <1>6, <2>1, CallCount DEF ReadsDone
  <1>7. \/ step = 1 /\ SetupCalls[step] = [to |-> "BufferCreate"]
        \/ step = 2 /\ SetupCalls[step] = [to |-> "BufferEnableTopic"]
        \/ \E i \in 1..ChannelCount :
               \/ step = 3 * i /\ SetupCalls[step] = Write("sampling_frequency", Channels[i])
               \/ step = 3 * i + 1 /\ SetupCalls[step] = Write("scale", Channels[i])
               \/ step = 3 * i + 2 /\ SetupCalls[step] = Read(Channels[i])
    BY <1>1, CallAt
  <1> QED BY <1>2, <1>3, <1>4, <1>5, <1>6, <1>7

LEMMA ServeKeepsScales ==
    ASSUME ConversionAssumption, SetupTypeOK, ScalesInv, NEW ok \in BOOLEAN, Serve(ok)
    PROVE  ScalesInv'
  <1>1. /\ ReadsDone \in 0..ChannelCount /\ ChannelCount \in Nat
        /\ DOMAIN Channels = 1..ChannelCount
        /\ \A i \in 1..ChannelCount : Channels[i] \in ChannelNames
    BY CallCount, ReadFacts DEF ChannelNames
  <1>2. \A i, k \in 1..ChannelCount : Channels[i] = Channels[k] => i = k
    BY <1>1 DEF ConversionAssumption
  <1>3. CASE UNCHANGED <<hwScale, chnScales>> /\ ReadsDone' = ReadsDone
    BY <1>3 DEF ScalesInv
  <1>4. ASSUME NEW i \in 1..ChannelCount,
               ReadsDone = i - 1, ReadsDone' = i - 1,
               hwScale' = [hwScale EXCEPT ![Channels[i]] = Scale], UNCHANGED chnScales
        PROVE  ScalesInv'
    <2>1. \A k \in 1..ReadsDone : Channels[k] \in ChannelNames /\ hwScale'[Channels[k]] = hwScale[Channels[k]]
      BY <1>1, <1>2, <1>4 DEF ScalesInv
    <2>2. hwScale' \in [ChannelNames -> Nat]
      BY <1>1, <1>4 DEF ScalesInv, ConversionAssumption
    <2> QED BY <1>1, <1>4, <2>1, <2>2 DEF ScalesInv
  <1>5. ASSUME NEW i \in 1..ChannelCount,
               ReadsDone = i - 1, ReadsDone' = i, ok,
               chnScales' = Append(chnScales, hwScale[Channels[i]]), UNCHANGED hwScale
        PROVE  ScalesInv'
    <2> DEFINE n == Len(chnScales)
    <2>1. n \in Nat /\ n =< i - 1 /\ chnScales \in Seq(Nat) /\ hwScale[Channels[i]] \in Nat
      BY <1>1, <1>5 DEF ScalesInv
    <2>6. DOMAIN chnScales = 1..n
      BY <2>1
    <2>2. /\ chnScales' \in Seq(Nat) /\ Len(chnScales') = n + 1
          /\ DOMAIN chnScales' = 1..(n + 1)
          /\ \A k \in 1..n : chnScales'[k] = chnScales[k]
          /\ chnScales'[n + 1] = hwScale[Channels[i]]
      BY <1>5, <2>1
    <2>3. Len(chnScales') =< ReadsDone'
      BY <1>5, <2>1, <2>2
    <2>4. Len(chnScales') = ReadsDone' =>
              \A k \in 1..ReadsDone' : chnScales'[k] = hwScale'[Channels[k]]
      BY <1>5, <2>1, <2>2 DEF ScalesInv
    <2>5. \A k \in DOMAIN chnScales' :
              \E m \in 1..ReadsDone' : chnScales'[k] = hwScale'[Channels[m]]
      <3> SUFFICES ASSUME NEW k \in 1..(n + 1)
                   PROVE  \E m \in 1..i : chnScales'[k] = hwScale[Channels[m]]
        <4> HIDE DEF n
        <4> QED BY <1>5, <2>2
      <3>1. CASE k = n + 1
        BY <2>1, <2>2, <3>1
      <3>2. CASE k \in 1..n
        <4>1. PICK m \in 1..(i - 1) : chnScales[k] = hwScale[Channels[m]]
          BY <1>5, <2>6, <3>2 DEF ScalesInv
        <4>2. m \in 1..i /\ chnScales'[k] = hwScale[Channels[m]]
          BY <2>2, <3>2, <4>1
        <4> QED BY <4>2
      <3> QED BY <2>1, <3>1, <3>2
    <2> QED BY <1>5, <2>2, <2>3, <2>4, <2>5 DEF ScalesInv
  <1>6. ASSUME NEW i \in 1..ChannelCount,
               ReadsDone = i - 1, ReadsDone' = i, UNCHANGED <<chnScales, hwScale>>
        PROVE  ScalesInv'
    <2>1. Len(chnScales) \in Nat /\ Len(chnScales) < ReadsDone'
      BY <1>6 DEF ScalesInv
    <2>2. \A k \in DOMAIN chnScales :
              \E m \in 1..ReadsDone' : chnScales[k] = hwScale[Channels[m]]
      <3> SUFFICES ASSUME NEW k \in DOMAIN chnScales
                   PROVE  \E m \in 1..i : chnScales[k] = hwScale[Channels[m]]
        BY <1>6
      <3>1. PICK m \in 1..(i - 1) : chnScales[k] = hwScale[Channels[m]]
        BY <1>6 DEF ScalesInv
      <3>2. m \in 1..i
        BY <3>1
      <3> QED BY <3>1, <3>2
    <2> QED BY <1>6, <2>1, <2>2 DEF ScalesInv
  <1> QED BY <1>3, <1>4, <1>5, <1>6, ServeEffect

LEMMA ServeKeeps ==
    ASSUME ConversionAssumption, ConversionInv, NEW ok \in BOOLEAN, Serve(ok)
    PROVE  ConversionInv'
  <1>1. step # Listening /\ UNCHANGED stream
    BY ReadFacts DEF ConversionInv, SetupTypeOK, Serve, Return
  <1>2. /\ rawTopic' = <<>> /\ untaken' = 1 /\ taken' = {}
        /\ holder' = Free /\ scaledData' = NoData /\ available' = FALSE
        /\ mVTopic' = <<>> /\ plotted' = 0 /\ matrix' = <<>>
        /\ UNCHANGED scaledMsg
    BY <1>1, NoMessage DEF stream, shared
  <1>3. SetupTypeOK'
    <2>1. step \in 1..Len(SetupCalls) /\ step' \in 1..Listening /\ calling' = FALSE
      BY CallCount DEF ConversionInv, SetupTypeOK, Serve, Return
    <2> QED BY <2>1 DEF ConversionInv, SetupTypeOK, Serve, Return
  <1>4. ScalesInv'
    BY ServeKeepsScales DEF ConversionInv
  <1>5. MessagesInv'
    <2>1. RawInv'
      BY <1>2 DEF RawInv
    <2>2. PendingInv'
      BY <1>2 DEF ConversionInv, MessagesInv, PendingInv, Free
    <2>3. ScaledInv'
      <3>1. mVTopic' \in Seq(Message) /\ DOMAIN mVTopic' = {}
        BY <1>2
      <3> QED BY <3>1 DEF ScaledInv
    <2>4. OnceInv'
      <3>1. Pending' = {} /\ DOMAIN mVTopic' = {}
        BY <1>2 DEF Pending, Free
      <3> QED BY <3>1 DEF OnceInv, EachOnce
    <2>5. PlotInv'
      BY <1>2 DEF PlotInv
    <2> QED BY <2>1, <2>2, <2>3, <2>4, <2>5 DEF MessagesInv
  <1> QED BY <1>3, <1>4, <1>5 DEF ConversionInv

------------------------------------------------------------------------------
(* The messages                                                            *)

LEMMA DivMod ==
    ASSUME NEW x \in Int, NEW n \in Nat \ {0}
    PROVE  /\ x \div n \in Int /\ x % n \in 0..(n - 1)
           /\ x = n * (x \div n) + (x % n)
  OBVIOUS

(* A number has one quotient and one remainder.                            *)
LEMMA OneQuotient ==
    ASSUME NEW n \in Nat \ {0}, NEW q \in Int, NEW r \in 0..(n - 1)
    PROVE  (n * q + r) \div n = q /\ (n * q + r) % n = r
  <1> DEFINE x == n * q + r
  <1>1. x \in Int
    BY SMT
  <1>2. PICK p \in Int, s \in 0..(n - 1) : p = x \div n /\ s = x % n /\ x = n * p + s
    BY <1>1, DivMod
  <1>3. n * (p - q) = r - s
    BY <1>2
  <1>4. ASSUME p - q >= 1 PROVE FALSE
    <2>1. n * (p - q) >= n
      BY <1>2, <1>4
    <2> QED BY <1>2, <1>3, <2>1
  <1>5. ASSUME p - q =< -1 PROVE FALSE
    <2>1. n * (p - q) =< -n
      BY <1>2, <1>5
    <2> QED BY <1>2, <1>3, <2>1
  <1>6. p = q
    BY <1>2, <1>4, <1>5
  <1>7. s = r
    BY <1>2, <1>3, <1>6
  <1> QED BY <1>2, <1>6, <1>7

(* A sample and its place: the scans one after the other.                  *)
LEMMA Place ==
    ASSUME ConversionAssumption, NEW n \in 0..(Samples - 1), NEW ch \in 0..(ChannelCount - 1)
    PROVE  /\ ch + n * ChannelCount \in Places
           /\ (ch + n * ChannelCount) \div ChannelCount = n
           /\ (ch + n * ChannelCount) % ChannelCount = ch
  <1>1. ChannelCount \in Nat \ {0} /\ Samples \in Nat \ {0} /\ n \in Int
    BY CallCount DEF ConversionAssumption
  <1>2. ch + n * ChannelCount = ChannelCount * n + ch
    BY <1>1
  <1>3. (Samples - 1 - n) * ChannelCount >= 0
    BY <1>1
  <1>4. Samples * ChannelCount = (Samples - 1 - n) * ChannelCount + n * ChannelCount + ChannelCount
    BY <1>1
  <1>5. n * ChannelCount \in Nat /\ Samples * ChannelCount \in Nat
    BY <1>1
  <1>6. ch + n * ChannelCount \in Places
    BY <1>1, <1>3, <1>4, <1>5 DEF Places
  <1> QED BY <1>1, <1>2, <1>6, OneQuotient

(* Every place holds a sample of the refill.                               *)
LEMMA InterleavedFacts ==
    ASSUME ConversionAssumption, NEW refill \in Waveforms
    PROVE  Interleaved(refill) \in [Places -> Int]
  <1>1. ChannelCount \in Nat \ {0} /\ Samples \in Nat \ {0}
    BY CallCount DEF ConversionAssumption
  <1>2. refill \in [0..(Samples - 1) -> [0..(ChannelCount - 1) -> Int]]
    BY DEF ConversionAssumption, ChannelCount
  <1>3. ASSUME NEW i \in Places
        PROVE  refill[i \div ChannelCount][i % ChannelCount] \in Int
    <2>1. i \in Nat /\ i < Samples * ChannelCount /\ Samples * ChannelCount \in Nat
      BY <1>1 DEF Places
    <2> DEFINE q == i \div ChannelCount
               r == i % ChannelCount
    <2>2. q \in Int /\ r \in 0..(ChannelCount - 1) /\ i = ChannelCount * q + r
      <3>1. i \in Int
        BY <2>1
      <3> QED BY <1>1, <3>1, DivMod
    <2> HIDE DEF q, r
    <2>3. q >= 0
      <3> SUFFICES ASSUME q =< -1 PROVE FALSE
        BY <2>2
      <3>1. ChannelCount * q =< -ChannelCount
        BY <1>1, <2>2
      <3> QED BY <1>1, <2>1, <2>2, <3>1
    <2>4. q =< Samples - 1
      <3> SUFFICES ASSUME q >= Samples PROVE FALSE
        BY <1>1, <2>2
      <3>1. ChannelCount * q >= Samples * ChannelCount
        BY <1>1, <2>2
      <3> QED BY <1>1, <2>1, <2>2, <3>1
    <2>5. q \in 0..(Samples - 1)
      BY <1>1, <2>2, <2>3, <2>4
    <2> QED BY <1>2, <2>2, <2>5 DEF q, r
  <1> QED BY <1>3 DEF Interleaved, Places, ChannelCount

LEMMA RawFacts ==
    ASSUME ConversionAssumption, RawInv
    PROVE  /\ Len(rawTopic) \in Nat /\ DOMAIN rawTopic = 1..Len(rawTopic)
           /\ untaken \in Nat /\ untaken - 1 =< Len(rawTopic)
           /\ \A i \in 1..Len(rawTopic) :
                  /\ \E refill \in Waveforms : rawTopic[i] = RawOf(i, refill)
                  /\ rawTopic[i].seq = i
                  /\ rawTopic[i].layout = <<Samples, ChannelCount>>
                  /\ rawTopic[i].data = Interleaved(rawTopic[i].refill)
                  /\ rawTopic[i].data \in [Places -> Int]
           /\ \A msg \in taken : msg.seq \in 1..(untaken - 1) /\ msg = rawTopic[msg.seq]
  <1>1. /\ Len(rawTopic) \in Nat /\ DOMAIN rawTopic = 1..Len(rawTopic)
        /\ untaken \in Nat /\ untaken - 1 =< Len(rawTopic)
    BY DEF RawInv
  <1>2. ASSUME NEW i \in 1..Len(rawTopic)
        PROVE  /\ \E refill \in Waveforms : rawTopic[i] = RawOf(i, refill)
               /\ rawTopic[i].seq = i
               /\ rawTopic[i].layout = <<Samples, ChannelCount>>
               /\ rawTopic[i].data = Interleaved(rawTopic[i].refill)
               /\ rawTopic[i].data \in [Places -> Int]
    <2>1. rawTopic[i] \in Raw /\ rawTopic[i].seq = i
      BY <1>1 DEF RawInv
    <2>2. PICK n \in Nat, refill \in Waveforms : rawTopic[i] = RawOf(n, refill)
      BY <2>1 DEF Raw
    <2>3. n = i /\ rawTopic[i].refill = refill /\ rawTopic[i].data = Interleaved(refill)
      BY <2>1, <2>2 DEF RawOf
    <2>4. rawTopic[i].layout = <<Samples, ChannelCount>>
      BY <2>2 DEF RawOf, ChannelCount
    <2> QED BY <2>1, <2>2, <2>3, <2>4, InterleavedFacts
  <1>3. ASSUME NEW msg \in taken
        PROVE  msg.seq \in 1..(untaken - 1) /\ msg = rawTopic[msg.seq]
    <2>1. PICK i \in 1..(untaken - 1) : msg = rawTopic[i]
      BY DEF RawInv
    <2>2. i \in 1..Len(rawTopic)
      BY <1>1, <2>1
    <2> QED BY <1>2, <2>1, <2>2
  <1> QED BY <1>1, <1>2, <1>3

(* int() of the product is in whole millivolts.                            *)
LEMMA TruncatedFacts ==
    ASSUME ConversionAssumption, NEW x \in Int, NEW s \in Nat
    PROVE  Truncated(x * s) \in Int /\ WholeMilliVolts(Truncated(x * s), x, s)
  <1> DEFINE e == x * s
  <1>1. e \in Int /\ Unit \in Nat \ {0}
    BY DEF ConversionAssumption
  <1>2. WholeMilliVolts(Truncated(e), x, s) <=>
            \/ Truncated(e) >= 0 /\ Truncated(e) * Unit =< e /\ e < (Truncated(e) + 1) * Unit
            \/ Truncated(e) =< 0 /\ (Truncated(e) - 1) * Unit < e /\ e =< Truncated(e) * Unit
    BY DEF WholeMilliVolts
  <1> HIDE DEF e
  <1>3. ASSUME NEW m \in Nat
        PROVE  /\ m \div Unit \in Nat
               /\ (m \div Unit) * Unit =< m /\ m < (m \div Unit + 1) * Unit
    <2> DEFINE q == m \div Unit
               r == m % Unit
    <2>1. q \in Int /\ r \in 0..(Unit - 1) /\ m = Unit * q + r
      <3>1. m \in Int
        OBVIOUS
      <3> QED BY <1>1, <3>1, DivMod
    <2> HIDE DEF q, r
    <2>2. q >= 0
      <3> SUFFICES ASSUME q =< -1 PROVE FALSE
        BY <2>1
      <3>1. Unit * q =< -Unit
        BY <1>1, <2>1
      <3> QED BY <1>1, <2>1, <3>1
    <2>3. q * Unit = Unit * q /\ (q + 1) * Unit = Unit * q + Unit
      BY <1>1, <2>1
    <2>4. q \in Nat /\ q * Unit =< m /\ m < (q + 1) * Unit
      BY <1>1, <2>1, <2>2, <2>3
    <2> QED BY <2>4 DEF q
  <1>4. CASE e >= 0
    <2>1. Truncated(e) = e \div Unit
      BY <1>4 DEF Truncated
    <2> QED BY <1>1, <1>2, <1>3, <1>4, <2>1 DEF e
  <1>5. CASE e < 0
    <2>1. Truncated(e) = -((-e) \div Unit) /\ -e \in Nat
      BY <1>1, <1>5 DEF Truncated
    <2>2. PICK q \in Nat : q = (-e) \div Unit /\ q * Unit =< -e /\ -e < (q + 1) * Unit
      BY <1>3, <2>1
    <2>3. (-q) * Unit = -(q * Unit) /\ (-q - 1) * Unit = -((q + 1) * Unit)
      BY <1>1, <2>2
    <2>4. q * Unit \in Int /\ (q + 1) * Unit \in Int
      BY <1>1, <2>2
    <2>5. -q =< 0 /\ (-q - 1) * Unit < e /\ e =< (-q) * Unit
      BY <1>1, <2>2, <2>3, <2>4
    <2>6. Truncated(e) = -q
      BY <2>1, <2>2
    <2> QED BY <1>2, <2>2, <2>5, <2>6 DEF e
  <1> QED BY <1>1, <1>4, <1>5

(* A conversion is of the raw message of its number, sample by sample.     *)
LEMMA ConversionFacts ==
    ASSUME ConversionAssumption, ScalesInv, RawInv, NEW d, FromRaw(d)
    PROVE  /\ d.seq \in 1..(untaken - 1) /\ d.seq \in 1..Len(rawTopic)
           /\ d = Converted(rawTopic[d.seq])
           /\ d.data \in [Places -> Int]
           /\ \A n \in Places : d.data[n] = ToMilliVolts(rawTopic[d.seq].data[n])
  <1>1. PICK i \in 1..(untaken - 1) : d = Converted(rawTopic[i])
    BY DEF FromRaw
  <1> DEFINE raw == rawTopic[i]
  <1>2. i \in 1..Len(rawTopic)
    BY <1>1, RawFacts
  <1>3. raw.seq = i /\ raw.data \in [Places -> Int]
    BY <1>2, RawFacts
  <1>4. \A x \in Int : ToMilliVolts(x) \in Int
    <2>1. Len(chnScales) \in Nat \ {0} /\ chnScales \in Seq(Nat)
      BY DEF ScalesInv, FromRaw
    <2>2. \A x \in Int : (x % Len(chnScales)) + 1 \in 1..Len(chnScales)
      BY <2>1
    <2>3. \A x \in Int : chnScales[(x % Len(chnScales)) + 1] \in Nat
      <3>1. \A k \in 1..Len(chnScales) : chnScales[k] \in Nat
        BY <2>1
      <3> QED BY <2>2, <3>1
    <2> QED BY <2>3, TruncatedFacts DEF ToMilliVolts
  <1> HIDE DEF raw
  <1>5. d = [seq |-> i, data |-> [n \in Places |-> ToMilliVolts(raw.data[n])]]
    BY <1>1, <1>3 DEF Converted, raw
  <1>6. [n \in Places |-> ToMilliVolts(raw.data[n])] \in [Places -> Int]
    BY <1>3, <1>4
  <1>7. d.seq = i /\ d.data = [n \in Places |-> ToMilliVolts(raw.data[n])]
    BY <1>5
  <1> QED BY <1>1, <1>2, <1>6, <1>7 DEF raw

LEMMA GoodFacts ==
    ASSUME ConversionAssumption, ScalesInv, RawInv, NEW m, Good(m)
    PROVE  /\ chnScales # <<>>
           /\ m.seq \in 1..(untaken - 1) /\ m.seq \in 1..Len(rawTopic)
           /\ m \in Message
           /\ m.layout = <<Samples, ChannelCount>>
           /\ \A n \in Places : m.data[n] = ToMilliVolts(rawTopic[m.seq].data[n])
  <1>1. PICK d : FromRaw(d) /\ m = [seq |-> d.seq, layout |-> <<Samples, ChannelCount>>,
                                    data |-> d.data]
    BY DEF Good
  <1>2. m.seq = d.seq /\ m.layout = <<Samples, ChannelCount>> /\ m.data = d.data
    BY <1>1
  <1>3. /\ d.seq \in 1..(untaken - 1) /\ d.seq \in 1..Len(rawTopic)
        /\ d.data \in [Places -> Int]
        /\ \A n \in Places : d.data[n] = ToMilliVolts(rawTopic[d.seq].data[n])
    BY <1>1, ConversionFacts
  <1>4. m \in Message
    <2>1. d.seq \in Nat
      BY <1>3
    <2> QED BY <1>1, <1>3, <2>1 DEF Message
  <1>5. chnScales # <<>>
    BY <1>1 DEF FromRaw
  <1> QED BY <1>2, <1>3, <1>4, <1>5

(* The scales do not change once messages are made of them.                *)
LEMMA ConvertedStays ==
    ASSUME UNCHANGED chnScales,
           \A i \in 1..(untaken - 1) : i \in 1..(untaken' - 1) /\ rawTopic'[i] = rawTopic[i]
    PROVE  \A m : (FromRaw(m) => FromRaw(m)') /\ (Good(m) => Good(m)')
  <1>1. ASSUME NEW d, FromRaw(d) PROVE FromRaw(d)'
    <2>1. PICK i \in 1..(untaken - 1) : d = Converted(rawTopic[i])
      BY <1>1 DEF FromRaw
    <2>2. i \in 1..(untaken' - 1)
      BY <2>1
    <2>3. d = Converted(rawTopic[i])'
      BY <2>1 DEF Converted, ToMilliVolts
    <2> QED BY <1>1, <2>2, <2>3 DEF FromRaw
  <1>2. ASSUME NEW m, Good(m) PROVE Good(m)'
    <2>1. PICK d : FromRaw(d) /\ m = [seq |-> d.seq, layout |-> <<Samples, ChannelCount>>,
                                      data |-> d.data]
      BY <1>2 DEF Good
    <2>2. FromRaw(d)'
      BY <1>1, <2>1
    <2>3. d \in {Converted(rawTopic[i]) : i \in 1..(untaken - 1)}'
      BY <2>2 DEF FromRaw
    <2> QED BY <2>1, <2>2, <2>3 DEF Good, ChannelCount
  <1> QED BY <1>1, <1>2

(* No step of the messages goes on with the set-up.                        *)
LEMMA SetupStays ==
    ASSUME ConversionInv, UNCHANGED <<up, step, calling, device, chnScales>>,
           running' \in BOOLEAN, sent' \subseteq {"BufferDestroy", "BufferDisableTopic"}
    PROVE  SetupTypeOK' /\ ScalesInv'
  BY DEF ConversionInv, SetupTypeOK, Listening, SetupCalls, ScalesInv, ReadsDone, device

LEMMA RawMessageKeeps ==
    ASSUME ConversionAssumption, ConversionInv, NEW refill \in Waveforms, RawMessage(refill)
    PROVE  ConversionInv'
  <1> USE DEF ConversionInv, MessagesInv
  <1> DEFINE msg == RawOf(Len(rawTopic) + 1, refill)
  <1>1. /\ step = Listening /\ rawTopic' = Append(rawTopic, msg)
        /\ UNCHANGED <<running, up, step, calling, sent, device, chnScales, untaken, taken,
                       holder, scaledData, scaledMsg, available, mVTopic, plotted, matrix>>
    BY DEF RawMessage, RawOf, shared
  <1>2. msg \in Raw /\ msg.seq = Len(rawTopic) + 1
    <2>1. Len(rawTopic) + 1 \in Nat
      BY RawFacts
    <2> QED BY <2>1 DEF Raw, RawOf
  <1> HIDE DEF msg
  <1>3. rawTopic \in Seq(Raw) /\ Len(rawTopic) \in Nat /\ DOMAIN rawTopic = 1..Len(rawTopic)
    BY RawFacts DEF RawInv
  <1>4. /\ rawTopic' \in Seq(Raw) /\ Len(rawTopic') = Len(rawTopic) + 1
        /\ DOMAIN rawTopic' = 1..(Len(rawTopic) + 1)
        /\ \A i \in 1..Len(rawTopic) : rawTopic'[i] = rawTopic[i]
        /\ rawTopic'[Len(rawTopic) + 1] = msg
    BY <1>1, <1>2, <1>3
  <1>5. SetupTypeOK' /\ ScalesInv'
    BY <1>1, SetupStays DEF SetupTypeOK
  <1>6. \A i \in 1..(untaken - 1) : i \in 1..Len(rawTopic)
    BY <1>3 DEF RawInv
  <1>7. RawInv'
    <2>1. \A i \in DOMAIN rawTopic' : rawTopic'[i].seq = i
      BY <1>2, <1>3, <1>4 DEF RawInv
    <2>2. untaken' \in 1..(Len(rawTopic') + 1)
      BY <1>1, <1>3, <1>4 DEF RawInv
    <2>3. taken' \subseteq {rawTopic'[i] : i \in 1..(untaken' - 1)}
      BY <1>1, <1>4, <1>6 DEF RawInv
    <2>4. step' = Listening'
      BY <1>1 DEF Listening, SetupCalls
    <2> QED BY <1>4, <2>1, <2>2, <2>3, <2>4 DEF RawInv
  <1>8. \A m : (FromRaw(m) => FromRaw(m)') /\ (Good(m) => Good(m)')
    BY <1>1, <1>4, <1>6, ConvertedStays
  <1>9. PendingInv' /\ ScaledInv'
    BY <1>1, <1>8 DEF PendingInv, ScaledInv
  <1>10. OnceInv' /\ PlotInv'
    BY <1>1 DEF OnceInv, EachOnce, Pending, PlotInv
  <1> QED BY <1>5, <1>7, <1>9, <1>10

LEMMA TakeKeeps ==
    ASSUME ConversionAssumption, ConversionInv, Take
    PROVE  ConversionInv'
  <1> USE DEF ConversionInv, MessagesInv
  <1>1. /\ untaken \in 1..Len(rawTopic) /\ untaken' = untaken + 1
        /\ taken' = taken \cup {rawTopic[untaken]}
        /\ UNCHANGED <<running, up, step, calling, sent, device, chnScales, rawTopic,
                       holder, scaledData, scaledMsg, available, mVTopic, plotted, matrix>>
    BY RawFacts DEF Take, shared
  <1>2. Len(rawTopic) \in Nat /\ untaken \in Nat /\ rawTopic[untaken].seq = untaken
    BY <1>1, RawFacts
  <1>3. SetupTypeOK' /\ ScalesInv'
    BY <1>1, SetupStays DEF SetupTypeOK
  <1>4. RawInv'
    <2>1. taken' \subseteq {rawTopic[i] : i \in 1..untaken}
      <3>1. \A i \in 1..(untaken - 1) : i \in 1..untaken
        BY <1>2
      <3>2. untaken \in 1..untaken
        BY <1>1
      <3> QED BY <1>1, <3>1, <3>2 DEF RawInv
    <2>2. untaken' \in 1..(Len(rawTopic') + 1) /\ untaken' - 1 = untaken
      BY <1>1, <1>2
    <2>3. rawTopic' = rawTopic /\ step' = step /\ Listening' = Listening
      BY <1>1 DEF Listening, SetupCalls
    <2> QED BY <2>1, <2>2, <2>3 DEF RawInv
  <1>5. \A m : (FromRaw(m) => FromRaw(m)') /\ (Good(m) => Good(m)')
    <2>1. \A i \in 1..(untaken - 1) : i \in 1..(untaken' - 1)
      BY <1>1, <1>2
    <2> QED BY <1>1, <2>1, ConvertedStays
  <1>6. PendingInv' /\ ScaledInv'
    BY <1>1, <1>5 DEF PendingInv, ScaledInv
  <1>7. \A m : FromRaw(m) \/ Good(m) => m.seq # untaken
    <2> SUFFICES ASSUME NEW m, FromRaw(m) \/ Good(m) PROVE m.seq # untaken
      OBVIOUS
    <2>1. m.seq \in 1..(untaken - 1)
      BY ConversionFacts, GoodFacts
    <2> QED BY <1>2, <2>1
  <1>8. OnceInv'
    <2>1. \A k \in DOMAIN mVTopic : mVTopic[k].seq # untaken
      BY <1>7 DEF ScaledInv
    <2>2. Pending' = Pending /\ \A s \in Pending : s # untaken
      BY <1>1, <1>7 DEF Pending, PendingInv, Free
    <2> QED BY <1>1, <1>2, <2>1, <2>2 DEF OnceInv, EachOnce
  <1>9. PlotInv'
    BY <1>1 DEF PlotInv
  <1> QED BY <1>3, <1>4, <1>6, <1>8, <1>9

LEMMA ScaleKeeps ==
    ASSUME ConversionAssumption, ConversionInv, NEW msg \in taken, scale_buffer_data_callback(msg)
    PROVE  ConversionInv'
  <1> USE DEF ConversionInv, MessagesInv
  <1>1. /\ taken' = taken \ {msg} /\ holder = Free
        /\ \/ UNCHANGED shared
           \/ /\ chnScales # <<>> /\ holder' = "data" /\ scaledData' = Converted(msg)
              /\ scaledMsg' = [scaledMsg EXCEPT !.layout = msg.layout]
              /\ UNCHANGED available
        /\ UNCHANGED <<up, step, calling, device, chnScales, rawTopic, untaken, mVTopic,
                       plotted, matrix>>
    BY DEF scale_buffer_data_callback
  <1>2. /\ msg.seq \in 1..(untaken - 1) /\ msg = rawTopic[msg.seq]
        /\ msg.seq \in 1..Len(rawTopic) /\ msg.layout = <<Samples, ChannelCount>>
        /\ \A m \in taken \ {msg} : m.seq # msg.seq
    <2>1. msg.seq \in 1..(untaken - 1) /\ msg = rawTopic[msg.seq]
      BY RawFacts
    <2>2. msg.seq \in 1..Len(rawTopic)
      BY <2>1, RawFacts
    <2> QED BY <2>1, <2>2, RawFacts
  <1>3. SetupTypeOK' /\ ScalesInv'
    <2>1. running' \in BOOLEAN /\ sent' \subseteq {"BufferDestroy", "BufferDisableTopic"}
      BY DEF scale_buffer_data_callback, SetupTypeOK, Teardown
    <2> QED BY <1>1, <2>1, SetupStays
  <1>4. RawInv' /\ PlotInv'
    BY <1>1 DEF RawInv, Listening, SetupCalls, PlotInv
  <1>5. \A m : (FromRaw(m) => FromRaw(m)') /\ (Good(m) => Good(m)')
    BY <1>1, ConvertedStays
  <1>6. ScaledInv'
    BY <1>1, <1>5 DEF ScaledInv
  <1>7. CASE UNCHANGED shared
    <2>1. PendingInv'
      BY <1>5, <1>7 DEF PendingInv, shared
    <2>2. OnceInv'
      BY <1>1, <1>7 DEF OnceInv, EachOnce, Pending, shared
    <2> QED BY <1>3, <1>4, <1>6, <2>1, <2>2
  <1>8. CASE /\ chnScales # <<>> /\ holder' = "data" /\ scaledData' = Converted(msg)
             /\ scaledMsg' = [scaledMsg EXCEPT !.layout = msg.layout]
             /\ UNCHANGED available
    <2>1. FromRaw(scaledData')
      BY <1>2, <1>8 DEF FromRaw
    <2>2. PendingInv'
      <3>1. /\ scaledMsg'.layout = <<Samples, ChannelCount>>
            /\ scaledMsg' = [seq |-> scaledMsg'.seq, layout |-> scaledMsg'.layout,
                             data |-> scaledMsg'.data]
        BY <1>2, <1>8 DEF PendingInv
      <3>2. FromRaw(scaledData)'
        BY <1>5, <2>1
      <3> QED BY <1>8, <3>1, <3>2 DEF PendingInv, ChannelCount
    <2>3. Pending' = {msg.seq}
      <3>1. scaledData'.seq = msg.seq
        BY <1>8 DEF Converted
      <3> QED BY <1>8, <3>1 DEF Pending, Free
    <2>4. OnceInv'
      BY <1>1, <1>2, <2>3 DEF OnceInv, EachOnce
    <2> QED BY <1>3, <1>4, <1>6, <2>2, <2>4
  <1> QED BY <1>1, <1>7, <1>8

LEMMA StoreKeeps ==
    ASSUME ConversionAssumption, ConversionInv, StoreData
    PROVE  ConversionInv'
  <1> USE DEF ConversionInv, MessagesInv
  <1>1. /\ holder = "data" /\ holder' = "flag"
        /\ scaledMsg' = [scaledMsg EXCEPT !.seq = scaledData.seq, !.data = scaledData.data]
        /\ UNCHANGED <<running, up, step, calling, sent, device, chnScales, rawTopic, untaken,
                       taken, scaledData, available, mVTopic, plotted, matrix>>
    BY DEF StoreData
  <1>2. SetupTypeOK' /\ ScalesInv'
    BY <1>1, SetupStays DEF SetupTypeOK
  <1>3. RawInv' /\ PlotInv'
    BY <1>1 DEF RawInv, Listening, SetupCalls, PlotInv
  <1>4. \A m : (FromRaw(m) => FromRaw(m)') /\ (Good(m) => Good(m)')
    BY <1>1, ConvertedStays
  <1>5. scaledMsg' = [seq |-> scaledData.seq, layout |-> <<Samples, ChannelCount>>,
                      data |-> scaledData.data]
    BY <1>1 DEF PendingInv
  <1>6. Good(scaledMsg')
    <2>1. FromRaw(scaledData)
      BY <1>1 DEF PendingInv
    <2> QED BY <1>5, <2>1 DEF Good, FromRaw
  <1>7. PendingInv'
    <2>1. Good(scaledMsg)'
      BY <1>4, <1>6
    <2>2. /\ scaledMsg' = [seq |-> scaledMsg'.seq, layout |-> scaledMsg'.layout,
                           data |-> scaledMsg'.data]
          /\ available' \in BOOLEAN
          /\ scaledData' = NoData \/ FromRaw(scaledData)'
      BY <1>1, <1>4, <1>5 DEF PendingInv
    <2> QED BY <1>1, <2>1, <2>2 DEF PendingInv
  <1>8. ScaledInv'
    BY <1>1, <1>4 DEF ScaledInv
  <1>9. OnceInv'
    <2>1. Pending' = Pending
      <3>1. scaledMsg'.seq = scaledData.seq
        BY <1>5
      <3>2. Pending = {scaledData.seq} /\ Pending' = {scaledMsg'.seq}
        BY <1>1 DEF Pending, Free
      <3> QED BY <3>1, <3>2
    <2> QED BY <1>1, <2>1 DEF OnceInv, EachOnce
  <1> QED BY <1>2, <1>3, <1>7, <1>8, <1>9

LEMMA FlagKeeps ==
    ASSUME ConversionAssumption, ConversionInv, SetFlag \/ ClearFlag
    PROVE  ConversionInv'
  <1> USE DEF ConversionInv, MessagesInv
  <1>1. /\ \/ holder = "flag" /\ available' = TRUE /\ scaledData' = NoData
           \/ holder = "published" /\ available' = FALSE /\ UNCHANGED scaledData
        /\ holder' = Free
        /\ UNCHANGED <<running, up, step, calling, sent, device, chnScales, rawTopic, untaken,
                       taken, scaledMsg, mVTopic, plotted, matrix>>
    BY DEF SetFlag, ClearFlag
  <1>2. SetupTypeOK' /\ ScalesInv'
    BY <1>1, SetupStays DEF SetupTypeOK
  <1>3. RawInv' /\ PlotInv'
    BY <1>1 DEF RawInv, Listening, SetupCalls, PlotInv
  <1>4. \A m : (FromRaw(m) => FromRaw(m)') /\ (Good(m) => Good(m)')
    BY <1>1, ConvertedStays
  <1>5. PendingInv'
    BY <1>1, <1>4 DEF PendingInv, Free
  <1>6. ScaledInv'
    BY <1>1, <1>4 DEF ScaledInv
  <1>7. OnceInv'
    <2>1. Pending' \subseteq Pending
      BY <1>1 DEF Pending, Free
    <2> QED BY <1>1, <2>1 DEF OnceInv, EachOnce
  <1> QED BY <1>2, <1>3, <1>5, <1>6, <1>7

LEMMA PublishKeeps ==
    ASSUME ConversionAssumption, ConversionInv, publish_scaled_data
    PROVE  ConversionInv'
  <1> USE DEF ConversionInv, MessagesInv
  <1>1. /\ holder = Free /\ available /\ holder' = "published"
        /\ mVTopic' = Append(mVTopic, scaledMsg)
        /\ UNCHANGED <<running, up, step, calling, sent, device, chnScales, rawTopic, untaken,
                       taken, scaledData, scaledMsg, available, plotted, matrix>>
    BY DEF publish_scaled_data
  <1>2. Good(scaledMsg) /\ scaledMsg \in Message
    <2>1. Good(scaledMsg)
      BY <1>1 DEF PendingInv, Free
    <2> QED BY <2>1, GoodFacts
  <1> DEFINE n == Len(mVTopic)
  <1>3. mVTopic \in Seq(Message) /\ n \in Nat /\ DOMAIN mVTopic = 1..n
    BY DEF ScaledInv
  <1>4. /\ mVTopic' \in Seq(Message) /\ Len(mVTopic') = n + 1 /\ DOMAIN mVTopic' = 1..(n + 1)
        /\ \A k \in 1..n : mVTopic'[k] = mVTopic[k]
        /\ mVTopic'[n + 1] = scaledMsg
    BY <1>1, <1>2, <1>3
  <1> HIDE DEF n
  <1>5. SetupTypeOK' /\ ScalesInv' /\ RawInv'
    BY <1>1, SetupStays DEF SetupTypeOK, RawInv, Listening, SetupCalls
  <1>6. \A m : (FromRaw(m) => FromRaw(m)') /\ (Good(m) => Good(m)')
    BY <1>1, ConvertedStays
  <1>7. \A k \in DOMAIN mVTopic' : k = n + 1 \/ k \in DOMAIN mVTopic
    BY <1>3, <1>4
  <1>8. ScaledInv'
    <2>1. \A k \in DOMAIN mVTopic' : Good(mVTopic'[k])
      BY <1>2, <1>3, <1>4, <1>7 DEF ScaledInv
    <2> QED BY <1>4, <1>6, <2>1 DEF ScaledInv
  <1>9. PendingInv'
    BY <1>1, <1>6 DEF PendingInv, Free
  <1>10. OnceInv'
    <2>1. scaledMsg.seq \in Pending
      BY <1>1 DEF Pending, Free
    <2>2. EachOnce'
      BY <1>3, <1>4, <1>7, <2>1 DEF OnceInv, EachOnce
    <2>3. \A k \in DOMAIN mVTopic', m \in taken : mVTopic'[k].seq # m.seq
      BY <1>3, <1>4, <1>7, <2>1 DEF OnceInv
    <2>4. Pending' = {}
      BY <1>1 DEF Pending, Free
    <2> QED BY <1>1, <2>2, <2>3, <2>4 DEF OnceInv
  <1>11. PlotInv'
    <2>1. plotted \in 0..n /\ (matrix # <<>> => plotted # 0 /\ matrix = Matrix(mVTopic[plotted]))
      BY DEF PlotInv, n
    <2>2. plotted' \in 0..Len(mVTopic')
      BY <1>1, <1>3, <1>4, <2>1
    <2>3. matrix' # <<>> => plotted' # 0 /\ mVTopic'[plotted'] = mVTopic[plotted]
      BY <1>1, <1>3, <1>4, <2>1
    <2> QED BY <1>1, <2>1, <2>2, <2>3 DEF PlotInv
  <1> QED BY <1>5, <1>8, <1>9, <1>10, <1>11

LEMMA ListenerKeeps ==
    ASSUME ConversionAssumption, ConversionInv, listener_callback
    PROVE  ConversionInv'
  <1> USE DEF ConversionInv, MessagesInv
  <1> DEFINE msg == mVTopic[plotted + 1]
  <1>1. /\ plotted < Len(mVTopic) /\ plotted' = plotted + 1
        /\ matrix' = IF Accepts(msg, Samples * Len(Channels)) THEN Matrix(msg) ELSE matrix
        /\ UNCHANGED <<running, up, step, calling, sent, device, chnScales, rawTopic, untaken,
                       taken, holder, scaledData, scaledMsg, available, mVTopic>>
    BY DEF listener_callback, shared
  <1>2. /\ plotted \in Nat /\ Len(mVTopic) \in Nat /\ DOMAIN mVTopic = 1..Len(mVTopic)
        /\ mVTopic \in Seq(Message)
    BY DEF PlotInv, ScaledInv
  <1>3. msg \in Message
    BY <1>1, <1>2
  <1>4. Accepts(msg, Samples * Len(Channels))
    <2>1. msg.layout = <<Samples, ChannelCount>> /\ ChannelCount \in Nat /\ Samples \in Nat
      BY <1>3, CallCount DEF Message, ConversionAssumption
    <2> HIDE DEF msg
    <2>2. Rows(msg) = ChannelCount /\ Columns(msg) = Samples
      BY <2>1 DEF Rows, Columns
    <2>3. Samples * ChannelCount = ChannelCount * Samples
      BY <2>1
    <2> QED BY <2>2, <2>3 DEF Accepts, ChannelCount
  <1>5. SetupTypeOK' /\ ScalesInv' /\ RawInv' /\ OnceInv'
    BY <1>1, SetupStays DEF SetupTypeOK, RawInv, Listening, SetupCalls, OnceInv, EachOnce, Pending
  <1>6. \A m : (FromRaw(m) => FromRaw(m)') /\ (Good(m) => Good(m)')
    BY <1>1, ConvertedStays
  <1>7. ScaledInv' /\ PendingInv'
    BY <1>1, <1>6 DEF ScaledInv, PendingInv
  <1>8. PlotInv'
    <2>1. plotted' \in 0..Len(mVTopic') /\ plotted' # 0
      BY <1>1, <1>2
    <2>2. matrix' = Matrix(mVTopic[plotted'])
      BY <1>1, <1>4
    <2>3. matrix' = Matrix(mVTopic[plotted])'
      BY <1>1, <2>2 DEF Matrix, Rows, Columns
    <2> QED BY <2>1, <2>3 DEF PlotInv
  <1> QED BY <1>5, <1>7, <1>8

------------------------------------------------------------------------------

LEMMA ConversionStep ==
    ASSUME ConversionAssumption, ConversionInv, [Next]_vars
    PROVE  ConversionInv'
  <1>1. CASE \E ok \in BOOLEAN : Serve(ok)
    BY <1>1, ServeKeeps
  <1>2. CASE \E refill \in Waveforms : RawMessage(refill)
    BY <1>2, RawMessageKeeps
  <1>3. CASE Take
    BY <1>3, TakeKeeps
  <1>4. CASE \E msg \in taken : scale_buffer_data_callback(msg)
    BY <1>4, ScaleKeeps
  <1>5. CASE StoreData
    BY <1>5, StoreKeeps
  <1>6. CASE SetFlag \/ ClearFlag
    BY <1>6, FlagKeeps
  <1>7. CASE publish_scaled_data
    BY <1>7, PublishKeeps
  <1>8. CASE listener_callback
    BY <1>8, ListenerKeeps
  <1> QED BY <1>1, <1>2, <1>3, <1>4, <1>5, <1>6, <1>7, <1>8, SetupKeeps DEF Next, Setup, Convert

LEMMA ConversionInvariant ==
    ASSUME ConversionAssumption
    PROVE  Spec => []ConversionInv
  <1>1. Init => ConversionInv
    BY ConversionInit
  <1>2. ConversionInv /\ [Next]_vars => ConversionInv'
    BY ConversionStep
  <1> QED BY <1>1, <1>2, PTL DEF Spec

LEMMA ConversionTypes ==
    ASSUME ConversionAssumption, ConversionInv
    PROVE  TypeOK
  <1> USE DEF ConversionInv, MessagesInv
  <1>1. Len(chnScales) =< Len(Channels)
    BY ReadFacts, CallCount DEF ScalesInv, ChannelCount
  <1>2. plotted =< Len(mVTopic)
    BY DEF ScaledInv, PlotInv
  <1>3. scaledData.seq \in 0..Len(rawTopic)
    BY RawFacts, ConversionFacts DEF PendingInv, NoData
  <1> QED BY <1>1, <1>2, <1>3 DEF SetupTypeOK, RawInv, PendingInv, TypeOK

LEMMA ScalesAreRead ==
    ASSUME ConversionAssumption, ConversionInv
    PROVE  ScalesRead
  BY ReadFacts, CallCount DEF ConversionInv, ScalesInv, ScalesRead, ChannelCount

(* With one scale the index into chn_scales does not matter.               *)
LEMMA AnyIndex ==
    ASSUME ConversionAssumption, ConversionInv, OneScale, chnScales # <<>>
    PROVE  \A x \in Int : ToMilliVolts(x) = Truncated(x * Scale)
  <1>1. \A k \in DOMAIN chnScales : chnScales[k] = Scale
    <2>1. \A i \in 1..ReadsDone : i \in DOMAIN Channels
      BY ReadFacts, CallCount DEF ConversionInv
    <2> QED BY <2>1 DEF ConversionInv, ScalesInv, OneScale
  <1>2. Len(chnScales) \in Nat \ {0} /\ DOMAIN chnScales = 1..Len(chnScales)
    BY DEF ConversionInv, ScalesInv
  <1>3. \A x \in Int : (x % Len(chnScales)) + 1 \in DOMAIN chnScales
    BY <1>2
  <1> QED BY <1>1, <1>3 DEF ToMilliVolts

(* Sample by sample, a message that is published or plotted.               *)
LEMMA PublishedSamples ==
    ASSUME ConversionAssumption, ConversionInv, OneScale, NEW k \in DOMAIN mVTopic
    PROVE  LET raw == rawTopic[mVTopic[k].seq]
           IN  /\ mVTopic[k].seq \in 1..Len(rawTopic)
               /\ mVTopic[k].layout = raw.layout
               /\ mVTopic[k].layout = <<Samples, ChannelCount>>
               /\ raw.data \in [Places -> Int]
               /\ raw.data = Interleaved(raw.refill)
               /\ \A n \in Places : WholeMilliVolts(mVTopic[k].data[n], raw.data[n], Scale)
  <1> USE DEF ConversionInv, MessagesInv
  <1> DEFINE msg == mVTopic[k]
             raw == rawTopic[msg.seq]
  <1>1. Good(msg)
    BY DEF ScaledInv
  <1> HIDE DEF msg
  <1>2. /\ msg.seq \in 1..Len(rawTopic) /\ msg.layout = <<Samples, ChannelCount>>
        /\ chnScales # <<>>
        /\ \A n \in Places : msg.data[n] = ToMilliVolts(raw.data[n])
    BY <1>1, GoodFacts
  <1>3. /\ raw.layout = <<Samples, ChannelCount>> /\ raw.data \in [Places -> Int]
        /\ raw.data = Interleaved(raw.refill)
    BY <1>2, RawFacts
  <1> HIDE DEF raw
  <1>4. ASSUME NEW n \in Places
        PROVE  WholeMilliVolts(msg.data[n], raw.data[n], Scale)
    <2>1. raw.data[n] \in Int
      BY <1>3
    <2>2. ToMilliVolts(raw.data[n]) = Truncated(raw.data[n] * Scale)
      BY <1>2, <2>1, AnyIndex
    <2>3. WholeMilliVolts(Truncated(raw.data[n] * Scale), raw.data[n], Scale)
      BY <2>1, TruncatedFacts DEF ConversionAssumption
    <2> QED BY <1>2, <2>2, <2>3
  <1> QED BY <1>2, <1>3, <1>4 DEF msg, raw

LEMMA ConvertsToMilliVolts ==
    ASSUME ConversionAssumption, ConversionInv
    PROVE  MilliVolts
  <1> SUFFICES ASSUME OneScale, NEW k \in DOMAIN mVTopic
               PROVE  /\ mVTopic[k].layout = rawTopic[mVTopic[k].seq].layout
                      /\ \A n \in DOMAIN rawTopic[mVTopic[k].seq].data :
                             WholeMilliVolts(mVTopic[k].data[n],
                                             rawTopic[mVTopic[k].seq].data[n], Scale)
    BY DEF MilliVolts
  <1> QED BY PublishedSamples

LEMMA ShowsChannels ==
    ASSUME ConversionAssumption, ConversionInv
    PROVE  PlotShowsChannels
  <1> USE DEF ConversionInv, MessagesInv
  <1> DEFINE msg == mVTopic[plotted]
             raw == rawTopic[msg.seq]
  <1> SUFFICES ASSUME matrix # <<>>, OneScale,
                      NEW ch \in 0..(Len(Channels) - 1), NEW n \in 0..(Samples - 1)
               PROVE  WholeMilliVolts(matrix[ch][n], raw.refill[n][ch], Scale)
    BY DEF PlotShowsChannels
  <1>1. plotted \in DOMAIN mVTopic /\ matrix = Matrix(msg)
    BY DEF ScaledInv, PlotInv
  <1>2. /\ msg.seq \in 1..Len(rawTopic) /\ msg.layout = <<Samples, ChannelCount>>
        /\ raw.data = Interleaved(raw.refill)
        /\ \A i \in Places : WholeMilliVolts(msg.data[i], raw.data[i], Scale)
    BY <1>1, PublishedSamples
  <1>3. Rows(msg) = ChannelCount /\ Columns(msg) = Samples
    BY <1>2 DEF Rows, Columns
  <1> HIDE DEF msg, raw
  <1> DEFINE i == ch + n * ChannelCount
  <1>4. matrix[ch][n] = msg.data[i]
    BY <1>1, <1>3 DEF Matrix, ChannelCount
  <1>5. i \in Places /\ i \div ChannelCount = n /\ i % ChannelCount = ch
    BY Place DEF ChannelCount
  <1> HIDE DEF i
  <1>6. raw.data[i] = raw.refill[n][ch]
    BY <1>2, <1>5 DEF Interleaved, Places, ChannelCount
  <1> QED BY <1>2, <1>4, <1>5, <1>6

(* At every moment the set-up is at one of its calls, no more scales are   *)
(* kept than there are channels, and threads hold messages of the topic    *)
(* (ad7124_8_buffer_scaled.py:80).                                         *)
THEOREM TypeCorrect ==
    ASSUME ConversionAssumption
    PROVE  Spec => []TypeOK
  <1>1. ConversionInv => TypeOK
    BY ConversionTypes
  <1> QED BY <1>1, ConversionInvariant, PTL

(* The scales kept are those of the device when the set-up is over and no  *)
(* read failed (ad7124_8_buffer_scaled.py:121-140).                        *)
THEOREM ScalesSafety ==
    ASSUME ConversionAssumption
    PROVE  Spec => []ScalesRead
  <1>1. ConversionInv => ScalesRead
    BY ScalesAreRead
  <1> QED BY <1>1, ConversionInvariant, PTL

(* Each message on /mV is one refill, every sample at its own place and in *)
(* millivolts, the fraction cut off, when the device took the scale for    *)
(* every channel (ad7124_8_buffer_scaled.py:200-215).                      *)
THEOREM MilliVoltsSafety ==
    ASSUME ConversionAssumption
    PROVE  Spec => []MilliVolts
  <1>1. ConversionInv => MilliVolts
    BY ConvertsToMilliVolts
  <1> QED BY <1>1, ConversionInvariant, PTL

(* No refill goes to /mV twice, however many callbacks of the reentrant    *)
(* group wait for the lock, and in whatever order they get it              *)
(* (ad7124_8_buffer_scaled.py:217-224).                                    *)
THEOREM OnceSafety ==
    ASSUME ConversionAssumption
    PROVE  Spec => []EachOnce
  <1>1. ConversionInv => EachOnce
    BY DEF ConversionInv, MessagesInv, OnceInv
  <1> QED BY <1>1, ConversionInvariant, PTL

(* A plotted curve shows the samples that the device has of its channel,   *)
(* in their order and in millivolts, through adi_iio's interleaving, the   *)
(* conversion and the visualizer's indexing, for every number of channels  *)
(* and of samples (visualize_iio_waveform.py:48-52).                       *)
THEOREM PlotSafety ==
    ASSUME ConversionAssumption
    PROVE  Spec => []PlotShowsChannels
  <1>1. ConversionInv => PlotShowsChannels
    BY ShowsChannels
  <1> QED BY <1>1, ConversionInvariant, PTL

=============================================================================
