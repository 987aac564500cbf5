----------------------------- MODULE Conversion -----------------------------
(***************************************************************************)
(* The ad7124_8_buffer_scaled node (ad7124_8_buffer_scaled.py): a one-shot *)
(* timer sets the device and the buffer topic up with synchronous calls,   *)
(* then each message of raw samples is scaled to millivolts and a timer    *)
(* publishes the last conversion.  The visualizer listens to the result.   *)
(*                                                                         *)
(* Conversion and publication run on the threads of a MultiThreadedExecutor*)
(* in one reentrant group: several callbacks wait for self.lock at once    *)
(* and take it in any order.  Every assignment to what they share is a     *)
(* step of its own.                                                        *)
(***************************************************************************)
EXTENDS Integers, Sequences, PlotNode

CONSTANTS
    Channels,     \* self.channels, a sequence
    Samples,      \* self.samples_count
    Unit,         \* scales are whole numbers of 1/Unit millivolts per code
    Scale,        \* what a channel has once self.scale was written to it; with a Unit
                  \* of 10^9, 149011 in the code
    OtherScale,   \* the scale a channel has until Scale is written, of each channel
    Waveforms,    \* refills: the sample of each scan and channel, counted from 0
    MaxMessages   \* raw messages, a bound

ChannelNames == {Channels[i] : i \in DOMAIN Channels}

(* The node is given each channel once, as in its own default (line 40).   *)
ConversionAssumption ==
    /\ Channels \in Seq(ChannelNames)
    /\ Len(Channels) > 0
    /\ \A i, k \in DOMAIN Channels : Channels[i] = Channels[k] => i = k
    /\ Samples \in Nat \ {0}
    /\ Unit \in Nat \ {0}
    /\ Scale \in Nat
    /\ OtherScale \in [ChannelNames -> Nat]
    /\ Waveforms \subseteq [0..(Samples - 1) -> [0..(Len(Channels) - 1) -> Int]]
    /\ MaxMessages \in Nat

VARIABLES
    running,      \* main is in executor.spin
    up,           \* adi_iio's six services are discovered
    step,         \* the call of SetupCalls the set-up thread is at; Armed, Waiting before
    calling,      \* it waits in client.call
    sent,         \* what destroy_node has sent, requests that no one waits for
    created,      \* BufferCreate made the buffer
    streaming,    \* adi_iio publishes the buffer topic
    hwScale,      \* the scale attribute of each channel
    chnScales,    \* self.chn_scales
    rawTopic,     \* the raw messages, in order
    untaken,      \* the place in rawTopic of the first that no thread has taken
    taken,        \* those a thread has taken, which waits for self.lock
    holder,       \* what the holder of self.lock does next, Free when nobody has it
    scaledData,   \* the conversion's local scaled_data, of the refill seq
    scaledMsg,    \* self.scaled_data_msg
    available,    \* self.conversion_available
    mVTopic,      \* the messages on /mV, in order
    plotted,      \* how many of them the visualizer has taken
    matrix        \* the matrix it shows

shared == <<holder, scaledData, scaledMsg, available>>
stream == <<rawTopic, untaken, taken, shared, mVTopic, plotted, matrix>>
device == <<created, streaming, hwScale>>
vars   == <<running, up, step, calling, sent, device, chnScales, stream>>

Armed   == -1  \* the one-shot timer has not fired, the clients are None
Waiting == 0

Free   == "free"
Empty  == [seq |-> 0, layout |-> <<0, 0>>, data |-> <<>>]
NoData == [seq |-> 0, data |-> <<>>]

(* The calls of setup_timer_callback in their order.  The sampling         *)
(* frequency changes nothing that is modelled.                             *)
Write(attr, ch) == [to |-> "AttrWriteString", attr |-> attr, channel |-> ch]
Read(ch)        == [to |-> "AttrReadString", channel |-> ch]

(* Mutant: the scale is read before it is written.                         *)
CallsReadFirst(ch) == << Write("sampling_frequency", ch), Read(ch), Write("scale", ch) >>

CallsOf(ch) == << Write("sampling_frequency", ch), Write("scale", ch), Read(ch) >>

SetupCalls ==
    << [to |-> "BufferCreate"], [to |-> "BufferEnableTopic"] >> \o
    [k \in 1..(3 * Len(Channels)) |-> CallsOf(Channels[((k - 1) \div 3) + 1])[((k - 1) % 3) + 1]]

Listening == Len(SetupCalls) + 1   \* subscribed, the publishing timer runs

Init ==
    /\ running = TRUE
    /\ up = FALSE
    /\ step = Armed
    /\ calling = FALSE
    /\ sent = {}
    /\ created = FALSE
    /\ streaming = FALSE
    /\ hwScale = OtherScale
    /\ chnScales = <<>>
    /\ rawTopic = <<>>
    /\ untaken = 1
    /\ taken = {}
    /\ holder = Free
    /\ scaledData = NoData
    /\ scaledMsg = Empty
    /\ available = FALSE
    /\ mVTopic = <<>>
    /\ plotted = 0
    /\ matrix = <<>>

------------------------------------------------------------------------------
(* Set-up *)

ServicesUp ==
    /\ ~up
    /\ up' = TRUE
    /\ UNCHANGED <<running, step, calling, sent, device, chnScales, stream>>

setup_service_clients ==
    /\ running /\ step = Armed
    /\ step' = Waiting
    /\ UNCHANGED <<running, up, calling, sent, device, chnScales, stream>>

(* Here the loop goes on while any service is missing.                     *)
WaitForServices ==
    /\ running /\ step = Waiting /\ up
    /\ step' = 1
    /\ UNCHANGED <<running, up, calling, sent, device, chnScales, stream>>

(* client.call: the request is sent and the thread waits for the answer.   *)
Call ==
    /\ running /\ step \in 1..Len(SetupCalls) /\ ~calling
    /\ calling' = TRUE
    /\ UNCHANGED <<running, up, step, sent, device, chnScales, stream>>

Return ==
    /\ running /\ calling
    /\ calling' = FALSE
    /\ step' = step + 1

(* What adi_iio does and what the node keeps of the answer.  The answers   *)
(* of BufferCreate, BufferEnableTopic and AttrWriteString are not looked   *)
(* at; an answer that is no number leaves chn_scales short.                *)
Answer(call, ok) ==
    CASE call.to = "BufferCreate" ->
           created' = ok /\ UNCHANGED <<streaming, hwScale, chnScales>>
      [] call.to = "BufferEnableTopic" ->
           streaming' = ok /\ UNCHANGED <<created, hwScale, chnScales>>
      [] call.to = "AttrWriteString" ->
           /\ hwScale' = IF ok /\ call.attr = "scale"
                         THEN [hwScale EXCEPT ![call.channel] = Scale] ELSE hwScale
           /\ UNCHANGED <<created, streaming, chnScales>>
      [] call.to = "AttrReadString" ->
           /\ chnScales' = IF ok THEN Append(chnScales, hwScale[call.channel]) ELSE chnScales
           /\ UNCHANGED device

Serve(ok) ==
    /\ Return
    /\ Answer(SetupCalls[step], ok)
    /\ UNCHANGED <<running, up, sent, stream>>

------------------------------------------------------------------------------
(* Conversion *)

(* IIOBuffer::refill pushes the samples scan by scan, channel by channel.  *)
Interleaved(refill) ==
    [i \in 0..(Samples * Len(Channels) - 1) |->
        refill[i \div Len(Channels)][i % Len(Channels)]]

(* A refill reaches the subscription as a message (its depth, 10, is more  *)
(* than MaxMessages); refill is kept beside it, for the properties.        *)
RawMessage(refill) ==
    /\ running /\ step = Listening /\ created /\ streaming
    /\ Len(rawTopic) < MaxMessages
    /\ rawTopic' = Append(rawTopic,
                          [seq |-> Len(rawTopic) + 1, layout |-> <<Samples, Len(Channels)>>,
                           data |-> Interleaved(refill), refill |-> refill])
    /\ UNCHANGED <<running, up, step, calling, sent, device, chnScales, untaken, taken,
                   shared, mVTopic, plotted, matrix>>

Take ==
    /\ running /\ untaken \in DOMAIN rawTopic
    /\ taken' = taken \cup {rawTopic[untaken]}
    /\ untaken' = untaken + 1
    /\ UNCHANGED <<running, up, step, calling, sent, device, chnScales, rawTopic, shared,
                   mVTopic, plotted, matrix>>

(* Mutant: rounded down, as math.floor does.                               *)
RoundedDown(n) == n \div Unit

(* int() of a product: the fraction is cut off towards zero.               *)
Truncated(n) == IF n >= 0 THEN n \div Unit ELSE -((-n) \div Unit)

(* int(x * chn_scales[x % len(chn_scales)]): the index is taken of the     *)
(* sample itself, not of its place.                                        *)
ToMilliVolts(x) == Truncated(x * chnScales[(x % Len(chnScales)) + 1])

Converted(msg) ==
    [seq |-> msg.seq, data |-> [i \in DOMAIN msg.data |-> ToMilliVolts(msg.data[i])]]

(* What main's finally clause sends, however spin has ended: destroy_node  *)
(* asks for two things and waits for no answer.  Before                    *)
(* setup_service_clients the clients are None, and what is sent to         *)
(* undiscovered services is lost.                                          *)
Teardown ==
    sent' = IF up /\ step # Armed THEN {"BufferDestroy", "BufferDisableTopic"} ELSE {}

(* scale_buffer_data_callback: the whole of it holds self.lock.  Without a *)
(* scale the modulo raises ZeroDivisionError: the lock is released, the    *)
(* message is lost and, depending on the rclpy release, executor.spin ends *)
(* with it.                                                                *)
scale_buffer_data_callback(msg) ==
    /\ running /\ msg \in taken
    /\ holder = Free
    /\ taken' = taken \ {msg}
    /\ \/ /\ chnScales = <<>>
          /\ \/ UNCHANGED <<running, sent>>
             \/ running' = FALSE /\ Teardown
          /\ UNCHANGED shared
       \/ /\ chnScales # <<>>
          /\ holder' = "data"
          /\ scaledData' = Converted(msg)
          /\ scaledMsg' = [scaledMsg EXCEPT !.layout = msg.layout]
          /\ UNCHANGED <<running, sent, available>>
    /\ UNCHANGED <<up, step, calling, device, chnScales, rawTopic, untaken, mVTopic, plotted,
                   matrix>>

(* self.scaled_data_msg.data = scaled_data                                 *)
StoreData ==
    /\ running /\ holder = "data"
    /\ scaledMsg' = [scaledMsg EXCEPT !.seq = scaledData.seq, !.data = scaledData.data]
    /\ holder' = "flag"
    /\ UNCHANGED <<running, up, step, calling, sent, device, chnScales, rawTopic, untaken,
                   taken, scaledData, available, mVTopic, plotted, matrix>>

(* self.conversion_available = True, and the lock is released.             *)
SetFlag ==
    /\ running /\ holder = "flag"
    /\ available' = TRUE
    /\ holder' = Free
    /\ scaledData' = NoData
    /\ UNCHANGED <<running, up, step, calling, sent, device, chnScales, rawTopic, untaken,
                   taken, scaledMsg, mVTopic, plotted, matrix>>

(* Mutant: publish_scaled_data does not take the lock.                     *)
PublishUnlocked ==
    /\ running /\ step = Listening
    /\ available
    /\ Len(mVTopic) < 2 * MaxMessages
    /\ mVTopic' = Append(mVTopic, scaledMsg)
    /\ available' = FALSE
    /\ UNCHANGED <<running, up, step, calling, sent, device, chnScales, rawTopic, untaken,
                   taken, holder, scaledData, scaledMsg, plotted, matrix>>

(* With the lock it looks at the flag, and publishes.                      *)
publish_scaled_data ==
    /\ running /\ step = Listening
    /\ holder = Free
    /\ available
    /\ mVTopic' = Append(mVTopic, scaledMsg)
    /\ holder' = "published"
    /\ UNCHANGED <<running, up, step, calling, sent, device, chnScales, rawTopic, untaken,
                   taken, scaledData, scaledMsg, available, plotted, matrix>>

(* self.conversion_available = False, and the lock is released.            *)
ClearFlag ==
    /\ running /\ holder = "published"
    /\ available' = FALSE
    /\ holder' = Free
    /\ UNCHANGED <<running, up, step, calling, sent, device, chnScales, rawTopic, untaken,
                   taken, scaledData, scaledMsg, mVTopic, plotted, matrix>>

------------------------------------------------------------------------------
(* SIGINT: executor.spin returns.  A set-up thread that waits in           *)
(* client.call stays there: nothing answers once the executor has stopped. *)
destroy_node ==
    /\ running
    /\ running' = FALSE
    /\ Teardown
    /\ UNCHANGED <<up, step, calling, device, chnScales, stream>>

(* The visualizer, a process of its own, takes the messages in order.      *)
listener_callback ==
    /\ plotted < Len(mVTopic)
    /\ plotted' = plotted + 1
    /\ LET msg == mVTopic[plotted']
       IN  matrix' = IF Accepts(msg, Samples * Len(Channels)) THEN Matrix(msg) ELSE matrix
    /\ UNCHANGED <<running, up, step, calling, sent, device, chnScales, rawTopic, untaken,
                   taken, shared, mVTopic>>

------------------------------------------------------------------------------

Setup == setup_service_clients \/ WaitForServices \/ Call \/ \E ok \in BOOLEAN : Serve(ok)

Convert ==
    \/ \E refill \in Waveforms : RawMessage(refill)
    \/ Take
    \/ \E msg \in taken : scale_buffer_data_callback(msg)
    \/ StoreData \/ SetFlag
    \/ publish_scaled_data \/ ClearFlag
    \/ listener_callback

Next == ServicesUp \/ Setup \/ Convert \/ destroy_node

Spec == Init /\ [][Next]_vars

------------------------------------------------------------------------------
(* chn_scales has at most one scale a channel, the raw messages that       *)
(* threads hold are some of the topic's, and so is what is converted.      *)
TypeOK ==
    /\ step \in {Armed, Waiting} \cup 1..Listening
    /\ calling => step \in 1..Len(SetupCalls)
    /\ sent \subseteq {"BufferDestroy", "BufferDisableTopic"}
    /\ Len(chnScales) =< Len(Channels)
    /\ taken \subseteq {rawTopic[i] : i \in 1..(untaken - 1)}
    /\ holder \in {Free, "data", "flag", "published"}
    /\ scaledData.seq \in 0..Len(rawTopic)
    /\ plotted =< Len(mVTopic)

(* The scales the node converts with are those the device has when the     *)
(* set-up is over, channel by channel, unless a read failed: each is read  *)
(* after it was written (lines 121-140).                                   *)
ScalesRead ==
    step = Listening /\ Len(chnScales) = Len(Channels) =>
        \A i \in DOMAIN Channels : chnScales[i] = hwScale[Channels[i]]

(* The device took the scale for every channel.                            *)
OneScale == \A i \in DOMAIN Channels : hwScale[Channels[i]] = Scale

(* v is x codes of the scale s in whole millivolts: less than one away     *)
(* from the exact value, and nearer to zero.                               *)
WholeMilliVolts(v, x, s) ==
    LET exact == x * s
    IN  \/ v >= 0 /\ v * Unit =< exact /\ exact < (v + 1) * Unit
        \/ v =< 0 /\ (v - 1) * Unit < exact /\ exact =< v * Unit

(* When the device took the scale for every channel, each message on /mV   *)
(* has the layout of one refill and that refill's samples, each at its own *)
(* place and in whole millivolts, codes of either sign: no message mixes   *)
(* two refills, however the callbacks of the reentrant group overlap       *)
(* (lines 200-224).                                                        *)
MilliVolts ==
    OneScale =>
        \A k \in DOMAIN mVTopic :
            LET msg == mVTopic[k]
                raw == rawTopic[msg.seq]
            IN  /\ msg.layout = raw.layout
                /\ \A i \in DOMAIN raw.data : WholeMilliVolts(msg.data[i], raw.data[i], Scale)

(* Every refill goes to /mV at most once, however the conversions and the  *)
(* timer of the reentrant group overlap.                                   *)
EachOnce == \A i, k \in DOMAIN mVTopic : mVTopic[i].seq = mVTopic[k].seq => i = k

(* From the device to the plot: what the visualizer shows is one refill,   *)
(* and curve ch the samples that refill has of channel ch, in the order    *)
(* they were sampled and in millivolts.  The order adi_iio interleaves the *)
(* channels in (iio_buffer.cpp:176), the places the conversion keeps and   *)
(* the places and dimensions the visualizer reads agree.                   *)
PlotShowsChannels ==
    matrix # <<>> /\ OneScale =>
        LET refill == rawTopic[mVTopic[plotted].seq].refill
        IN  \A ch \in 0..(Len(Channels) - 1), n \in 0..(Samples - 1) :
                WholeMilliVolts(matrix[ch][n], refill[n][ch], Scale)

=============================================================================
