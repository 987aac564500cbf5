----------------------------- MODULE MCExamples -----------------------------
(***************************************************************************)
(* Instances of the examples for TLC.  A behaviour runs one of them, the   *)
(* one that was launched: the electrodes of the AD5592R, its temperature   *)
(* indicator, the scaled buffer of the AD7124-8, the hardware monitor, or  *)
(* the bring-up of a board.  The monitor, whose set-up is a long constant,  *)
(* is extended: TLC evaluates the constants of an extended module once.    *)
(***************************************************************************)
EXTENDS HWMon

CONSTANTS Launches, NPoints, Depth, MaxCode, Discoveries, MaxTicks, MaxMessages,
          MaxFailures, Error, NaN

VARIABLES
    launched,
    state, idx, last, listening, command, phase, found, asked, unserved, answers, scale,
    enabled, written, dac, forwarded, landed, onAtStop,
    spinning, scaleAsked, tScale, raw, offset, enabledT, stats, samples, published,
    running, up, step, calling, sent, created, streaming, hwScale, chnScales, rawTopic,
    untaken, taken, holder, scaledData, scaledMsg, available, mVTopic, plotted, matrix,
    board, iioUp, ended, inCall, failures, configured, rawTopics, volts

(* The scale that is configured, 0.6103515629 mV, and twice that.          *)
MCElectrodeScale == [e \in {"anode", "cathode"} |-> IF e = "anode" THEN 610 ELSE 1220]

(* All three services appear at once, or one after the other.              *)
MCTogether == {{"AttrReadString", "AttrEnableTopic", "AttrDisableTopic"}}
MCOneByOne == {{"AttrReadString"}, {"AttrEnableTopic"}, {"AttrDisableTopic"}}

(* raw + offset is a multiple of 6: means of up to 3 are whole numbers.    *)
MCRawTexts == {0, 6, 18, Error}
MCOffsets  == {-6, 12, Error}

(* Two channels, 0.149 mV a code once the scale is written, and refills of *)
(* three scans, of either sign, whose codes are no whole millivolts.       *)
MCChannels   == <<"input_voltage0-voltage1", "input_voltage2-voltage3">>
MCOtherScale == [c \in {MCChannels[1], MCChannels[2]} |-> IF c = MCChannels[1] THEN 300 ELSE 500]
MCWaveforms  == {[n \in 0..2 |-> [c \in 0..1 |-> IF c = 0 THEN 10 * n + 7 ELSE -8 * n]],
                 [n \in 0..2 |-> [c \in 0..1 |-> 20 - n + 40 * c]]}

MCLaunched == {"output_voltage2", "input_voltage2",
               "input_voltage0-voltage1", "input_voltage2-voltage3"}

Electrode   == INSTANCE Electrodes WITH Scale <- MCElectrodeScale
Temperature == INSTANCE TemperatureIndicator WITH RawTexts <- MCRawTexts,
                   Offsets <- MCOffsets, HwScale <- 2
Buffer      == INSTANCE Conversion WITH Channels <- MCChannels, Samples <- 3, Unit <- 1000,
                   Scale <- 149, OtherScale <- MCOtherScale, Waveforms <- MCWaveforms
Launch      == INSTANCE BringUp WITH Boards <- {"ad5592r", "ad7124_8"},
                   Channels <- MCLaunched

ASSUME ExamplesAssumption ==
    /\ Electrode!SM!StateMachineAssumption
    /\ Electrode!Act!ActuatorAssumption
    /\ Temperature!TemperatureAssumption
    /\ Buffer!ConversionAssumption
    /\ HWMonAssumption
    /\ Launch!BringUpAssumption

electrodes == <<state, idx, last, listening, command, phase, found, asked, unserved, answers,
                scale, enabled, written, dac, forwarded, landed, onAtStop>>
thermal    == <<spinning, scaleAsked, tScale, raw, offset, enabledT, stats, samples, published>>
conversion == <<running, up, step, calling, sent, created, streaming, hwScale, chnScales,
                rawTopic, untaken, taken, holder, scaledData, scaledMsg, available, mVTopic,
                plotted, matrix>>
launches   == <<board, iioUp, ended, inCall, failures, configured, rawTopics, volts>>

allVars == <<launched, electrodes, thermal, conversion, vars, launches>>

ExamplesInit ==
    /\ launched \in Launches
    /\ Electrode!Init
    /\ Temperature!Init
    /\ Buffer!Init
    /\ Init
    /\ Launch!Init
    /\ launched # "bring-up" => board = "ad5592r"

ElectrodesAlone ==
    /\ launched = "electrodes"
    /\ UNCHANGED <<launched, thermal, conversion, vars, launches>>

TemperatureAlone ==
    /\ launched = "temperature"
    /\ UNCHANGED <<launched, electrodes, conversion, vars, launches>>

BufferAlone ==
    /\ launched = "buffer"
    /\ UNCHANGED <<launched, electrodes, thermal, vars, launches>>

MonitorAlone ==
    /\ launched = "monitor"
    /\ UNCHANGED <<launched, electrodes, thermal, conversion, launches>>

LaunchAlone ==
    /\ launched = "bring-up"
    /\ UNCHANGED <<launched, electrodes, thermal, conversion, vars>>

ExamplesNext ==
    \/ ElectrodesAlone /\ Electrode!Next
    \/ TemperatureAlone /\ Temperature!Next
    \/ BufferAlone /\ Buffer!Next
    \/ MonitorAlone /\ Next
    \/ LaunchAlone /\ Launch!Next

ExamplesSpec == ExamplesInit /\ [][ExamplesNext]_allVars

ramp == <<state, idx, last>>

(* The fairness of the example's own FairSpec.                             *)
Fairness ==
    /\ WF_electrodes(launched = "electrodes" /\ Electrode!Tick)
    /\ \A e \in {"anode", "cathode"} :
         WF_electrodes(launched = "electrodes" /\ Electrode!Act!data_callback(e)
                       /\ UNCHANGED ramp)
    /\ WF_vars(launched = "monitor" /\ SetUp)
    /\ WF_vars(launched = "monitor" /\ Store)
    /\ WF_vars(launched = "monitor" /\ timer_callback)
    /\ WF_launches(launched = "bring-up" /\ Launch!Steps)
    /\ WF_launches(launched = "bring-up" /\ \E ch \in MCLaunched : Launch!Transform(ch))

ExamplesFairSpec == ExamplesSpec /\ Fairness

------------------------------------------------------------------------------
(* The types of the examples, beside the monitor's TypeOK.                 *)
TypesOK ==
    /\ Electrode!TypeOK
    /\ Temperature!TypeOK
    /\ Buffer!TypeOK
    /\ Launch!TypeOK

(* Electrodes of the AD5592R (state_machine.py, actuator.py): the voltages *)
(* asked for do not jump and drive one electrode at a time, the DAC ends   *)
(* up with what was last asked, and no electrode waits for ever.           *)
Continuity          == Electrode!Continuity
OneElectrodeAtATime == Electrode!OneElectrodeAtATime
LatestReachesDAC    == Electrode!LatestReachesDAC
EventuallyDriven    == Electrode!EventuallyDriven

(* The actuator's teardown (actuator.py:206) disables its topics.          *)
ActuatorDisables == Electrode!TeardownDisables

(* The actuator's requests reach their services (actuator.py:126).         *)
RequestsFindTheirService == Electrode!RequestsFindTheirService

(* The temperature's one-pass statistics (temperature_indicator.py:160).   *)
StatisticsMatch == Temperature!StatisticsMatch

(* The AD7124-8 conversion (ad7124_8_buffer_scaled.py) and the visualizer. *)
ScalesRead        == Buffer!ScalesRead
MilliVolts        == Buffer!MilliVolts
EachOnce          == Buffer!EachOnce
PlotShowsChannels == Buffer!PlotShowsChannels

(* The bring-up of either board (ad5592r/launch, ad7124_8/launch).         *)
BringUpCompletes == Launch!BringUpCompletes
VoltsComeRight   == Launch!VoltsComeRight

=============================================================================
