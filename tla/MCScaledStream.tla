--------------------------- MODULE MCScaledStream ---------------------------
(***************************************************************************)
(* One channel, one sample and one libiio buffer for ScaledStream.         *)
(***************************************************************************)
EXTENDS ScaledStream

MCDeviceChannels == {<<"voltage0", FALSE>>}
MCNodeChannels   == <<"voltage0">>
MCResetScale     == [c \in {"voltage0"} |-> 3]
MCRequest        == {[samples |-> 1, channels |-> <<[name |-> "voltage0",
                        extended |-> FALSE, output |-> FALSE]>>]}
MCTeardown       == {{"BufferDestroy", "BufferDisableTopic"}}

=============================================================================
