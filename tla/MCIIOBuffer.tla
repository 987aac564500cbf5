----------------------------- MODULE MCIIOBuffer -----------------------------
(***************************************************************************)
(* Instances of IIOBuffer for TLC.  The device has an input and an output  *)
(* voltage0 (as cf-ad9361-lpc with its DAC would) and an input voltage1.   *)
(***************************************************************************)
EXTENDS IIOBuffer, TLC

MCDeviceChannels ==
    {<<"voltage0", FALSE>>, <<"voltage0", TRUE>>, <<"voltage1", FALSE>>}

Plain(name) == [name |-> name, extended |-> FALSE, output |-> FALSE]
In(name)    == [name |-> name, extended |-> TRUE, output |-> FALSE]
Out(name)   == [name |-> name, extended |-> TRUE, output |-> TRUE]
Ask(n, list) == [samples |-> n, channels |-> list]

(* One client's requests: good ones, an empty list, no samples, a channel  *)
(* the device lacks, and directions the operation refuses.                 *)
MCInputRequests ==
    {Ask(1, <<Plain("voltage1")>>), Ask(2, <<Plain("voltage0"), In("voltage1")>>),
     Ask(1, <<>>), Ask(0, <<Plain("voltage0")>>), Ask(1, <<Plain("temp")>>),
     Ask(1, <<In("voltage0"), Out("voltage0")>>)}
MCOutputRequests ==
    {Ask(1, <<Out("voltage0")>>), Ask(2, <<Out("voltage0"), In("voltage1")>>)}

(* For clients that call at the same time: what readers and writers ask    *)
(* for differs in samples and in channels.                                 *)
MCOneInputRequest  == {Ask(1, <<Plain("voltage1")>>)}
MCOneOutputRequest == {Ask(2, <<Plain("voltage0")>>)}
MCOutSegmentRequest == {Ask(2, <<Out("voltage0")>>)}

(* What the order of steps depends on: m_data, the answers and what the    *)
(* open buffers were created for decide only on values clients read, and   *)
(* of m_samples_count the code branches on whether it is zero.             *)
ControlView == <<mutex, mBuffer, mCanceled, live, mSamples = 0, mChannels, topic, pc,
                 request, world>>

HandleSymmetry == Permutations(Handles)

(* One call at a time, but BufferDestroy may be called under BufferRefill. *)
MCOneClient == {{"BufferRefill", "BufferDestroy"}}
(* BufferCreate runs alone here: BufferRead takes the same steps and more.  *)
MCAnyClient == {{s, t} : s, t \in Services \ {"BufferCreate"}}

(* The instances with orderly clients are those the proofs are about.      *)
ASSUME OrderlyClients == StopFirst => OneClient

=============================================================================
