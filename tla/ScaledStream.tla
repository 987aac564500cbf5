---------------------------- MODULE ScaledStream ----------------------------
(***************************************************************************)
(* The ad7124_8_buffer_scaled node as the client of the buffer object: the *)
(* requests of its set-up and of its destroy_node reach the services of    *)
(* IIOBuffer.  What happens to the samples is left to Conversion alone.    *)
(***************************************************************************)
EXTENDS IIOBuffer

CONSTANTS NodeChannels, NodeSamples, NodeScale, ResetScale

VARIABLES running, up, step, calling, sent, created, streaming, hwScale, chnScales,
          rawTopic, untaken, taken, holder, scaledData, scaledMsg, available, mVTopic,
          plotted, matrix

Client == INSTANCE Conversion
            WITH Channels <- NodeChannels, Samples <- NodeSamples, Unit <- 1, Scale <- NodeScale,
                 OtherScale <- ResetScale, Waveforms <- {}, MaxMessages <- 0

client  == <<running, up, step, calling, sent, created, streaming, hwScale, chnScales,
             rawTopic, untaken, taken, holder, scaledData, scaledMsg, available, mVTopic,
             plotted, matrix>>
allVars == <<vars, client>>

StreamInit == Init /\ Client!Init

SetupCall == Client!SetupCalls[step]

(* client.call on a buffer service, and its answer.                        *)
CallBuffer ==
    /\ Client!Call
    /\ SetupCall.to \in Services
    /\ Call(SetupCall.to)

BufferAnswers ==
    /\ calling
    /\ reply # NoReply
    /\ reply.to = SetupCall.to
    /\ Client!Serve(reply.ok)
    /\ UNCHANGED vars

(* The attribute services are not those of the buffer.                     *)
CallAttr ==
    /\ Client!Call
    /\ SetupCall.to \notin Services
    /\ UNCHANGED vars

AttrAnswers ==
    /\ calling
    /\ SetupCall.to \notin Services
    /\ \E ok \in BOOLEAN : Client!Serve(ok)
    /\ UNCHANGED vars

NodeAlone ==
    /\ \/ Client!ServicesUp \/ Client!setup_service_clients \/ Client!WaitForServices
       \/ Client!destroy_node
    /\ UNCHANGED vars

(* The two requests of destroy_node go to two services, in either order or *)
(* at once; nobody waits for the answers.                                  *)
Teardown(s) ==
    /\ s \in sent
    /\ Call(s)
    /\ sent' = sent \ {s}
    /\ UNCHANGED <<running, up, step, calling, created, streaming, hwScale, chnScales,
                   rawTopic, untaken, taken, holder, scaledData, scaledMsg, available,
                   mVTopic, plotted, matrix>>

AdiIIO ==
    /\ \E t \in Threads : Acquire(t) \/ Transfer(t) \/ Proceed(t)
    /\ UNCHANGED client

StreamNext ==
    \/ CallBuffer \/ BufferAnswers \/ CallAttr \/ AttrAnswers \/ NodeAlone
    \/ \E s \in sent : Teardown(s)
    \/ AdiIIO

StreamSpec == StreamInit /\ [][StreamNext]_allVars

=============================================================================
