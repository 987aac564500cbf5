------------------------------ MODULE IIOBuffer ------------------------------
(***************************************************************************)
(* One IIOBuffer object of the adi_iio node (iio_buffer.cpp), the seven    *)
(* buffer services that use it (iio_node.cpp) and the thread that streams  *)
(* it to a topic.                                                          *)
(*                                                                         *)
(* Every service runs in a MutuallyExclusive callback group of its own     *)
(* (adi_iio.cpp), so at most one call of each service is in flight, and    *)
(* calls of different services interleave.  The label pc[t] is where       *)
(* thread t stands: the handlers are cut at every access to state that     *)
(* another thread can write without m_mutex, at every acquisition of       *)
(* m_mutex and at every libiio call that waits for the hardware.           *)
(***************************************************************************)
EXTENDS Integers, Sequences, FiniteSets

CONSTANTS
    Handles,         \* libiio buffers the device can hand out (bounds leaked ones)
    DeviceChannels,  \* <<name, is_output>> of the channels the IIO device has
    InputRequests,   \* what clients ask BufferCreate and BufferRead for
    OutputRequests,  \* what clients ask BufferWrite for
    Overlap,         \* sets {s, t}: clients call s while a call of t is in flight
    MaxCalls,        \* calls in flight at once, a bound (7 in the code: one a service)
    StopFirst,       \* TRUE: clients reconfigure or enable only when not streaming
    HwAnswers,       \* TRUE: the IIO context has a timeout, no transfer waits forever
    NULL             \* the null pointer, and "no thread"

Services == {"BufferRefill", "BufferRead", "BufferWrite", "BufferCreate",
             "BufferDestroy", "BufferEnableTopic", "BufferDisableTopic"}
Loop     == "publishingLoop"
Threads  == Services \cup {Loop}

(* The services that end with another buffer, or none, behind the object.  *)
Reconfigures == {"BufferRead", "BufferWrite", "BufferCreate", "BufferDestroy"}

(* A segment of a channels array: "output_x" and "input_x" are extended.   *)
Channel == [name : STRING, extended : BOOLEAN, output : BOOLEAN]
Request == [samples : Nat, channels : Seq(Channel)]
NoRequest == [samples |-> 0, channels |-> <<>>]

ASSUME ConstantsAssumption ==
    /\ NULL \notin Handles \cup Threads
    /\ InputRequests \subseteq Request
    /\ OutputRequests \subseteq Request
    /\ Overlap \subseteq SUBSET Services
    /\ MaxCalls \in Nat \ {0}
    /\ StopFirst \in BOOLEAN
    /\ HwAnswers \in BOOLEAN

VARIABLES
    mutex,          \* the thread that holds m_mutex
    mBuffer,        \* m_buffer
    mCanceled,      \* m_canceled
    live,           \* the libiio buffers created and not yet destroyed
    opened,         \* what each of them was created for
    mSamples,       \* m_samples_count
    mChannels,      \* m_channels
    mData,          \* m_data
    mTopicEnabled,  \* m_topic_enabled
    mStopThread,    \* m_stopThread
    mLoopRate,      \* m_loopRate is not null
    mPub,           \* m_pub is not null
    pc,             \* where each thread stands; m_th is joinable iff pc[Loop] # "none"
    request,        \* the request each call in flight serves
    message,        \* the handler's local message
    reply,          \* the last response sent, until the next call
    acquired,       \* the calls in flight since whose start m_data was refilled whole
    rosOk,          \* rclcpp::ok()
    crash           \* what ended the process, "no" while it runs

device == <<mBuffer, mCanceled, live, opened>>
config == <<mSamples, mChannels>>
topic  == <<mTopicEnabled, mStopThread, mLoopRate, mPub>>
calls  == <<request, message, reply, acquired>>
world  == <<rosOk, crash>>
vars   == <<mutex, device, config, mData, topic, pc, calls, world>>

------------------------------------------------------------------------------
(* Types *)

NoConfig == [samples |-> 0, channels |-> <<>>, output |-> FALSE]
(* libiio is asked for buffers of some samples of some channels only.      *)
Config   == [samples : Nat \ {0}, channels : Seq(Channel) \ {<<>>}, output : BOOLEAN]

(* m_data: layout is <<dim[0].size, dim[1].size>>; the values are nothing,  *)
(* part of a refill, a whole refill of the open buffer, or whatever lay in  *)
(* memory where the conversion read (garbage), for samples and channels.    *)
Data   == [layout : Nat \X Nat, kind : {"nothing", "part", "whole", "garbage"},
           samples : Nat, channels : Seq(Channel)]
NoData == [layout |-> <<0, 0>>, kind |-> "nothing", samples |-> 0, channels |-> <<>>]

Messages == {"", "Success", "error"}
Reply    == [to : Services, request : Request, ok : BOOLEAN, message : Messages,
             data : Data, fresh : BOOLEAN]
NoReply  == [to |-> "nobody"]

(* Labels inside a critical section of m_mutex.                            *)
Holding == {"create_open", "create_layout", "refill_hw", "refill_copy", "push"}

ServiceLabels ==
    {"idle", "streaming", "buffer", "destroy", "destroy_lock", "set_samples",
     "set_channels", "create_lock", "create_open", "create_layout", "refill_lock",
     "refill_hw", "refill_copy", "push_lock", "push", "data", "respond", "enable_flag",
     "enable_run", "enable_rate", "enable_pub", "enable_thread", "disable_flag",
     "disable_stop", "disable_join", "disable_pub"}
LoopLabels ==
    {"none", "check", "refill_lock", "refill_hw", "refill_copy", "publish", "sleep",
     "finished"}

Crashes == {"no", "null_cancel", "null_channel", "null_rate", "null_publisher",
            "terminate", "channels_race"}

LockOK   == mutex \in Threads \cup {NULL}
DeviceOK == /\ mBuffer \in Handles \cup {NULL}
            /\ mCanceled \in BOOLEAN
            /\ live \subseteq Handles
            /\ opened \in [Handles -> Config \cup {NoConfig}]
ConfigOK == mSamples \in Nat /\ mChannels \in Seq(Channel)
TopicOK  == /\ mTopicEnabled \in BOOLEAN
            /\ mStopThread \in BOOLEAN
            /\ mLoopRate \in BOOLEAN
            /\ mPub \in BOOLEAN
PcOK     == /\ pc \in [Threads -> ServiceLabels \cup LoopLabels]
            /\ \A s \in Services : pc[s] \in ServiceLabels
            /\ pc[Loop] \in LoopLabels
CallsOK  == /\ request \in [Services -> Request]
            /\ message \in [Services -> Messages]
            /\ reply \in Reply \cup {NoReply}
            /\ acquired \subseteq Services
WorldOK  == rosOk \in BOOLEAN /\ crash \in Crashes

TypeOK == LockOK /\ DeviceOK /\ ConfigOK /\ mData \in Data /\ TopicOK /\ PcOK /\ CallsOK /\ WorldOK

(* m_samples_count and m_stopThread are not initialised by the constructor. *)
Init ==
    /\ mutex = NULL
    /\ mBuffer = NULL
    /\ mCanceled = FALSE
    /\ live = {}
    /\ opened = [h \in Handles |-> NoConfig]
    /\ mSamples \in {r.samples : r \in InputRequests \cup OutputRequests}
    /\ mChannels = <<>>
    /\ mData = NoData
    /\ mTopicEnabled = FALSE
    /\ mStopThread \in BOOLEAN
    /\ mLoopRate = FALSE
    /\ mPub = FALSE
    /\ pc = [t \in Threads |-> IF t = Loop THEN "none" ELSE "idle"]
    /\ request = [s \in Services |-> NoRequest]
    /\ message = [s \in Services |-> ""]
    /\ reply = NoReply
    /\ acquired = {}
    /\ rosOk = TRUE
    /\ crash = "no"

------------------------------------------------------------------------------
(* Steps of a thread *)

At(t, label)   == crash = "no" /\ pc[t] = label
Goto(t, label) == pc' = [pc EXCEPT ![t] = label]
Lock(t)        == mutex = NULL /\ mutex' = t
Unlock         == mutex' = NULL

Crash(how) ==
    /\ crash' = how
    /\ UNCHANGED <<mutex, device, config, mData, topic, pc, calls, rosOk>>

Answer(s, ok, text, data) ==
    /\ reply' = [to |-> s, request |-> request[s], ok |-> ok, message |-> text,
                 data |-> data, fresh |-> s \in acquired]
    /\ request' = [request EXCEPT ![s] = NoRequest]
    /\ message' = [message EXCEPT ![s] = ""]
    /\ acquired' = acquired \ {s}

Respond(s, ok, text, data) == Goto(s, "idle") /\ Answer(s, ok, text, data)

(* setErrorResponse and setWarningResponse                                 *)
Fail(s, text) == Respond(s, FALSE, text, NoData)

------------------------------------------------------------------------------
(* The clients *)

Requests(s) == CASE s \in {"BufferRead", "BufferCreate"} -> InputRequests
                 [] s = "BufferWrite" -> OutputRequests
                 [] OTHER -> {NoRequest}

(* Mutant: the handlers configure and create without destroying first.     *)
EntryWithoutDestroy(s) ==
    CASE s = "BufferRefill"       -> "streaming"
      [] s = "BufferDestroy"      -> "buffer"
      [] s = "BufferEnableTopic"  -> "enable_flag"
      [] s = "BufferDisableTopic" -> "disable_flag"
      [] OTHER                    -> "set_samples"

(* The first thing each handler does with the object.                      *)
Entry(s) == CASE s = "BufferRefill"       -> "streaming"
              [] s = "BufferDestroy"      -> "buffer"
              [] s = "BufferEnableTopic"  -> "enable_flag"
              [] s = "BufferDisableTopic" -> "disable_flag"
              [] OTHER                    -> "destroy"

InFlight == {s \in Services : pc[s] # "idle"}

MayCall(s) ==
    /\ rosOk
    /\ Cardinality(InFlight) < MaxCalls
    /\ \A t \in InFlight : {s, t} \in Overlap
    /\ StopFirst /\ s \in Reconfigures \cup {"BufferEnableTopic"} => pc[Loop] = "none"

Call(s) ==
    /\ At(s, "idle")
    /\ MayCall(s)
    /\ \E r \in Requests(s) : request' = [request EXCEPT ![s] = r]
    /\ Goto(s, Entry(s))
    /\ reply' = NoReply
    /\ UNCHANGED <<mutex, device, config, mData, topic, message, acquired, world>>

(* The path is not a device path, or names no device that has a buffer.    *)
Reject(s) ==
    /\ At(s, "idle")
    /\ MayCall(s)
    /\ Fail(s, "error")
    /\ UNCHANGED <<mutex, device, config, mData, topic, world>>

------------------------------------------------------------------------------
(* destroyIIOBuffer and what the services do around it *)

(* buffDestroySrv looks at buffer() before it destroys.                    *)
BufferPresent(s) ==
    /\ At(s, "buffer")
    /\ \/ /\ mBuffer # NULL
          /\ Goto(s, "destroy")
          /\ UNCHANGED calls
       \/ /\ mBuffer = NULL
          /\ Fail(s, "error")
    /\ UNCHANGED <<mutex, device, config, mData, topic, world>>

AfterDestroy(s) ==
    IF s = "BufferDestroy"
    THEN Respond(s, TRUE, "Success", NoData)
    ELSE Goto(s, "set_samples") /\ UNCHANGED calls

(* Mutant: destroy gives up when the lock is taken (std::try_to_lock).      *)
DestroyCheckTryLock(s) ==
    /\ At(s, "destroy")
    /\ \/ /\ mBuffer # NULL /\ mutex = NULL
          /\ Goto(s, "destroy_lock")
          /\ UNCHANGED calls
       \/ /\ mBuffer = NULL \/ mutex # NULL
          /\ AfterDestroy(s)
    /\ UNCHANGED <<mutex, device, config, mData, topic, world>>

(* if (m_buffer), read without the lock                                    *)
DestroyCheck(s) ==
    /\ At(s, "destroy")
    /\ \/ /\ mBuffer # NULL
          /\ Goto(s, "destroy_lock")
          /\ UNCHANGED calls
       \/ /\ mBuffer = NULL
          /\ AfterDestroy(s)
    /\ UNCHANGED <<mutex, device, config, mData, topic, world>>

CloseBuffer ==
    /\ mBuffer # NULL
    /\ mCanceled' = TRUE
    /\ live' = live \ {mBuffer}
    /\ opened' = [opened EXCEPT ![mBuffer] = NoConfig]
    /\ mBuffer' = NULL
    /\ mLoopRate' = FALSE
    /\ UNCHANGED <<mTopicEnabled, mStopThread, mPub>>

(* Mutant: destroy without the lock.                                       *)
DestroyUnlocked(s) ==
    /\ At(s, "destroy_lock")
    /\ \/ /\ CloseBuffer
          /\ AfterDestroy(s)
          /\ UNCHANGED <<mutex, config, mData, world>>
       \/ /\ mBuffer = NULL
          /\ Crash("null_cancel")

(* Nothing in the body waits: cancel, destroy and the resets are one step. *)
(* iio_buffer_cancel dereferences its argument.                            *)
DestroyLocked(s) ==
    /\ At(s, "destroy_lock")
    /\ mutex = NULL
    /\ \/ /\ CloseBuffer
          /\ AfterDestroy(s)
          /\ UNCHANGED <<mutex, config, mData, world>>
       \/ /\ mBuffer = NULL
          /\ Crash("null_cancel")

------------------------------------------------------------------------------
(* The configuration and createIIOBuffer *)

SetSamples(s) ==
    /\ At(s, "set_samples")
    /\ mSamples' = request[s].samples
    /\ Goto(s, "set_channels")
    /\ UNCHANGED <<mutex, device, mChannels, mData, topic, calls, world>>

(* Threads in a critical section that walks m_channels from here on.       *)
WalksChannels(t) == pc[t] \in {"create_open", "refill_copy", "push"}

(* The vector is assigned without the lock: under a thread that walks it,  *)
(* the walk sees the new list or dangling iterators.                       *)
SetChannels(s) ==
    /\ At(s, "set_channels")
    /\ \/ /\ mChannels' = request[s].channels
          /\ Goto(s, "create_lock")
          /\ UNCHANGED <<mutex, device, mSamples, mData, topic, calls, world>>
       \/ /\ \E t \in Threads : WalksChannels(t)
          /\ Crash("channels_race")

Target(ch, output) == <<ch.name, IF ch.extended THEN ch.output ELSE output>>
Exists(ch, output) == Target(ch, output) \in DeviceChannels
Targets(list, output) == {Target(list[i], output) : i \in DOMAIN list}

(* Mutant: a buffer of no samples is not refused.                          *)
ValidAnySamples(list, samples, output) ==
    /\ list # <<>>
    /\ \A i \in DOMAIN list : Exists(list[i], output)

Valid(list, samples, output) ==
    /\ list # <<>>
    /\ samples # 0
    /\ \A i \in DOMAIN list : Exists(list[i], output)

(* Mutant: m_canceled = false is forgotten.                                *)
OpenBufferStillCanceled(output) ==
    /\ UNCHANGED mCanceled
    /\ \/ \E h \in Handles \ live :
             /\ mBuffer' = h
             /\ live' = live \cup {h}
             /\ opened' = [opened EXCEPT ![h] = [samples |-> mSamples,
                              channels |-> mChannels, output |-> output]]
       \/ /\ mBuffer' = NULL
          /\ UNCHANGED <<live, opened>>

(* m_buffer is overwritten whatever it held; a failed open leaves null.    *)
OpenBuffer(output) ==
    /\ mCanceled' = FALSE
    /\ \/ \E h \in Handles \ live :
             /\ mBuffer' = h
             /\ live' = live \cup {h}
             /\ opened' = [opened EXCEPT ![h] = [samples |-> mSamples,
                              channels |-> mChannels, output |-> output]]
       \/ /\ mBuffer' = NULL
          /\ UNCHANGED <<live, opened>>

CreateLock(s) ==
    /\ At(s, "create_lock")
    /\ Lock(s)
    /\ Goto(s, "create_open")
    /\ UNCHANGED <<device, config, mData, topic, calls, world>>

(* BufferWrite alone asks for an output buffer.                            *)
CreateOpen(s) ==
    LET output == s = "BufferWrite" IN
    /\ At(s, "create_open")
    /\ \/ /\ ~Valid(mChannels, mSamples, output)
          /\ Fail(s, "error")
          /\ Unlock
          /\ UNCHANGED device
       \/ /\ Valid(mChannels, mSamples, output)
          /\ OpenBuffer(output)
          /\ IF mBuffer' # NULL
             THEN Goto(s, "create_layout") /\ UNCHANGED <<mutex, calls>>
             ELSE Fail(s, "error") /\ Unlock
    /\ UNCHANGED <<config, mData, topic, world>>

(* Mutant: BufferRead answers with what m_data held.                       *)
AfterCreateNoRefill(s) == IF s = "BufferWrite" THEN "push_lock" ELSE "data"

AfterCreate(s) == CASE s = "BufferRead"  -> "refill_lock"
                    [] s = "BufferWrite" -> "push_lock"
                    [] OTHER             -> "data"

CreateLayout(s) ==
    /\ At(s, "create_layout")
    /\ mData' = [mData EXCEPT !.layout = <<mSamples, Len(mChannels)>>]
    /\ Unlock
    /\ Goto(s, AfterCreate(s))
    /\ message' = [message EXCEPT ![s] = "Success"]
    /\ UNCHANGED <<device, config, topic, request, reply, acquired, world>>

------------------------------------------------------------------------------
(* refill, run by BufferRefill, BufferRead and publishingLoop *)

(* Mutant: the refill is skipped whatever m_topic_enabled says.            *)
StreamingAssumed(s) ==
    /\ At(s, "streaming")
    /\ Goto(s, "data")
    /\ UNCHANGED <<mutex, device, config, mData, topic, calls, world>>

Streaming(s) ==
    /\ At(s, "streaming")
    /\ Goto(s, IF mTopicEnabled THEN "data" ELSE "refill_lock")
    /\ UNCHANGED <<mutex, device, config, mData, topic, calls, world>>

(* Mutant: the loop publishes whatever refill returned.                    *)
RefillFailedPublished(t, text) ==
    IF t = Loop THEN Goto(t, "publish") /\ UNCHANGED calls ELSE Fail(t, text)

RefillFailed(t, text) ==
    IF t = Loop THEN Goto(t, "sleep") /\ UNCHANGED calls ELSE Fail(t, text)

(* Mutant: the early return keeps the lock.                                *)
RefillLockKept(t) ==
    /\ At(t, "refill_lock")
    /\ Lock(t)
    /\ IF mBuffer = NULL \/ mCanceled
       THEN RefillFailed(t, "error")
       ELSE Goto(t, "refill_hw") /\ UNCHANGED calls
    /\ UNCHANGED <<device, config, mData, topic, world>>

RefillLock(t) ==
    /\ At(t, "refill_lock")
    /\ mutex = NULL
    /\ IF mBuffer = NULL \/ mCanceled
       THEN RefillFailed(t, "error") /\ UNCHANGED mutex
       ELSE Lock(t) /\ Goto(t, "refill_hw") /\ UNCHANGED calls
    /\ UNCHANGED <<device, config, mData, topic, world>>

(* iio_buffer_refill waits for the hardware with m_mutex held; then the    *)
(* old values are cleared and new ones pushed one by one.                  *)
RefillHw(t) ==
    /\ At(t, "refill_hw")
    /\ \/ /\ RefillFailed(t, "error")
          /\ Unlock
          /\ UNCHANGED mData
       \/ /\ mData' = [mData EXCEPT !.kind = "part", !.samples = 0, !.channels = <<>>]
          /\ Goto(t, "refill_copy")
          /\ UNCHANGED <<mutex, calls>>
    /\ UNCHANGED <<device, config, topic, world>>

OutputSegment(ch) == ch.extended /\ ch.output
MissingInput(ch)  == ~OutputSegment(ch) /\ ~Exists(ch, FALSE)

(* The first channel of the list that stops the conversion loop.           *)
StopsAt(list, i) ==
    /\ OutputSegment(list[i]) \/ MissingInput(list[i])
    /\ \A j \in 1..(i - 1) : ~OutputSegment(list[j]) /\ ~MissingInput(list[j])

(* The open buffer holds what the conversion is about to read.             *)
Covers(h) ==
    /\ mSamples =< opened[h].samples
    /\ Targets(mChannels, FALSE) \subseteq Targets(opened[h].channels, opened[h].output)

(* What the caller's message holds when refill leaves it alone.            *)
Unset(t) == IF t = Loop THEN "" ELSE message[t]

Converted == [mData EXCEPT !.kind = IF Covers(mBuffer) THEN "whole" ELSE "garbage",
                           !.samples = mSamples, !.channels = mChannels]

RefillCopy(t) ==
    LET stops == {i \in DOMAIN mChannels : mSamples > 0 /\ StopsAt(mChannels, i)} IN
    /\ At(t, "refill_copy")
    /\ \/ /\ stops = {}
          /\ mData' = Converted
          /\ Goto(t, IF t = Loop THEN "publish" ELSE "data")
          /\ message' = [s \in Services |-> IF s = t THEN "Success" ELSE message[s]]
          /\ acquired' = InFlight
          /\ Unlock
          /\ UNCHANGED <<device, config, topic, request, reply, world>>
       \/ \E i \in stops :
            /\ OutputSegment(mChannels[i])
            /\ RefillFailed(t, Unset(t))
            /\ Unlock
            /\ UNCHANGED <<device, config, mData, topic, world>>
       \/ \E i \in stops : MissingInput(mChannels[i]) /\ Crash("null_channel")

------------------------------------------------------------------------------
(* push, run by BufferWrite *)

PushLock(s) ==
    /\ At(s, "push_lock")
    /\ mutex = NULL
    /\ IF mBuffer = NULL
       THEN Fail(s, "error") /\ UNCHANGED mutex
       ELSE Lock(s) /\ Goto(s, "push") /\ UNCHANGED calls
    /\ UNCHANGED <<device, config, mData, topic, world>>

InputSegment(ch)  == ch.extended /\ ~ch.output
MissingOutput(ch) == ~InputSegment(ch) /\ ~Exists(ch, TRUE)
PushStopsAt(list, i) ==
    /\ InputSegment(list[i]) \/ MissingOutput(list[i])
    /\ \A j \in 1..(i - 1) : ~InputSegment(list[j]) /\ ~MissingOutput(list[j])

(* iio_buffer_push waits for the hardware and its result is not looked at. *)
Push(s) ==
    LET stops == {i \in DOMAIN mChannels : mSamples > 0 /\ PushStopsAt(mChannels, i)} IN
    /\ At(s, "push")
    /\ \/ /\ stops = {}
          /\ Respond(s, TRUE, "Success", NoData)
          /\ Unlock
          /\ UNCHANGED <<device, config, mData, topic, world>>
       \/ \E i \in stops :
            /\ InputSegment(mChannels[i])
            /\ Fail(s, message[s])
            /\ Unlock
            /\ UNCHANGED <<device, config, mData, topic, world>>
       \/ \E i \in stops : MissingOutput(mChannels[i]) /\ Crash("null_channel")

------------------------------------------------------------------------------
(* The response: data() takes the lock to return a reference, and the copy *)
(* behind the reference is made without it.                                *)

DataReference(s) ==
    /\ At(s, "data")
    /\ mutex = NULL
    /\ Goto(s, "respond")
    /\ UNCHANGED <<mutex, device, config, mData, topic, calls, world>>

CopyResponse(s) ==
    /\ At(s, "respond")
    /\ Respond(s, TRUE, message[s],
               IF s = "BufferCreate" THEN [NoData EXCEPT !.layout = mData.layout] ELSE mData)
    /\ UNCHANGED <<mutex, device, config, mData, topic, world>>

------------------------------------------------------------------------------
(* enableTopic and disableTopic: no lock, one step per member written      *)

EnableFlag(s) ==
    /\ At(s, "enable_flag")
    /\ mTopicEnabled' = TRUE
    /\ Goto(s, "enable_run")
    /\ UNCHANGED <<mutex, device, config, mData, mStopThread, mLoopRate, mPub, calls, world>>

EnableRun(s) ==
    /\ At(s, "enable_run")
    /\ mStopThread' = FALSE
    /\ Goto(s, "enable_rate")
    /\ UNCHANGED <<mutex, device, config, mData, mTopicEnabled, mLoopRate, mPub, calls, world>>

EnableRate(s) ==
    /\ At(s, "enable_rate")
    /\ mLoopRate' = TRUE
    /\ Goto(s, "enable_pub")
    /\ UNCHANGED <<mutex, device, config, mData, mTopicEnabled, mStopThread, mPub, calls, world>>

EnablePub(s) ==
    /\ At(s, "enable_pub")
    /\ mPub' = TRUE
    /\ Goto(s, "enable_thread")
    /\ UNCHANGED <<mutex, device, config, mData, mTopicEnabled, mStopThread, mLoopRate, calls,
                   world>>

(* Assigning to a joinable std::thread calls std::terminate.               *)
EnableThread(s) ==
    /\ At(s, "enable_thread")
    /\ \/ /\ pc[Loop] = "none"
          /\ pc' = [pc EXCEPT ![s] = "idle", ![Loop] = "check"]
          /\ Answer(s, TRUE, "Success", NoData)
          /\ UNCHANGED <<mutex, device, config, mData, topic, world>>
       \/ /\ pc[Loop] # "none"
          /\ Crash("terminate")

DisableFlag(s) ==
    /\ At(s, "disable_flag")
    /\ mTopicEnabled' = FALSE
    /\ Goto(s, "disable_stop")
    /\ UNCHANGED <<mutex, device, config, mData, mStopThread, mLoopRate, mPub, calls, world>>

DisableStop(s) ==
    /\ At(s, "disable_stop")
    /\ mStopThread' = TRUE
    /\ Goto(s, "disable_join")
    /\ UNCHANGED <<mutex, device, config, mData, mTopicEnabled, mLoopRate, mPub, calls, world>>

(* Mutant: the thread is not joined.                                       *)
DisableNoJoin(s) ==
    /\ At(s, "disable_join")
    /\ Goto(s, "disable_pub")
    /\ UNCHANGED <<mutex, device, config, mData, topic, calls, world>>

DisableJoin(s) ==
    /\ At(s, "disable_join")
    /\ pc[Loop] \in {"none", "finished"}
    /\ pc' = [pc EXCEPT ![s] = "disable_pub", ![Loop] = "none"]
    /\ UNCHANGED <<mutex, device, config, mData, topic, calls, world>>

DisablePub(s) ==
    /\ At(s, "disable_pub")
    /\ mPub' = FALSE
    /\ Respond(s, TRUE, "Success", NoData)
    /\ UNCHANGED <<mutex, device, config, mData, mTopicEnabled, mStopThread, mLoopRate, world>>

------------------------------------------------------------------------------
(* publishingLoop *)

(* Mutant: the loop does not look at rclcpp::ok().                         *)
LoopCheckStopOnly ==
    /\ At(Loop, "check")
    /\ Goto(Loop, IF ~mStopThread THEN "refill_lock" ELSE "finished")
    /\ UNCHANGED <<mutex, device, config, mData, topic, calls, world>>

LoopCheck ==
    /\ At(Loop, "check")
    /\ Goto(Loop, IF rosOk /\ ~mStopThread THEN "refill_lock" ELSE "finished")
    /\ UNCHANGED <<mutex, device, config, mData, topic, calls, world>>

(* m_data goes to the publisher without the lock.                          *)
LoopPublish ==
    /\ At(Loop, "publish")
    /\ \/ /\ mPub
          /\ Goto(Loop, "sleep")
          /\ UNCHANGED <<mutex, device, config, mData, topic, calls, world>>
       \/ ~mPub /\ Crash("null_publisher")

LoopSleep ==
    /\ At(Loop, "sleep")
    /\ \/ /\ mLoopRate
          /\ Goto(Loop, "check")
          /\ UNCHANGED <<mutex, device, config, mData, topic, calls, world>>
       \/ ~mLoopRate /\ Crash("null_rate")

(* SIGINT: rclcpp::ok() turns false and no new request is served.          *)
Shutdown ==
    /\ crash = "no"
    /\ rosOk
    /\ rosOk' = FALSE
    /\ UNCHANGED <<mutex, device, config, mData, topic, pc, calls, crash>>

------------------------------------------------------------------------------
(* The steps of thread t by what they wait for: m_mutex, the hardware, or  *)
(* nothing but the processor (and, in a join, the other thread's end).     *)

Handler(s) ==
    \/ BufferPresent(s) \/ DestroyCheck(s)
    \/ SetSamples(s) \/ SetChannels(s) \/ CreateOpen(s) \/ CreateLayout(s)
    \/ Streaming(s) \/ CopyResponse(s)
    \/ EnableFlag(s) \/ EnableRun(s) \/ EnableRate(s) \/ EnablePub(s) \/ EnableThread(s)
    \/ DisableFlag(s) \/ DisableStop(s) \/ DisableJoin(s) \/ DisablePub(s)

Acquire(t) ==
    \/ RefillLock(t)
    \/ t \in Services /\ (DestroyLocked(t) \/ CreateLock(t) \/ PushLock(t) \/ DataReference(t))

Transfer(t) == RefillHw(t) \/ (t \in Services /\ Push(t))

Proceed(t) ==
    \/ RefillCopy(t)
    \/ t \in Services /\ Handler(t)
    \/ t = Loop /\ (LoopCheck \/ LoopPublish \/ LoopSleep)

Next ==
    \/ \E s \in Services : Call(s) \/ Reject(s)
    \/ \E t \in Threads : Acquire(t) \/ Transfer(t) \/ Proceed(t)
    \/ Shutdown

Spec == Init /\ [][Next]_vars

(* A runnable thread runs on: weak fairness.  A thread that waits for      *)
(* m_mutex gets it if it is free again and again: strong fairness, since   *)
(* std::mutex promises no order, and publishingLoop, the one thread that   *)
(* returns to the lock by itself, sleeps outside of it.  The hardware      *)
(* answers a transfer only when the context has a timeout.                 *)
Fairness ==
    \A t \in Threads : /\ WF_vars(Proceed(t))
                       /\ SF_vars(Acquire(t))
                       /\ HwAnswers => WF_vars(Transfer(t))

FairSpec == Spec /\ Fairness

------------------------------------------------------------------------------
(* What holds for every client *)

(* m_mutex is held exactly by the thread inside a critical section, the    *)
(* buffer behind m_buffer is never one already destroyed or cancelled, and *)
(* the threads in refill and push, past their check, have one.             *)
Transferring == {"refill_hw", "refill_copy", "push"}

OwnerInv  == \A t \in Threads : pc[t] \in Holding <=> mutex = t
BufferInv == mBuffer # NULL => mBuffer \in live /\ ~mCanceled
UserInv   == \A t \in Threads : pc[t] \in Transferring \cup {"create_layout"} => mBuffer # NULL

LockInv == OwnerInv /\ BufferInv /\ UserInv

(* The buffer a refill or a push is working on.                            *)
InUse == IF mutex # NULL /\ pc[mutex] \in Transferring THEN {mBuffer} ELSE {}

HandleState == [h \in Handles |-> IF h \in InUse THEN "busy"
                                  ELSE IF h \in live THEN "open" ELSE "free"]

Device == INSTANCE LibIIODevice WITH handle <- HandleState

(* Whatever clients do at the same time, the node keeps to libiio's rules: *)
(* it transfers into and out of open buffers only, one transfer at a time, *)
(* and never destroys a buffer under a transfer (destroyIIOBuffer, refill, *)
(* push: the lock).                                                        *)
UsesLibIIO == Device!Spec

------------------------------------------------------------------------------
(* What holds for a client that waits for its answers and stops the stream *)
(* before it reconfigures *)

(* That client: it calls BufferDestroy under its BufferRefill at most, and *)
(* names the channels it writes with their direction, since refill looks   *)
(* plain names up among the inputs (README.rst:277).                       *)
OneClient ==
    /\ StopFirst
    /\ Overlap \subseteq {{"BufferRefill", "BufferDestroy"}}
    /\ \A r \in OutputRequests : \A i \in DOMAIN r.channels : r.channels[i].extended

(* No call sequence ends the process: no null m_buffer is cancelled, no    *)
(* stopped or replaced m_loopRate, m_pub or m_th is used.                  *)
NoCrash == crash = "no"

(* No libiio buffer but the one behind m_buffer stays open: BufferRead,    *)
(* BufferWrite and BufferCreate destroy before they create.                *)
NoLeak == live \subseteq {mBuffer}

(* The open buffer was created for the samples and channels the object now *)
(* holds, which refill and push go by.                                     *)
ConfigMatches ==
    mBuffer # NULL => /\ opened[mBuffer].samples = mSamples
                      /\ opened[mBuffer].channels = mChannels

(* A step that answers a call of s with success.                           *)
Succeeds(s) == pc[s] # "idle" /\ pc'[s] = "idle" /\ reply'.ok

Delivers(r) ==
    /\ r.fresh
    /\ r.data.kind = "whole"
    /\ r.data.layout = <<r.data.samples, Len(r.data.channels)>>

(* BufferRead answers Success only with the samples and channels asked for *)
(* in it, all of them, captured after the call was made.                   *)
ReadDelivers ==
    reply.to = "BufferRead" /\ reply.ok =>
        /\ Delivers(reply)
        /\ reply.data.samples = reply.request.samples
        /\ reply.data.channels = reply.request.channels

(* BufferRefill, while nothing streams, answers Success only with one      *)
(* whole refill made for it.                                               *)
RefillDelivers ==
    [][Succeeds("BufferRefill") /\ ~mTopicEnabled => Delivers(reply')]_vars

(* What goes to the topic is one whole refill under the layout it was made *)
(* for.                                                                    *)
PublishesWhole ==
    pc[Loop] = "publish" =>
        mData.kind = "whole" /\ mData.layout = <<mData.samples, Len(mData.channels)>>

(* Between calls, m_topic_enabled tells whether the thread and the         *)
(* publisher exist.                                                        *)
TopicMatchesThread ==
    pc["BufferEnableTopic"] = "idle" /\ pc["BufferDisableTopic"] = "idle" =>
        (mTopicEnabled <=> pc[Loop] # "none") /\ (mTopicEnabled <=> mPub)

(* A successful BufferDestroy leaves the device without a buffer, also one *)
(* that a concurrent BufferRefill worked on.                               *)
DestroyReleases ==
    [][Succeeds("BufferDestroy") => live' = {}]_vars

(* Every call is answered.                                                 *)
EveryCallReturns == \A s \in Services : pc[s] # "idle" ~> pc[s] = "idle"

(* After SIGINT the streaming thread ends by itself.                       *)
ShutdownStopsStream == ~rosOk ~> pc[Loop] \in {"none", "finished"}

------------------------------------------------------------------------------
(* What the documentation or a test says, and the code does not do *)

(* "Destroy buffer: Stops buffer operations on a device and releases        *)
(* associated resources" (README.rst:350), also of a device that streams:   *)
(* the loop must not run into the m_loopRate that destroyIIOBuffer resets.  *)
StreamSurvives == crash # "null_rate"

(* "BufferRefill did not return the expected number of samples."            *)
(* (test/buffer_srv.test.py:607): each successful refill has its samples.   *)
RefillAlwaysDelivers == [][Succeeds("BufferRefill") => Delivers(reply')]_vars

(* "Destroy buffer: Stops buffer operations on a device": also of a refill  *)
(* that waits for the hardware, which iio_buffer_cancel is there to end.    *)
DestroyReturns == pc["BufferDestroy"] # "idle" ~> pc["BufferDestroy"] = "idle"

=============================================================================
