-------------------------- MODULE IIOBuffer_proofs --------------------------
(***************************************************************************)
(* What holds of IIOBuffer for every client, device and set of requests:   *)
(* its types, the invariant of m_mutex and m_buffer, and that it uses the  *)
(* libiio buffers as LibIIODevice allows.                                  *)
(***************************************************************************)
EXTENDS IIOBuffer, TLAPS

LEMMA EmptyValues ==
    NoRequest \in Request /\ NoData \in Data
<1>1. <<>> \in Seq(Channel)
  OBVIOUS
<1> QED
  BY <1>1 DEF NoRequest, Request, NoData, Data

LEMMA ThreadFacts ==
    /\ Threads = Services \cup {Loop}
    /\ Loop \notin Services
    /\ NULL \notin Threads
  BY ConstantsAssumption DEF Threads, Services, Loop

LEMMA GotoTypes ==
    ASSUME PcOK, NEW t \in Threads, NEW label, Goto(t, label),
           t \in Services => label \in ServiceLabels,
           t = Loop => label \in LoopLabels
    PROVE  PcOK'
  BY ThreadFacts DEF PcOK, Goto

LEMMA AnswerTypes ==
    ASSUME CallsOK, NEW s \in Services, NEW ok \in BOOLEAN, NEW text \in Messages,
           NEW data \in Data, Answer(s, ok, text, data)
    PROVE  CallsOK'
<1>1. request[s] \in Request
  BY DEF CallsOK
<1>2. reply' \in Reply
  <2>1. (s \in acquired) \in BOOLEAN
    OBVIOUS
  <2> DEFINE f == s \in acquired
  <2>2. f \in BOOLEAN
    BY <2>1
  <2>3. reply' = [to |-> s, request |-> request[s], ok |-> ok, message |-> text,
                  data |-> data, fresh |-> f]
    BY DEF Answer
  <2> HIDE DEF f
  <2> QED
    BY <1>1, <2>2, <2>3 DEF Reply
<1>3. request' \in [Services -> Request]
  BY EmptyValues DEF CallsOK, Answer
<1>4. message' \in [Services -> Messages]
  BY DEF CallsOK, Answer, Messages
<1>5. acquired' \subseteq Services
  BY DEF CallsOK, Answer
<1> QED
  BY <1>2, <1>3, <1>4, <1>5 DEF CallsOK

LEMMA RespondTypes ==
    ASSUME PcOK, CallsOK, NEW s \in Services, NEW ok \in BOOLEAN, NEW text \in Messages,
           NEW data \in Data, Respond(s, ok, text, data)
    PROVE  PcOK' /\ CallsOK'
<1>1. PcOK'
  BY GotoTypes, ThreadFacts DEF Respond, ServiceLabels
<1>2. CallsOK'
  BY AnswerTypes DEF Respond
<1> QED
  BY <1>1, <1>2

LEMMA FailTypes ==
    ASSUME PcOK, CallsOK, NEW s \in Services, NEW text \in Messages, Fail(s, text)
    PROVE  PcOK' /\ CallsOK'
  BY RespondTypes, EmptyValues DEF Fail

LEMMA SameTypes ==
    /\ LockOK /\ UNCHANGED mutex => LockOK'
    /\ DeviceOK /\ UNCHANGED device => DeviceOK'
    /\ ConfigOK /\ UNCHANGED config => ConfigOK'
    /\ TopicOK /\ UNCHANGED topic => TopicOK'
    /\ PcOK /\ UNCHANGED pc => PcOK'
    /\ CallsOK /\ UNCHANGED calls => CallsOK'
    /\ WorldOK /\ UNCHANGED world => WorldOK'
  BY DEF LockOK, DeviceOK, device, ConfigOK, config, TopicOK, topic, PcOK, CallsOK, calls,
         WorldOK, world

LEMMA LockTypes ==
    /\ \A t \in Threads : Lock(t) => LockOK'
    /\ Unlock => LockOK'
  BY DEF Lock, Unlock, LockOK

LEMMA CrashTypes ==
    ASSUME TypeOK, NEW how \in Crashes, Crash(how)
    PROVE  TypeOK'
  BY SameTypes DEF TypeOK, Crash, WorldOK

(* The steps around the client and destroyIIOBuffer.                       *)

LEMMA CallTypes ==
    ASSUME TypeOK, NEW s \in Services, Call(s)
    PROVE  TypeOK'
<1>1. PICK r \in Requests(s) : request' = [request EXCEPT ![s] = r]
  BY DEF Call
<1>2. r \in Request
  BY ConstantsAssumption, EmptyValues DEF Requests
<1>3. CallsOK'
  BY <1>1, <1>2 DEF Call, CallsOK, TypeOK
<1>4. PcOK'
  <2>1. Entry(s) \in ServiceLabels
    BY DEF Entry, ServiceLabels
  <2> QED
    BY <2>1, ThreadFacts, GotoTypes DEF Call, TypeOK
<1> QED
  BY <1>3, <1>4, SameTypes DEF Call, TypeOK

LEMMA RejectTypes ==
    ASSUME TypeOK, NEW s \in Services, Reject(s)
    PROVE  TypeOK'
<1>1. PcOK' /\ CallsOK'
  BY FailTypes DEF Reject, TypeOK, Messages
<1> QED
  BY <1>1, SameTypes DEF Reject, TypeOK

LEMMA AfterDestroyTypes ==
    ASSUME PcOK, CallsOK, NEW s \in Services, AfterDestroy(s)
    PROVE  PcOK' /\ CallsOK'
<1>1. CASE s = "BufferDestroy"
  BY <1>1, RespondTypes, EmptyValues DEF AfterDestroy, Messages
<1>2. CASE s # "BufferDestroy"
  <2>1. Goto(s, "set_samples") /\ UNCHANGED calls
    BY <1>2 DEF AfterDestroy
  <2> QED
    BY <2>1, GotoTypes, ThreadFacts, SameTypes DEF ServiceLabels
<1> QED
  BY <1>1, <1>2

LEMMA BufferPresentTypes ==
    ASSUME TypeOK, NEW s \in Services, BufferPresent(s)
    PROVE  TypeOK'
<1>1. PcOK' /\ CallsOK'
  <2>1. CASE Goto(s, "destroy") /\ UNCHANGED calls
    BY <2>1, GotoTypes, ThreadFacts, SameTypes DEF ServiceLabels, TypeOK
  <2>2. CASE Fail(s, "error")
    BY <2>2, FailTypes DEF TypeOK, Messages
  <2> QED
    BY <2>1, <2>2 DEF BufferPresent
<1> QED
  BY <1>1, SameTypes DEF BufferPresent, TypeOK

LEMMA DestroyCheckTypes ==
    ASSUME TypeOK, NEW s \in Services, DestroyCheck(s)
    PROVE  TypeOK'
<1>1. PcOK' /\ CallsOK'
  <2>1. CASE Goto(s, "destroy_lock") /\ UNCHANGED calls
    BY <2>1, GotoTypes, ThreadFacts, SameTypes DEF ServiceLabels, TypeOK
  <2>2. CASE AfterDestroy(s)
    BY <2>2, AfterDestroyTypes DEF TypeOK
  <2> QED
    BY <2>1, <2>2 DEF DestroyCheck
<1> QED
  BY <1>1, SameTypes DEF DestroyCheck, TypeOK

LEMMA CloseBufferTypes ==
    ASSUME DeviceOK, TopicOK, CloseBuffer
    PROVE  DeviceOK' /\ TopicOK'
  BY EmptyValues DEF DeviceOK, TopicOK, CloseBuffer

LEMMA DestroyLockedTypes ==
    ASSUME TypeOK, NEW s \in Services, DestroyLocked(s)
    PROVE  TypeOK'
<1>1. CASE /\ CloseBuffer
           /\ AfterDestroy(s)
           /\ UNCHANGED <<mutex, config, mData, world>>
  BY <1>1, CloseBufferTypes, AfterDestroyTypes, SameTypes DEF TypeOK
<1>2. CASE Crash("null_cancel")
  BY <1>2, CrashTypes DEF Crashes
<1> QED
  BY <1>1, <1>2 DEF DestroyLocked

(* The configuration and createIIOBuffer.                                  *)

LEMMA SetSamplesTypes ==
    ASSUME TypeOK, NEW s \in Services, SetSamples(s)
    PROVE  TypeOK'
<1>1. request[s].samples \in Nat
  BY DEF TypeOK, CallsOK, Request
<1>2. ConfigOK'
  BY <1>1 DEF TypeOK, ConfigOK, SetSamples
<1>3. PcOK'
  BY GotoTypes, ThreadFacts DEF SetSamples, ServiceLabels, TypeOK
<1> QED
  BY <1>2, <1>3, SameTypes DEF SetSamples, TypeOK

LEMMA SetChannelsTypes ==
    ASSUME TypeOK, NEW s \in Services, SetChannels(s)
    PROVE  TypeOK'
<1>1. request[s].channels \in Seq(Channel)
  BY DEF TypeOK, CallsOK, Request
<1>2. CASE /\ mChannels' = request[s].channels
           /\ Goto(s, "create_lock")
           /\ UNCHANGED <<mutex, device, mSamples, mData, topic, calls, world>>
  <2>1. ConfigOK'
    BY <1>1, <1>2 DEF TypeOK, ConfigOK
  <2>2. PcOK'
    BY <1>2, GotoTypes, ThreadFacts DEF ServiceLabels, TypeOK
  <2> QED
    BY <1>2, <2>1, <2>2, SameTypes DEF TypeOK
<1>3. CASE Crash("channels_race")
  BY <1>3, CrashTypes DEF Crashes
<1> QED
  BY <1>2, <1>3 DEF SetChannels

LEMMA CreateLockTypes ==
    ASSUME TypeOK, NEW s \in Services, CreateLock(s)
    PROVE  TypeOK'
<1>1. PcOK'
  BY GotoTypes, ThreadFacts DEF CreateLock, ServiceLabels, TypeOK
<1> QED
  BY <1>1, LockTypes, ThreadFacts, SameTypes DEF CreateLock, TypeOK

LEMMA OpenBufferTypes ==
    ASSUME DeviceOK, ConfigOK, NEW output \in BOOLEAN, Valid(mChannels, mSamples, output),
           OpenBuffer(output)
    PROVE  DeviceOK'
<1>1. CASE mBuffer' = NULL /\ UNCHANGED <<live, opened>>
  BY <1>1 DEF DeviceOK, OpenBuffer
<1>2. CASE \E h \in Handles \ live :
             /\ mBuffer' = h
             /\ live' = live \cup {h}
             /\ opened' = [opened EXCEPT ![h] = [samples |-> mSamples,
                              channels |-> mChannels, output |-> output]]
  <2>1. [samples |-> mSamples, channels |-> mChannels, output |-> output] \in Config
    BY DEF ConfigOK, Config, Valid
  <2> QED
    BY <1>2, <2>1 DEF DeviceOK, OpenBuffer
<1> QED
  BY <1>1, <1>2 DEF OpenBuffer

LEMMA CreateOpenTypes ==
    ASSUME TypeOK, NEW s \in Services, CreateOpen(s)
    PROVE  TypeOK'
<1> DEFINE output == s = "BufferWrite"
<1>1. output \in BOOLEAN
  OBVIOUS
<1>2. CASE Fail(s, "error") /\ Unlock /\ UNCHANGED device
  <2>1. PcOK' /\ CallsOK'
    BY <1>2, FailTypes DEF TypeOK, Messages
  <2> QED
    BY <1>2, <2>1, LockTypes, SameTypes DEF CreateOpen, TypeOK
<1>3. CASE Valid(mChannels, mSamples, output) /\ OpenBuffer(output)
           /\ Goto(s, "create_layout") /\ UNCHANGED <<mutex, calls>>
  <2>1. PcOK'
    BY <1>3, GotoTypes, ThreadFacts DEF ServiceLabels, TypeOK
  <2> QED
    BY <1>1, <1>3, <2>1, OpenBufferTypes, SameTypes DEF CreateOpen, TypeOK
<1>4. CASE Valid(mChannels, mSamples, output) /\ OpenBuffer(output)
           /\ Fail(s, "error") /\ Unlock
  <2>1. PcOK' /\ CallsOK'
    BY <1>4, FailTypes DEF TypeOK, Messages
  <2> QED
    BY <1>1, <1>4, <2>1, OpenBufferTypes, LockTypes, SameTypes DEF CreateOpen, TypeOK
<1> QED
  BY <1>2, <1>3, <1>4 DEF CreateOpen

LEMMA CreateLayoutTypes ==
    ASSUME TypeOK, NEW s \in Services, CreateLayout(s)
    PROVE  TypeOK'
<1>1. mData' \in Data
  <2>1. Len(mChannels) \in Nat
    BY DEF TypeOK, ConfigOK
  <2> QED
    BY <2>1 DEF TypeOK, ConfigOK, CreateLayout, Data
<1>2. PcOK'
  <2>1. AfterCreate(s) \in ServiceLabels
    BY DEF AfterCreate, ServiceLabels
  <2> QED
    BY <2>1, GotoTypes, ThreadFacts DEF CreateLayout, TypeOK
<1>3. CallsOK'
  BY DEF CreateLayout, TypeOK, CallsOK, Messages
<1> QED
  BY <1>1, <1>2, <1>3, LockTypes, SameTypes DEF CreateLayout, TypeOK

(* refill, push and the response.                                          *)

LEMMA StreamingTypes ==
    ASSUME TypeOK, NEW s \in Services, Streaming(s)
    PROVE  TypeOK'
<1>1. PcOK'
  BY GotoTypes, ThreadFacts DEF Streaming, ServiceLabels, TypeOK
<1> QED
  BY <1>1, SameTypes DEF Streaming, TypeOK

LEMMA RefillFailedTypes ==
    ASSUME PcOK, CallsOK, NEW t \in Threads, NEW text \in Messages, RefillFailed(t, text)
    PROVE  PcOK' /\ CallsOK'
<1>1. CASE t = Loop
  <2>1. Goto(t, "sleep") /\ UNCHANGED calls
    BY <1>1 DEF RefillFailed
  <2> QED
    BY <1>1, <2>1, GotoTypes, ThreadFacts, SameTypes DEF LoopLabels
<1>2. CASE t # Loop
  BY <1>2, FailTypes, ThreadFacts DEF RefillFailed
<1> QED
  BY <1>1, <1>2

LEMMA RefillLockTypes ==
    ASSUME TypeOK, NEW t \in Threads, RefillLock(t)
    PROVE  TypeOK'
<1>1. CASE RefillFailed(t, "error") /\ UNCHANGED mutex
  <2>1. PcOK' /\ CallsOK'
    BY <1>1, RefillFailedTypes DEF TypeOK, Messages
  <2> QED
    BY <1>1, <2>1, SameTypes DEF RefillLock, TypeOK
<1>2. CASE Lock(t) /\ Goto(t, "refill_hw") /\ UNCHANGED calls
  <2>1. PcOK'
    BY <1>2, GotoTypes DEF ServiceLabels, LoopLabels, TypeOK
  <2> QED
    BY <1>2, <2>1, LockTypes, SameTypes DEF RefillLock, TypeOK
<1> QED
  BY <1>1, <1>2 DEF RefillLock

LEMMA RefillHwTypes ==
    ASSUME TypeOK, NEW t \in Threads, RefillHw(t)
    PROVE  TypeOK'
<1>1. CASE RefillFailed(t, "error") /\ Unlock /\ UNCHANGED mData
  <2>1. PcOK' /\ CallsOK'
    BY <1>1, RefillFailedTypes DEF TypeOK, Messages
  <2> QED
    BY <1>1, <2>1, LockTypes, SameTypes DEF RefillHw, TypeOK
<1>2. CASE /\ mData' = [mData EXCEPT !.kind = "part", !.samples = 0, !.channels = <<>>]
           /\ Goto(t, "refill_copy")
           /\ UNCHANGED <<mutex, calls>>
  <2>1. PcOK'
    BY <1>2, GotoTypes DEF ServiceLabels, LoopLabels, TypeOK
  <2>2. <<>> \in Seq(Channel)
    OBVIOUS
  <2>3. mData' \in Data
    BY <1>2, <2>2 DEF TypeOK, Data
  <2> QED
    BY <1>2, <2>1, <2>3, SameTypes DEF RefillHw, TypeOK
<1> QED
  BY <1>1, <1>2 DEF RefillHw

LEMMA RefillCopyTypes ==
    ASSUME TypeOK, NEW t \in Threads, RefillCopy(t)
    PROVE  TypeOK'
<1> DEFINE stops == {i \in DOMAIN mChannels : mSamples > 0 /\ StopsAt(mChannels, i)}
<1>1. CASE /\ mData' = Converted
           /\ Goto(t, IF t = Loop THEN "publish" ELSE "data")
           /\ message' = [s \in Services |-> IF s = t THEN "Success" ELSE message[s]]
           /\ acquired' = InFlight
           /\ Unlock
           /\ UNCHANGED <<device, config, topic, request, reply, world>>
  <2>1. PcOK'
    BY <1>1, GotoTypes, ThreadFacts DEF ServiceLabels, LoopLabels, TypeOK
  <2>2. mData' \in Data
    BY <1>1 DEF TypeOK, ConfigOK, Converted, Data
  <2>3. CallsOK'
    BY <1>1 DEF TypeOK, CallsOK, Messages, InFlight
  <2> QED
    BY <1>1, <2>1, <2>2, <2>3, LockTypes, SameTypes DEF TypeOK
<1>2. CASE /\ RefillFailed(t, Unset(t))
           /\ Unlock
           /\ UNCHANGED <<device, config, mData, topic, world>>
  <2>1. Unset(t) \in Messages
    BY ThreadFacts DEF TypeOK, CallsOK, Unset, Messages
  <2>2. PcOK' /\ CallsOK'
    BY <1>2, <2>1, RefillFailedTypes DEF TypeOK
  <2> QED
    BY <1>2, <2>2, LockTypes, SameTypes DEF TypeOK
<1>3. CASE Crash("null_channel")
  BY <1>3, CrashTypes DEF Crashes
<1> QED
  BY <1>1, <1>2, <1>3 DEF RefillCopy

LEMMA PushLockTypes ==
    ASSUME TypeOK, NEW s \in Services, PushLock(s)
    PROVE  TypeOK'
<1>1. CASE Fail(s, "error") /\ UNCHANGED mutex
  <2>1. PcOK' /\ CallsOK'
    BY <1>1, FailTypes DEF TypeOK, Messages
  <2> QED
    BY <1>1, <2>1, SameTypes DEF PushLock, TypeOK
<1>2. CASE Lock(s) /\ Goto(s, "push") /\ UNCHANGED calls
  <2>1. PcOK'
    BY <1>2, GotoTypes, ThreadFacts DEF ServiceLabels, TypeOK
  <2> QED
    BY <1>2, <2>1, LockTypes, ThreadFacts, SameTypes DEF PushLock, TypeOK
<1> QED
  BY <1>1, <1>2 DEF PushLock

LEMMA PushTypes ==
    ASSUME TypeOK, NEW s \in Services, Push(s)
    PROVE  TypeOK'
<1>1. CASE /\ Respond(s, TRUE, "Success", NoData)
           /\ Unlock
           /\ UNCHANGED <<device, config, mData, topic, world>>
  <2>1. PcOK' /\ CallsOK'
    BY <1>1, RespondTypes, EmptyValues DEF TypeOK, Messages
  <2> QED
    BY <1>1, <2>1, LockTypes, SameTypes DEF TypeOK
<1>2. CASE /\ Fail(s, message[s])
           /\ Unlock
           /\ UNCHANGED <<device, config, mData, topic, world>>
  <2>1. message[s] \in Messages
    BY DEF TypeOK, CallsOK
  <2>2. PcOK' /\ CallsOK'
    BY <1>2, <2>1, FailTypes DEF TypeOK
  <2> QED
    BY <1>2, <2>2, LockTypes, SameTypes DEF TypeOK
<1>3. CASE Crash("null_channel")
  BY <1>3, CrashTypes DEF Crashes
<1> QED
  BY <1>1, <1>2, <1>3 DEF Push

LEMMA DataReferenceTypes ==
    ASSUME TypeOK, NEW s \in Services, DataReference(s)
    PROVE  TypeOK'
<1>1. PcOK'
  BY GotoTypes, ThreadFacts DEF DataReference, ServiceLabels, TypeOK
<1> QED
  BY <1>1, SameTypes DEF DataReference, TypeOK

LEMMA CopyResponseTypes ==
    ASSUME TypeOK, NEW s \in Services, CopyResponse(s)
    PROVE  TypeOK'
<1> DEFINE data == IF s = "BufferCreate" THEN [NoData EXCEPT !.layout = mData.layout] ELSE mData
<1>1. data \in Data
  BY EmptyValues DEF TypeOK, Data
<1>2. message[s] \in Messages
  BY DEF TypeOK, CallsOK
<1>3. PcOK' /\ CallsOK'
  <2>1. Respond(s, TRUE, message[s], data)
    BY DEF CopyResponse
  <2> HIDE DEF data
  <2> QED
    BY <1>1, <1>2, <2>1, RespondTypes DEF TypeOK
<1> QED
  BY <1>3, SameTypes DEF CopyResponse, TypeOK

(* The topic.                                                              *)

LEMMA EnableTypes ==
    ASSUME TypeOK, NEW s \in Services,
           EnableFlag(s) \/ EnableRun(s) \/ EnableRate(s) \/ EnablePub(s)
    PROVE  TypeOK'
<1>1. PcOK'
  BY GotoTypes, ThreadFacts
  DEF EnableFlag, EnableRun, EnableRate, EnablePub, ServiceLabels, TypeOK
<1>2. TopicOK'
  BY DEF EnableFlag, EnableRun, EnableRate, EnablePub, TypeOK, TopicOK
<1> QED
  BY <1>1, <1>2, SameTypes DEF EnableFlag, EnableRun, EnableRate, EnablePub, TypeOK

LEMMA EnableThreadTypes ==
    ASSUME TypeOK, NEW s \in Services, EnableThread(s)
    PROVE  TypeOK'
<1>1. CASE /\ pc' = [pc EXCEPT ![s] = "idle", ![Loop] = "check"]
           /\ Answer(s, TRUE, "Success", NoData)
           /\ UNCHANGED <<mutex, device, config, mData, topic, world>>
  <2>1. PcOK'
    BY <1>1, ThreadFacts DEF TypeOK, PcOK, ServiceLabels, LoopLabels
  <2>2. CallsOK'
    BY <1>1, AnswerTypes, EmptyValues DEF TypeOK, Messages
  <2> QED
    BY <1>1, <2>1, <2>2, SameTypes DEF TypeOK
<1>2. CASE Crash("terminate")
  BY <1>2, CrashTypes DEF Crashes
<1> QED
  BY <1>1, <1>2 DEF EnableThread

LEMMA DisableTypes ==
    ASSUME TypeOK, NEW s \in Services,
           DisableFlag(s) \/ DisableStop(s) \/ DisableJoin(s) \/ DisablePub(s)
    PROVE  TypeOK'
<1>1. CASE DisableFlag(s) \/ DisableStop(s)
  <2>1. PcOK'
    BY <1>1, GotoTypes, ThreadFacts DEF DisableFlag, DisableStop, ServiceLabels, TypeOK
  <2>2. TopicOK'
    BY <1>1 DEF DisableFlag, DisableStop, TypeOK, TopicOK
  <2> QED
    BY <1>1, <2>1, <2>2, SameTypes DEF DisableFlag, DisableStop, TypeOK
<1>2. CASE DisableJoin(s)
  <2>1. PcOK'
    BY <1>2, ThreadFacts DEF DisableJoin, TypeOK, PcOK, ServiceLabels, LoopLabels
  <2> QED
    BY <1>2, <2>1, SameTypes DEF DisableJoin, TypeOK
<1>3. CASE DisablePub(s)
  <2>1. PcOK' /\ CallsOK'
    BY <1>3, RespondTypes, EmptyValues DEF DisablePub, TypeOK, Messages
  <2>2. TopicOK'
    BY <1>3 DEF DisablePub, TypeOK, TopicOK
  <2> QED
    BY <1>3, <2>1, <2>2, SameTypes DEF DisablePub, TypeOK
<1> QED
  BY <1>1, <1>2, <1>3

LEMMA LoopTypes ==
    ASSUME TypeOK, LoopCheck \/ LoopPublish \/ LoopSleep
    PROVE  TypeOK'
<1>1. CASE Crash("null_publisher") \/ Crash("null_rate")
  BY <1>1, CrashTypes DEF Crashes
<1>2. CASE /\ \E l \in LoopLabels : Goto(Loop, l)
           /\ UNCHANGED <<mutex, device, config, mData, topic, calls, world>>
  <2>1. PcOK'
    BY <1>2, GotoTypes, ThreadFacts DEF TypeOK
  <2> QED
    BY <1>2, <2>1, SameTypes DEF TypeOK
<1> QED
  BY <1>1, <1>2 DEF LoopCheck, LoopPublish, LoopSleep, LoopLabels

LEMMA ShutdownTypes ==
    ASSUME TypeOK, Shutdown
    PROVE  TypeOK'
  BY SameTypes DEF Shutdown, TypeOK, WorldOK

(* Every state of the model has the types its variables are declared with. *)
THEOREM TypeCorrect == Spec => []TypeOK
<1>1. Init => TypeOK
  <2> SUFFICES ASSUME Init PROVE TypeOK
    OBVIOUS
  <2>1. mSamples \in Nat
    <3>1. PICK r \in InputRequests \cup OutputRequests : mSamples = r.samples
      BY DEF Init
    <3> QED
      BY <3>1, ConstantsAssumption DEF Request
  <2>2. mChannels \in Seq(Channel)
    <3>1. <<>> \in Seq(Channel)
      OBVIOUS
    <3> QED
      BY <3>1 DEF Init
  <2>3. PcOK
    BY ThreadFacts DEF Init, PcOK, ServiceLabels, LoopLabels
  <2>4. CallsOK
    BY EmptyValues DEF Init, CallsOK, Messages
  <2>5. LockOK /\ DeviceOK /\ TopicOK /\ WorldOK
    BY EmptyValues DEF Init, LockOK, DeviceOK, TopicOK, WorldOK, Crashes
  <2> QED
    BY <2>1, <2>2, <2>3, <2>4, <2>5, EmptyValues DEF TypeOK, ConfigOK, Init
<1>2. TypeOK /\ [Next]_vars => TypeOK'
  <2> SUFFICES ASSUME TypeOK, [Next]_vars PROVE TypeOK'
    OBVIOUS
  <2>1. ASSUME NEW s \in Services, Call(s) \/ Reject(s) PROVE TypeOK'
    BY <2>1, CallTypes, RejectTypes
  <2>2. ASSUME NEW t \in Threads, Acquire(t) PROVE TypeOK'
    BY <2>2, RefillLockTypes, DestroyLockedTypes, CreateLockTypes, PushLockTypes,
       DataReferenceTypes DEF Acquire
  <2>3. ASSUME NEW t \in Threads, Transfer(t) PROVE TypeOK'
    BY <2>3, RefillHwTypes, PushTypes DEF Transfer
  <2>4. ASSUME NEW s \in Services, Handler(s) PROVE TypeOK'
    BY <2>4, BufferPresentTypes, DestroyCheckTypes, SetSamplesTypes, SetChannelsTypes,
       CreateOpenTypes, CreateLayoutTypes, StreamingTypes, CopyResponseTypes, EnableTypes,
       EnableThreadTypes, DisableTypes DEF Handler
  <2>5. ASSUME NEW t \in Threads, Proceed(t) PROVE TypeOK'
    BY <2>4, <2>5, RefillCopyTypes, LoopTypes DEF Proceed
  <2>6. CASE Shutdown
    BY <2>6, ShutdownTypes
  <2>7. CASE UNCHANGED vars
    BY <2>7, SameTypes DEF vars, TypeOK
  <2> QED
    BY <2>1, <2>2, <2>3, <2>5, <2>6, <2>7 DEF Next
<1> QED
  BY <1>1, <1>2, PTL DEF Spec

------------------------------------------------------------------------------
(* The invariant of m_mutex and m_buffer.  A step moves one thread outside *)
(* the critical sections, into one, within one or out of one: one lemma    *)
(* for each of the four, that says what becomes of LockInv and of the      *)
(* libiio buffers.                                                         *)

LEMMA GotoPc ==
    ASSUME PcOK, NEW t \in Threads, NEW label, Goto(t, label)
    PROVE  pc'[t] = label /\ \A u \in Threads \ {t} : pc'[u] = pc[u]
  BY DEF PcOK, Goto

LEMMA TransferringHolds ==
    Transferring \cup {"create_layout"} \subseteq Holding
  BY DEF Transferring, Holding

LEMMA StaysOutside ==
    ASSUME TypeOK, LockInv, UNCHANGED <<mutex, device>>,
           \A t \in Threads : pc'[t] # pc[t] => pc[t] \notin Holding /\ pc'[t] \notin Holding
    PROVE  LockInv' /\ UNCHANGED HandleState
<1>1. OwnerInv' /\ BufferInv'
  BY DEF LockInv, OwnerInv, BufferInv, device
<1>2. UserInv'
  BY TransferringHolds DEF LockInv, UserInv, device
<1>3. InUse' = InUse
  <2>1. CASE mutex \in Threads
    BY <2>1, TransferringHolds DEF InUse, device, LockInv, OwnerInv
  <2> QED
    BY <2>1 DEF InUse, device, TypeOK, LockOK
<1> QED
  BY <1>1, <1>2, <1>3 DEF LockInv, HandleState, device

LEMMA MovesOutside ==
    ASSUME TypeOK, LockInv, NEW t \in Threads, NEW label, Goto(t, label),
           pc[t] \notin Holding, label \notin Holding, UNCHANGED <<mutex, device>>
    PROVE  LockInv' /\ UNCHANGED HandleState
<1>1. \A u \in Threads : pc'[u] # pc[u] => pc[u] \notin Holding /\ pc'[u] \notin Holding
  BY GotoPc DEF TypeOK
<1> QED
  BY <1>1, StaysOutside

LEMMA MovesIn ==
    ASSUME TypeOK, LockInv, NEW t \in Threads, NEW label, Goto(t, label), Lock(t),
           label \in Holding, UNCHANGED device,
           label \in Transferring \cup {"create_layout"} => mBuffer # NULL
    PROVE  /\ LockInv'
           /\ InUse = {} /\ InUse' = IF label \in Transferring THEN {mBuffer} ELSE {}
<1>1. pc'[t] = label /\ \A u \in Threads \ {t} : pc'[u] = pc[u]
  BY GotoPc DEF TypeOK
<1>2. \A u \in Threads : pc[u] \notin Holding
  BY ThreadFacts DEF Lock, LockInv, OwnerInv
<1>3. OwnerInv' /\ BufferInv'
  BY <1>1, <1>2 DEF LockInv, OwnerInv, BufferInv, Lock, device
<1>4. UserInv'
  BY <1>1, <1>2, TransferringHolds DEF UserInv, device
<1>5. InUse = {} /\ InUse' = IF label \in Transferring THEN {mBuffer} ELSE {}
  BY <1>1, ThreadFacts DEF InUse, Lock, device
<1> QED
  BY <1>3, <1>4, <1>5 DEF LockInv

LEMMA MovesWithin ==
    ASSUME TypeOK, LockInv, NEW t \in Threads, NEW label, Goto(t, label),
           pc[t] \in Holding, label \in Holding, UNCHANGED mutex, BufferInv',
           label \in Transferring \cup {"create_layout"} => mBuffer' # NULL
    PROVE  /\ LockInv'
           /\ InUse = IF pc[t] \in Transferring THEN {mBuffer} ELSE {}
           /\ InUse' = IF label \in Transferring THEN {mBuffer'} ELSE {}
<1>1. pc'[t] = label /\ \A u \in Threads \ {t} : pc'[u] = pc[u]
  BY GotoPc DEF TypeOK
<1>2. mutex = t /\ \A u \in Threads \ {t} : pc[u] \notin Holding
  BY DEF LockInv, OwnerInv
<1>3. OwnerInv'
  BY <1>1, <1>2 DEF OwnerInv
<1>4. UserInv'
  BY <1>1, <1>2, TransferringHolds DEF UserInv
<1>5. mutex # NULL
  BY <1>2, ThreadFacts
<1> QED
  BY <1>1, <1>2, <1>3, <1>4, <1>5 DEF LockInv, InUse

LEMMA MovesOut ==
    ASSUME TypeOK, LockInv, NEW t \in Threads, NEW label, Goto(t, label),
           pc[t] \in Holding, label \notin Holding, Unlock, BufferInv'
    PROVE  /\ LockInv'
           /\ InUse = IF pc[t] \in Transferring THEN {mBuffer} ELSE {}
           /\ InUse' = {}
<1>1. pc'[t] = label /\ \A u \in Threads \ {t} : pc'[u] = pc[u]
  BY GotoPc DEF TypeOK
<1>2. mutex = t /\ \A u \in Threads \ {t} : pc[u] \notin Holding
  BY DEF LockInv, OwnerInv
<1>3. OwnerInv'
  BY <1>1, <1>2, ThreadFacts DEF OwnerInv, Unlock
<1>4. UserInv'
  BY <1>1, <1>2, TransferringHolds DEF UserInv
<1>5. mutex # NULL
  BY <1>2, ThreadFacts
<1> QED
  BY <1>1, <1>2, <1>3, <1>4, <1>5 DEF LockInv, InUse, Unlock

LEMMA CrashKeeps ==
    ASSUME TypeOK, LockInv, NEW how, Crash(how)
    PROVE  LockInv' /\ UNCHANGED HandleState
  BY StaysOutside DEF Crash

(* How a change of live and InUse appears to LibIIODevice.                 *)

LEMMA DeviceSame ==
    ASSUME InUse' = InUse, live' = live
    PROVE  UNCHANGED HandleState
  BY DEF HandleState

LEMMA DeviceCreates ==
    ASSUME InUse = {}, InUse' = {}, NEW h \in Handles \ live, live' = live \cup {h}
    PROVE  Device!Next
<1>1. HandleState[h] = "free" /\ HandleState' = [HandleState EXCEPT ![h] = "open"]
  BY DEF HandleState
<1> QED
  BY <1>1 DEF Device!Next, Device!Create

LEMMA DeviceBegins ==
    ASSUME InUse = {}, NEW h \in Handles, InUse' = {h}, h \in live, live' = live
    PROVE  Device!Next
<1>1. HandleState[h] = "open" /\ HandleState' = [HandleState EXCEPT ![h] = "busy"]
  BY DEF HandleState
<1>2. \A g \in Handles : HandleState[g] # "busy"
  BY DEF HandleState
<1> QED
  BY <1>1, <1>2 DEF Device!Next, Device!Begin, Device!Idle

LEMMA DeviceEnds ==
    ASSUME NEW h \in Handles, InUse = {h}, InUse' = {}, h \in live, live' = live
    PROVE  Device!Next
<1>1. HandleState[h] = "busy" /\ HandleState' = [HandleState EXCEPT ![h] = "open"]
  BY DEF HandleState
<1> QED
  BY <1>1 DEF Device!Next, Device!End

LEMMA DeviceDestroys ==
    ASSUME InUse = {}, InUse' = {}, NEW h \in Handles, h \in live, live' = live \ {h}
    PROVE  Device!Next
<1>1. HandleState[h] = "open" /\ HandleState' = [HandleState EXCEPT ![h] = "free"]
  BY DEF HandleState
<1> QED
  BY <1>1 DEF Device!Next, Device!Destroy

Keeps == LockInv' /\ [Device!Next]_HandleState

(* One lemma per step that touches m_mutex or m_buffer.                    *)

LEMMA FailLabel ==
    ASSUME NEW s, NEW text, Fail(s, text)
    PROVE  Goto(s, "idle")
  BY DEF Fail, Respond

LEMMA RefillFailedLabel ==
    ASSUME NEW t, NEW text, RefillFailed(t, text)
    PROVE  \E label \in {"sleep", "idle"} : Goto(t, label)
  BY FailLabel DEF RefillFailed

LEMMA AfterDestroyLabel ==
    ASSUME NEW s, AfterDestroy(s)
    PROVE  \E label \in {"idle", "set_samples"} : Goto(s, label)
  BY DEF AfterDestroy, Respond

LEMMA DestroyLockedKeeps ==
    ASSUME TypeOK, LockInv, NEW s \in Services, DestroyLocked(s)
    PROVE  Keeps
<1>1. CASE CloseBuffer /\ AfterDestroy(s) /\ mutex = NULL /\ UNCHANGED mutex
  <2>1. PICK label \in {"idle", "set_samples"} : Goto(s, label)
    BY <1>1, AfterDestroyLabel
  <2>2. pc'[s] = label /\ \A u \in Threads \ {s} : pc'[u] = pc[u]
    BY <2>1, GotoPc, ThreadFacts DEF TypeOK
  <2>3. \A t \in Threads : pc[t] \notin Holding
    BY <1>1, ThreadFacts DEF LockInv, OwnerInv
  <2>4. \A t \in Threads : pc'[t] \notin Holding
    BY <2>2, <2>3 DEF Holding
  <2>5. LockInv'
    BY <1>1, <2>4, ThreadFacts, TransferringHolds
    DEF LockInv, OwnerInv, BufferInv, UserInv, CloseBuffer
  <2>6. InUse = {} /\ InUse' = {}
    BY <1>1 DEF InUse
  <2>7. mBuffer \in Handles /\ mBuffer \in live /\ live' = live \ {mBuffer}
    BY <1>1 DEF CloseBuffer, LockInv, BufferInv, TypeOK, DeviceOK
  <2> QED
    BY <2>5, <2>6, <2>7, DeviceDestroys DEF Keeps
<1>2. CASE Crash("null_cancel")
  BY <1>2, CrashKeeps DEF Keeps
<1> QED
  BY <1>1, <1>2 DEF DestroyLocked

LEMMA CreateLockKeeps ==
    ASSUME TypeOK, LockInv, NEW s \in Services, CreateLock(s)
    PROVE  Keeps
<1>1. LockInv' /\ InUse = {} /\ InUse' = {}
  BY MovesIn, ThreadFacts DEF CreateLock, Holding, Transferring
<1> QED
  BY <1>1, DeviceSame DEF CreateLock, device, Keeps

LEMMA BeginTransfer ==
    ASSUME TypeOK, LockInv, NEW t \in Threads, NEW label \in {"refill_hw", "push"},
           Lock(t), Goto(t, label), UNCHANGED device, mBuffer # NULL
    PROVE  Keeps
<1>1. LockInv' /\ InUse = {} /\ InUse' = {mBuffer}
  BY MovesIn DEF Holding, Transferring
<1>2. mBuffer \in Handles /\ mBuffer \in live /\ live' = live
  BY DEF TypeOK, DeviceOK, LockInv, BufferInv, device
<1> QED
  BY <1>1, <1>2, DeviceBegins DEF Keeps

LEMMA EndTransfer ==
    ASSUME TypeOK, LockInv, NEW t \in Threads, NEW label, Unlock, Goto(t, label),
           pc[t] \in Transferring, label \notin Holding, UNCHANGED device
    PROVE  Keeps
<1>1. pc[t] \in Holding /\ BufferInv'
  BY TransferringHolds DEF LockInv, BufferInv, device
<1>2. LockInv' /\ InUse = {mBuffer} /\ InUse' = {}
  BY <1>1, MovesOut
<1>3. mBuffer \in Handles /\ mBuffer \in live /\ live' = live
  BY DEF TypeOK, DeviceOK, LockInv, BufferInv, UserInv, device
<1> QED
  BY <1>2, <1>3, DeviceEnds DEF Keeps

LEMMA RefillLockKeeps ==
    ASSUME TypeOK, LockInv, NEW t \in Threads, RefillLock(t)
    PROVE  Keeps
<1>1. CASE RefillFailed(t, "error") /\ UNCHANGED mutex
  <2>1. PICK label \in {"sleep", "idle"} : Goto(t, label)
    BY <1>1, RefillFailedLabel
  <2> QED
    BY <1>1, <2>1, MovesOutside DEF RefillLock, At, Holding, Keeps
<1>2. CASE mBuffer # NULL /\ Lock(t) /\ Goto(t, "refill_hw")
  BY <1>2, BeginTransfer DEF RefillLock
<1> QED
  BY <1>1, <1>2 DEF RefillLock

LEMMA PushLockKeeps ==
    ASSUME TypeOK, LockInv, NEW s \in Services, PushLock(s)
    PROVE  Keeps
<1>1. CASE Fail(s, "error") /\ UNCHANGED mutex
  BY <1>1, FailLabel, MovesOutside, ThreadFacts DEF PushLock, At, Holding, Keeps
<1>2. CASE mBuffer # NULL /\ Lock(s) /\ Goto(s, "push")
  BY <1>2, BeginTransfer, ThreadFacts DEF PushLock
<1> QED
  BY <1>1, <1>2 DEF PushLock

LEMMA RefillHwKeeps ==
    ASSUME TypeOK, LockInv, NEW t \in Threads, RefillHw(t)
    PROVE  Keeps
<1>1. CASE RefillFailed(t, "error") /\ Unlock
  <2>1. PICK label \in {"sleep", "idle"} : Goto(t, label)
    BY <1>1, RefillFailedLabel
  <2> QED
    BY <1>1, <2>1, EndTransfer DEF RefillHw, At, Holding, Transferring
<1>2. CASE Goto(t, "refill_copy") /\ UNCHANGED mutex
  <2>1. mBuffer # NULL /\ BufferInv'
    BY DEF RefillHw, At, LockInv, UserInv, BufferInv, Transferring, device
  <2>2. LockInv' /\ InUse = {mBuffer} /\ InUse' = {mBuffer'}
    BY <1>2, <2>1, MovesWithin DEF RefillHw, At, Holding, Transferring, device
  <2> QED
    BY <2>2, DeviceSame DEF RefillHw, device, Keeps
<1> QED
  BY <1>1, <1>2 DEF RefillHw

LEMMA RefillCopyKeeps ==
    ASSUME TypeOK, LockInv, NEW t \in Threads, RefillCopy(t)
    PROVE  Keeps
<1>1. CASE /\ Goto(t, IF t = Loop THEN "publish" ELSE "data")
           /\ Unlock
           /\ UNCHANGED device
  BY <1>1, EndTransfer DEF RefillCopy, At, Holding, Transferring
<1>2. CASE RefillFailed(t, Unset(t)) /\ Unlock /\ UNCHANGED device
  <2>1. PICK label \in {"sleep", "idle"} : Goto(t, label)
    BY <1>2, RefillFailedLabel
  <2> QED
    BY <1>2, <2>1, EndTransfer DEF RefillCopy, At, Holding, Transferring
<1>3. CASE Crash("null_channel")
  BY <1>3, CrashKeeps DEF Keeps
<1> QED
  BY <1>1, <1>2, <1>3 DEF RefillCopy

LEMMA PushKeeps ==
    ASSUME TypeOK, LockInv, NEW s \in Services, Push(s)
    PROVE  Keeps
<1>1. CASE Goto(s, "idle") /\ Unlock /\ UNCHANGED device
  BY <1>1, EndTransfer, ThreadFacts DEF Push, At, Holding, Transferring
<1>2. CASE Crash("null_channel")
  BY <1>2, CrashKeeps DEF Keeps
<1> QED
  BY <1>1, <1>2, FailLabel DEF Push, Respond

LEMMA CreateOpenKeeps ==
    ASSUME TypeOK, LockInv, NEW s \in Services, CreateOpen(s)
    PROVE  Keeps
<1>1. pc[s] = "create_open" /\ pc[s] \in Holding /\ pc[s] \notin Transferring /\ s \in Threads
  BY ThreadFacts DEF CreateOpen, At, Holding, Transferring
<1>2. CASE Fail(s, "error") /\ Unlock /\ UNCHANGED device
  <2>1. Goto(s, "idle") /\ BufferInv'
    BY <1>2, FailLabel DEF LockInv, BufferInv, device
  <2>2. LockInv' /\ InUse = {} /\ InUse' = {}
    BY <1>1, <1>2, <2>1, MovesOut DEF Holding
  <2> QED
    BY <1>2, <2>2, DeviceSame DEF device, Keeps
<1>3. CASE /\ OpenBuffer(s = "BufferWrite")
           /\ IF mBuffer' # NULL
              THEN Goto(s, "create_layout") /\ UNCHANGED <<mutex, calls>>
              ELSE Fail(s, "error") /\ Unlock
  <2>1. CASE mBuffer' = NULL
    <3>1. live' = live /\ BufferInv' /\ Goto(s, "idle") /\ Unlock
      BY <1>3, <2>1, FailLabel, ConstantsAssumption DEF OpenBuffer, BufferInv
    <3>2. LockInv' /\ InUse = {} /\ InUse' = {}
      BY <1>1, <3>1, MovesOut DEF Holding
    <3> QED
      BY <3>1, <3>2, DeviceSame DEF Keeps
  <2>2. CASE mBuffer' # NULL
    <3>1. PICK h \in Handles \ live : mBuffer' = h /\ live' = live \cup {h}
      BY <1>3, <2>2 DEF OpenBuffer
    <3>2. BufferInv' /\ Goto(s, "create_layout") /\ UNCHANGED mutex
      BY <1>3, <2>2, <3>1 DEF BufferInv, OpenBuffer
    <3>3. LockInv' /\ InUse = {} /\ InUse' = {}
      BY <1>1, <2>2, <3>2, MovesWithin DEF Holding, Transferring
    <3> QED
      BY <3>1, <3>3, DeviceCreates DEF Keeps
  <2> QED
    BY <2>1, <2>2
<1> QED
  BY <1>2, <1>3 DEF CreateOpen

LEMMA CreateLayoutKeeps ==
    ASSUME TypeOK, LockInv, NEW s \in Services, CreateLayout(s)
    PROVE  Keeps
<1>1. AfterCreate(s) \notin Holding
  BY DEF AfterCreate, Holding
<1>2. pc[s] \in Holding /\ pc[s] \notin Transferring /\ BufferInv'
  BY DEF CreateLayout, At, Holding, Transferring, LockInv, BufferInv, device
<1>3. LockInv' /\ InUse = {} /\ InUse' = {}
  BY <1>1, <1>2, MovesOut, ThreadFacts DEF CreateLayout
<1> QED
  BY <1>3, DeviceSame DEF CreateLayout, device, Keeps

(* One lemma for the steps that touch neither.                             *)

LEMMA AsideKeeps ==
    ASSUME TypeOK, LockInv, NEW t \in Threads, UNCHANGED <<mutex, device>>,
           pc[t] \notin Holding, \E label : label \notin Holding /\ Goto(t, label)
    PROVE  Keeps
<1>1. PICK label : label \notin Holding /\ Goto(t, label)
  OBVIOUS
<1> QED
  BY <1>1, MovesOutside DEF Keeps

LEMMA ClientKeeps ==
    ASSUME TypeOK, LockInv, NEW s \in Services, Call(s) \/ Reject(s)
    PROVE  Keeps
<1>1. Entry(s) \notin Holding /\ "idle" \notin Holding
  BY DEF Entry, Holding
<1>2. CASE Call(s)
  BY <1>1, <1>2, AsideKeeps, ThreadFacts DEF Call, At
<1>3. CASE Reject(s)
  BY <1>1, <1>3, FailLabel, AsideKeeps, ThreadFacts DEF Reject, At
<1> QED
  BY <1>2, <1>3

LEMMA DestroyCheckKeeps ==
    ASSUME TypeOK, LockInv, NEW s \in Services, BufferPresent(s) \/ DestroyCheck(s)
    PROVE  Keeps
<1>1. CASE BufferPresent(s)
  <2>1. pc[s] \notin Holding /\ (Goto(s, "destroy") \/ Goto(s, "idle"))
    BY <1>1, FailLabel DEF BufferPresent, At, Holding
  <2> QED
    BY <1>1, <2>1, AsideKeeps, ThreadFacts DEF BufferPresent, Holding
<1>2. CASE DestroyCheck(s)
  <2>1. \E label \in {"destroy_lock", "idle", "set_samples"} : Goto(s, label)
    BY <1>2, AfterDestroyLabel DEF DestroyCheck
  <2>2. pc[s] \notin Holding /\ UNCHANGED <<mutex, device>>
    BY <1>2 DEF DestroyCheck, At, Holding
  <2> QED
    BY <2>1, <2>2, AsideKeeps, ThreadFacts DEF Holding
<1> QED
  BY <1>1, <1>2

LEMMA SetKeeps ==
    ASSUME TypeOK, LockInv, NEW s \in Services, SetSamples(s) \/ SetChannels(s)
    PROVE  Keeps
<1>1. CASE SetSamples(s)
  BY <1>1, AsideKeeps, ThreadFacts DEF SetSamples, At, Holding
<1>2. CASE SetChannels(s) /\ Goto(s, "create_lock") /\ UNCHANGED <<mutex, device>>
  BY <1>2, AsideKeeps, ThreadFacts DEF SetChannels, At, Holding
<1>3. CASE Crash("channels_race")
  BY <1>3, CrashKeeps DEF Keeps
<1> QED
  BY <1>1, <1>2, <1>3 DEF SetChannels

LEMMA AnswerKeeps ==
    ASSUME TypeOK, LockInv, NEW s \in Services,
           Streaming(s) \/ DataReference(s) \/ CopyResponse(s)
    PROVE  Keeps
<1>1. CASE Streaming(s)
  BY <1>1, AsideKeeps, ThreadFacts DEF Streaming, At, Holding
<1>2. CASE DataReference(s)
  BY <1>2, AsideKeeps, ThreadFacts DEF DataReference, At, Holding
<1>3. CASE CopyResponse(s)
  BY <1>3, AsideKeeps, ThreadFacts DEF CopyResponse, Respond, At, Holding
<1> QED
  BY <1>1, <1>2, <1>3

LEMMA EnableKeeps ==
    ASSUME TypeOK, LockInv, NEW s \in Services,
           EnableFlag(s) \/ EnableRun(s) \/ EnableRate(s) \/ EnablePub(s)
    PROVE  Keeps
<1>1. pc[s] \notin Holding /\ UNCHANGED <<mutex, device>>
  BY DEF EnableFlag, EnableRun, EnableRate, EnablePub, At, Holding
<1>2. \E label \in {"enable_run", "enable_rate", "enable_pub", "enable_thread"} : Goto(s, label)
  BY DEF EnableFlag, EnableRun, EnableRate, EnablePub
<1> QED
  BY <1>1, <1>2, AsideKeeps, ThreadFacts DEF Holding

(* Starting the thread and joining it move two program counters.           *)
LEMMA ThreadKeeps ==
    ASSUME TypeOK, LockInv, NEW s \in Services, EnableThread(s) \/ DisableJoin(s)
    PROVE  Keeps
<1>1. CASE Crash("terminate")
  BY <1>1, CrashKeeps DEF Keeps
<1>2. CASE EnableThread(s) /\ pc[Loop] = "none"
           /\ pc' = [pc EXCEPT ![s] = "idle", ![Loop] = "check"] /\ UNCHANGED <<mutex, device>>
  <2>1. \A t \in Threads : pc'[t] # pc[t] => pc[t] \notin Holding /\ pc'[t] \notin Holding
    BY <1>2 DEF EnableThread, At, Holding, TypeOK, PcOK
  <2> QED
    BY <1>2, <2>1, StaysOutside DEF Keeps
<1>3. CASE DisableJoin(s)
  <2>1. \A t \in Threads : pc'[t] # pc[t] => pc[t] \notin Holding /\ pc'[t] \notin Holding
    BY <1>3 DEF DisableJoin, At, Holding, TypeOK, PcOK
  <2> QED
    BY <1>3, <2>1, StaysOutside DEF DisableJoin, Keeps
<1> QED
  BY <1>1, <1>2, <1>3 DEF EnableThread

LEMMA DisableKeeps ==
    ASSUME TypeOK, LockInv, NEW s \in Services,
           DisableFlag(s) \/ DisableStop(s) \/ DisablePub(s)
    PROVE  Keeps
<1>1. pc[s] \notin Holding /\ UNCHANGED <<mutex, device>>
  BY DEF DisableFlag, DisableStop, DisablePub, At, Holding
<1>2. \E label \in {"disable_stop", "disable_join", "idle"} : Goto(s, label)
  BY DEF DisableFlag, DisableStop, DisablePub, Respond
<1> QED
  BY <1>1, <1>2, AsideKeeps, ThreadFacts DEF Holding

LEMMA LoopKeeps ==
    ASSUME TypeOK, LockInv, LoopCheck \/ LoopPublish \/ LoopSleep
    PROVE  Keeps
<1>1. CASE Crash("null_publisher") \/ Crash("null_rate")
  BY <1>1, CrashKeeps DEF Keeps
<1>2. CASE /\ pc[Loop] \in {"check", "publish", "sleep"}
           /\ \E label \in {"refill_lock", "finished", "sleep", "check"} : Goto(Loop, label)
           /\ UNCHANGED <<mutex, device>>
  BY <1>2, AsideKeeps, ThreadFacts DEF Holding
<1> QED
  BY <1>1, <1>2 DEF LoopCheck, LoopPublish, LoopSleep, At

LEMMA NextKeeps == TypeOK /\ LockInv /\ [Next]_vars => Keeps
<1> SUFFICES ASSUME TypeOK, LockInv, [Next]_vars PROVE Keeps
  OBVIOUS
<1>1. ASSUME NEW s \in Services, Call(s) \/ Reject(s) PROVE Keeps
  BY <1>1, ClientKeeps
<1>2. ASSUME NEW t \in Threads, Acquire(t) PROVE Keeps
  BY <1>2, RefillLockKeeps, DestroyLockedKeeps, CreateLockKeeps, PushLockKeeps, AnswerKeeps
  DEF Acquire
<1>3. ASSUME NEW t \in Threads, Transfer(t) PROVE Keeps
  BY <1>3, RefillHwKeeps, PushKeeps DEF Transfer
<1>4. ASSUME NEW s \in Services, Handler(s) PROVE Keeps
  BY <1>4, DestroyCheckKeeps, SetKeeps, CreateOpenKeeps, CreateLayoutKeeps, AnswerKeeps,
     EnableKeeps, ThreadKeeps, DisableKeeps DEF Handler
<1>5. ASSUME NEW t \in Threads, Proceed(t) PROVE Keeps
  BY <1>4, <1>5, RefillCopyKeeps, LoopKeeps DEF Proceed
<1>6. CASE Shutdown \/ UNCHANGED vars
  BY <1>6, StaysOutside DEF Shutdown, vars, Keeps
<1> QED
  BY <1>1, <1>2, <1>3, <1>5, <1>6 DEF Next

LEMMA InitLockInv == Init => LockInv /\ Device!Init
<1> SUFFICES ASSUME Init PROVE LockInv /\ Device!Init
  OBVIOUS
<1>1. \A t \in Threads : pc[t] \notin Holding
  BY DEF Init, Holding
<1>2. LockInv
  BY <1>1, ThreadFacts, TransferringHolds DEF Init, LockInv, OwnerInv, BufferInv, UserInv
<1>3. Device!Init
  BY DEF Init, Device!Init, HandleState, InUse
<1> QED
  BY <1>2, <1>3

(* However clients interleave their calls, m_mutex is held by the thread   *)
(* inside a critical section and no other, m_buffer is null or an open     *)
(* buffer that is not cancelled, and it is not null under a thread that    *)
(* transfers (iio_buffer.cpp: every use of m_buffer behind lock_guard).    *)
THEOREM LockSafety == Spec => []LockInv
<1>1. Init => LockInv
  BY InitLockInv
<1>2. TypeOK /\ LockInv /\ [Next]_vars => LockInv'
  BY NextKeeps DEF Keeps
<1> QED
  BY <1>1, <1>2, TypeCorrect, PTL DEF Spec

(* The object implements the protocol of LibIIODevice: buffers are created *)
(* once, serve one transfer at a time, and are destroyed idle.             *)
THEOREM ImplementsLibIIO == Spec => UsesLibIIO
<1>1. Init => Device!Init
  BY InitLockInv
<1>2. TypeOK /\ LockInv /\ [Next]_vars => [Device!Next]_HandleState
  BY NextKeeps DEF Keeps
<1> QED
  BY <1>1, <1>2, TypeCorrect, LockSafety, PTL DEF Spec, UsesLibIIO, Device!Spec

=============================================================================
