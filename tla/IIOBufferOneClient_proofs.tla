--------------------- MODULE IIOBufferOneClient_proofs ----------------------
(***************************************************************************)
(* What holds of IIOBuffer for one client that waits for its answers and   *)
(* stops the stream before it reconfigures (OneClient): no call sequence   *)
(* ends the process, no libiio buffer is lost, and what BufferRead,        *)
(* BufferRefill and the topic deliver is one whole refill.                 *)
(***************************************************************************)
EXTENDS IIOBuffer_proofs

Configurers == {"BufferRead", "BufferWrite", "BufferCreate"}
Building    == {"set_samples", "set_channels", "create_lock", "create_open"}
Refilling   == {"refill_lock", "refill_hw", "refill_copy"}
Answering   == {"data", "respond"}
Making      == {"idle", "destroy", "destroy_lock", "create_layout"} \cup Building
Configured  == {"create_lock", "create_open", "create_layout", "push_lock", "push"}
               \cup Refilling \cup Answering

(* Where a service can stand.                                              *)
PlaceInv ==
    /\ pc["BufferRefill"] \in {"idle", "streaming"} \cup Refilling \cup Answering
    /\ pc["BufferRead"] \in Making \cup Refilling \cup Answering
    /\ pc["BufferWrite"] \in Making \cup {"push_lock", "push"}
    /\ pc["BufferCreate"] \in Making \cup Answering
    /\ pc["BufferDestroy"] \in {"idle", "buffer", "destroy", "destroy_lock"}
    /\ pc["BufferEnableTopic"] \in {"idle", "enable_flag", "enable_run", "enable_rate",
                                    "enable_pub", "enable_thread"}
    /\ pc["BufferDisableTopic"] \in {"idle", "disable_flag", "disable_stop", "disable_join",
                                     "disable_pub"}

(* Who is in flight together, and beside the streaming thread.             *)
AloneInv ==
    \A s, t \in Services :
        s # t /\ pc[s] # "idle" /\ pc[t] # "idle" => {s, t} = {"BufferRefill", "BufferDestroy"}

QuietInv ==
    pc[Loop] # "none" => \A s \in Reconfigures \cup {"BufferEnableTopic"} : pc[s] = "idle"

(* TopicMatchesThread, and what holds in the middle of the two calls.      *)
TopicInv ==
    LET enable  == pc["BufferEnableTopic"]
        disable == pc["BufferDisableTopic"]
    IN  /\ enable \in {"idle", "enable_flag"} /\ disable \in {"idle", "disable_flag"} =>
              (mTopicEnabled <=> pc[Loop] # "none") /\ (mTopicEnabled <=> mPub)
        /\ enable \in {"enable_run", "enable_rate", "enable_pub", "enable_thread"} => mTopicEnabled
        /\ enable \in {"enable_pub", "enable_thread"} => mLoopRate
        /\ enable = "enable_thread" => mPub
        /\ disable \in {"disable_stop", "disable_join", "disable_pub"} => ~mTopicEnabled
        /\ disable = "disable_pub" => pc[Loop] = "none"
        /\ pc[Loop] # "none" => mLoopRate /\ mPub
        /\ pc["BufferRefill"] \in Refilling => ~mTopicEnabled

(* The open buffer is the one of the configuration, and its channels are   *)
(* there for refill, which looks plain names up among the inputs.          *)
OpenInv ==
    mBuffer # NULL =>
        /\ opened[mBuffer].samples = mSamples
        /\ opened[mBuffer].channels = mChannels
        /\ \A i \in DOMAIN mChannels :
              /\ Exists(mChannels[i], opened[mBuffer].output)
              /\ opened[mBuffer].output => mChannels[i].extended

(* A buffer is destroyed before the configuration changes.                 *)
OrderInv ==
    /\ NoLeak
    /\ OpenInv
    /\ \A s \in Services : pc[s] = "destroy_lock" => mBuffer # NULL
    /\ \A s \in Services : pc[s] \in Building => mBuffer = NULL

RequestInv ==
    \A s \in Configurers :
        /\ pc[s] # "idle" => request[s] \in Requests(s)
        /\ pc[s] \in Configured \cup {"set_channels"} => mSamples = request[s].samples
        /\ pc[s] \in Configured => mChannels = request[s].channels

(* m_data between the refill and its delivery.                             *)
Whole == mData.kind = "whole" /\ mData.layout = <<mData.samples, Len(mData.channels)>>

DataInv ==
    /\ mBuffer # NULL /\ (\A s \in Services : pc[s] # "create_layout") =>
          mData.layout = <<mSamples, Len(mChannels)>>
    /\ pc["BufferRead"] \in Answering =>
          "BufferRead" \in acquired /\ Whole /\ mData.samples = mSamples /\ mData.channels = mChannels
    /\ pc["BufferRefill"] \in Answering /\ ~mTopicEnabled => "BufferRefill" \in acquired /\ Whole
    /\ pc[Loop] = "publish" => Whole

ClientInv ==
    /\ OneClient
    /\ NoCrash
    /\ PlaceInv
    /\ AloneInv
    /\ QuietInv
    /\ TopicInv
    /\ OrderInv
    /\ RequestInv
    /\ DataInv
    /\ ReadDelivers

(* What else is known of every state.                                      *)
Known == TypeOK /\ LockInv /\ ClientInv

------------------------------------------------------------------------------
(* Who can be in flight beside a service, and beside the thread.           *)

LEMMA Companions ==
    ASSUME AloneInv, QuietInv
    PROVE  /\ \A s \in Configurers \cup {"BufferEnableTopic"} : pc[s] # "idle" =>
                 pc[Loop] = "none" /\ \A u \in Services \ {s} : pc[u] = "idle"
           /\ pc["BufferDestroy"] # "idle" =>
                 /\ pc[Loop] = "none"
                 /\ \A u \in Services \ {"BufferDestroy", "BufferRefill"} : pc[u] = "idle"
           /\ pc["BufferRefill"] # "idle" =>
                 \A u \in Services \ {"BufferDestroy", "BufferRefill"} : pc[u] = "idle"
           /\ pc["BufferDisableTopic"] # "idle" =>
                 \A u \in Services \ {"BufferDisableTopic"} : pc[u] = "idle"
           /\ pc[Loop] # "none" =>
                 \A u \in Services \ {"BufferRefill", "BufferDisableTopic"} : pc[u] = "idle"
<1>1. ASSUME NEW s \in Services, NEW u \in Services, s # u, pc[s] # "idle", pc[u] # "idle"
      PROVE  s \in {"BufferRefill", "BufferDestroy"} /\ u \in {"BufferRefill", "BufferDestroy"}
  <2>1. {s, u} = {"BufferRefill", "BufferDestroy"}
    BY <1>1 DEF AloneInv
  <2> QED
    BY <2>1
<1>2. \A s \in Configurers \cup {"BufferEnableTopic"} : pc[s] # "idle" =>
          pc[Loop] = "none" /\ \A u \in Services \ {s} : pc[u] = "idle"
  BY <1>1 DEF Configurers, Services, QuietInv, Reconfigures
<1>3. pc["BufferDestroy"] # "idle" =>
          /\ pc[Loop] = "none"
          /\ \A u \in Services \ {"BufferDestroy", "BufferRefill"} : pc[u] = "idle"
  BY <1>1 DEF Services, QuietInv, Reconfigures
<1>4. pc["BufferRefill"] # "idle" =>
          \A u \in Services \ {"BufferDestroy", "BufferRefill"} : pc[u] = "idle"
  BY <1>1 DEF Services
<1>5. pc["BufferDisableTopic"] # "idle" =>
          \A u \in Services \ {"BufferDisableTopic"} : pc[u] = "idle"
  BY <1>1 DEF Services
<1>6. pc[Loop] # "none" =>
          \A u \in Services \ {"BufferRefill", "BufferDisableTopic"} : pc[u] = "idle"
  BY DEF Services, QuietInv, Reconfigures
<1> QED
  BY <1>2, <1>3, <1>4, <1>5, <1>6

(* A part of the invariant that a step leaves alone.                       *)

LEMMA StillAlone ==
    ASSUME AloneInv, QuietInv,
           \A s \in Services : pc'[s] # "idle" => pc[s] # "idle",
           pc'[Loop] # "none" => pc[Loop] # "none"
    PROVE  AloneInv' /\ QuietInv'
<1>1. AloneInv'
  BY DEF AloneInv
<1>2. QuietInv'
  BY DEF QuietInv, Reconfigures, Services
<1> QED
  BY <1>1, <1>2

LEMMA StillStreaming ==
    ASSUME TopicInv, UNCHANGED topic,
           \/ UNCHANGED pc["BufferEnableTopic"]
           \/ {pc["BufferEnableTopic"], pc'["BufferEnableTopic"]} \subseteq {"idle", "enable_flag"},
           \/ UNCHANGED pc["BufferDisableTopic"]
           \/ {pc["BufferDisableTopic"], pc'["BufferDisableTopic"]} \subseteq {"idle", "disable_flag"},
           pc'[Loop] # "none" <=> pc[Loop] # "none",
           pc'["BufferRefill"] \in Refilling => ~mTopicEnabled
    PROVE  TopicInv'
<1> DEFINE enable == pc["BufferEnableTopic"]
           disable == pc["BufferDisableTopic"]
<1>1. /\ enable' \in {"idle", "enable_flag"} <=> enable \in {"idle", "enable_flag"}
      /\ enable' \notin {"idle", "enable_flag"} => enable' = enable
  BY DEF Refilling
<1>2. /\ disable' \in {"idle", "disable_flag"} <=> disable \in {"idle", "disable_flag"}
      /\ disable' \notin {"idle", "disable_flag"} => disable' = disable
  BY DEF Refilling
<1> QED
  BY <1>1, <1>2 DEF TopicInv, topic

LEMMA StillOrdered ==
    ASSUME OrderInv, UNCHANGED <<mBuffer, live, opened, config>>,
           \A s \in Services : pc'[s] = "destroy_lock" => mBuffer # NULL,
           \A s \in Services : pc'[s] \in Building => mBuffer = NULL
    PROVE  OrderInv'
  BY DEF OrderInv, OpenInv, NoLeak, config

LEMMA StillRequested ==
    ASSUME RequestInv, UNCHANGED config,
           \A s \in Configurers :
              /\ pc'[s] # "idle" => pc[s] # "idle" /\ request'[s] = request[s]
              /\ pc'[s] = "set_channels" => pc[s] = "set_channels"
              /\ pc'[s] \in Configured => pc[s] \in Configured
    PROVE  RequestInv'
<1> SUFFICES ASSUME NEW s \in Configurers
             PROVE  /\ pc'[s] # "idle" => request'[s] \in Requests(s)
                    /\ pc'[s] \in Configured \cup {"set_channels"} => mSamples' = request'[s].samples
                    /\ pc'[s] \in Configured => mChannels' = request'[s].channels
  BY DEF RequestInv, Requests
<1>1. pc'[s] \in Configured \cup {"set_channels"} => pc'[s] # "idle"
  BY DEF Configured, Refilling, Answering
<1> QED
  BY <1>1 DEF RequestInv, config

LEMMA StillWhole ==
    ASSUME DataInv, UNCHANGED <<mBuffer, config, mData, topic>>,
           \A s \in Services : pc[s] = "create_layout" => pc'[s] = "create_layout",
           pc'["BufferRead"] \in Answering =>
              pc["BufferRead"] \in Answering /\ ("BufferRead" \in acquired => "BufferRead" \in acquired'),
           pc'["BufferRefill"] \in Answering /\ ~mTopicEnabled =>
              /\ pc["BufferRefill"] \in Answering
              /\ "BufferRefill" \in acquired => "BufferRefill" \in acquired',
           pc'[Loop] = "publish" => pc[Loop] = "publish"
    PROVE  DataInv'
<1>1. Whole' <=> Whole
  BY DEF Whole
<1>2. UNCHANGED <<mSamples, mChannels, mTopicEnabled>>
  BY DEF config, topic
<1> QED
  BY <1>1, <1>2 DEF DataInv

------------------------------------------------------------------------------
(* Steps that share a shape: a service ends and leaves the object alone; a *)
(* thread moves on and leaves object, request and answer alone.            *)

LEMMA AnswerEffect ==
    ASSUME TypeOK, NEW s \in Services, NEW ok, NEW text, NEW data, Answer(s, ok, text, data)
    PROVE  /\ reply'.to = s /\ reply'.ok = ok /\ reply'.data = data
           /\ reply'.request = request[s] /\ reply'.fresh = (s \in acquired)
           /\ \A u \in Services \ {s} : request'[u] = request[u]
           /\ \A u \in Services \ {s} : u \in acquired <=> u \in acquired'
  BY DEF TypeOK, CallsOK, Answer

LEMMA ServiceAnswers ==
    ASSUME Known, NEW s \in Services, NEW ok, NEW text, NEW data, Respond(s, ok, text, data),
           UNCHANGED <<mBuffer, live, opened, config, mData, topic, crash>>,
           pc[s] # "create_layout",
           s \in {"BufferEnableTopic", "BufferDisableTopic"} => pc[s] = "idle",
           ReadDelivers'
    PROVE  ClientInv'
<1>1. /\ pc'[s] = "idle" /\ \A u \in Threads \ {s} : pc'[u] = pc[u]
      /\ reply'.to = s /\ reply'.ok = ok
      /\ \A u \in Services \ {s} : request'[u] = request[u]
      /\ \A u \in Services \ {s} : u \in acquired <=> u \in acquired'
  BY GotoPc, AnswerEffect, ThreadFacts DEF Known, TypeOK, Respond
<1>2. /\ \A u \in Services \ {s} : pc'[u] = pc[u]
      /\ pc'[Loop] = pc[Loop]
  BY <1>1, ThreadFacts
<1>3. OneClient' /\ NoCrash'
  BY DEF Known, ClientInv, OneClient, NoCrash
<1>4. PlaceInv'
  BY <1>1, <1>2 DEF Known, ClientInv, PlaceInv, Making, Services
<1>5. AloneInv' /\ QuietInv'
  BY <1>1, <1>2, StillAlone DEF Known, ClientInv
<1>6. TopicInv'
  <2>1. pc'["BufferEnableTopic"] = pc["BufferEnableTopic"]
        /\ pc'["BufferDisableTopic"] = pc["BufferDisableTopic"]
    BY <1>1, <1>2 DEF Services
  <2>2. pc'["BufferRefill"] \in Refilling => ~mTopicEnabled
    BY <1>1, <1>2 DEF Known, ClientInv, TopicInv, Services, Refilling
  <2> QED
    BY <1>2, <2>1, <2>2, StillStreaming DEF Known, ClientInv
<1>7. OrderInv'
  BY <1>1, <1>2, StillOrdered DEF Known, ClientInv, OrderInv, Building
<1>8. RequestInv'
  BY <1>1, <1>2, StillRequested
  DEF Known, ClientInv, Configurers, Configured, Refilling, Answering, Services
<1>9. DataInv'
  BY <1>1, <1>2, StillWhole DEF Known, ClientInv, Answering, Services
<1> QED
  BY <1>3, <1>4, <1>5, <1>6, <1>7, <1>8, <1>9 DEF ClientInv

LEMMA ServiceEnds ==
    ASSUME Known, NEW s \in Services, NEW ok, NEW text, NEW data, Respond(s, ok, text, data),
           UNCHANGED <<mBuffer, live, opened, config, mData, topic, crash>>,
           pc[s] # "create_layout",
           s \in {"BufferEnableTopic", "BufferDisableTopic"} => pc[s] = "idle",
           ~ok \/ s # "BufferRead"
    PROVE  ClientInv'
<1>1. reply'.to = s /\ reply'.ok = ok
  BY AnswerEffect DEF Known, Respond
<1>2. ReadDelivers'
  BY <1>1 DEF ReadDelivers
<1> QED
  BY <1>2, ServiceAnswers

LEMMA ServiceFails ==
    ASSUME Known, NEW s \in Services, NEW text, Fail(s, text),
           UNCHANGED <<mBuffer, live, opened, config, mData, topic, crash>>,
           pc[s] # "create_layout",
           s \in {"BufferEnableTopic", "BufferDisableTopic"} => pc[s] = "idle"
    PROVE  ClientInv'
  BY ServiceEnds DEF Fail

LEMMA ServiceMoves ==
    ASSUME Known, NEW s \in Services, NEW label, Goto(s, label),
           UNCHANGED <<mBuffer, live, opened, config, mData, topic, request, reply, acquired, crash>>,
           PlaceInv', pc[s] \notin {"idle", "create_layout"},
           s \notin {"BufferEnableTopic", "BufferDisableTopic"},
           label = "destroy_lock" => mBuffer # NULL,
           label \in Building => mBuffer = NULL,
           s \in Configurers => label # "set_channels",
           s \in Configurers => (label \in Configured => pc[s] \in Configured),
           s = "BufferRead" => (label \in Answering => pc[s] \in Answering),
           s = "BufferRefill" => /\ label \in Refilling => ~mTopicEnabled
                                 /\ label \in Answering => pc[s] \in Answering \/ mTopicEnabled
    PROVE  ClientInv'
<1>1. pc'[s] = label /\ \A u \in Threads \ {s} : pc'[u] = pc[u]
  BY GotoPc, ThreadFacts DEF Known, TypeOK
<1>2. /\ \A u \in Services \ {s} : pc'[u] = pc[u]
      /\ pc'[Loop] = pc[Loop]
  BY <1>1, ThreadFacts
<1>3. OneClient' /\ NoCrash' /\ ReadDelivers'
  BY DEF Known, ClientInv, OneClient, NoCrash, ReadDelivers
<1>4. AloneInv' /\ QuietInv'
  BY <1>1, <1>2, StillAlone DEF Known, ClientInv
<1>5. TopicInv'
  <2>1. pc'["BufferEnableTopic"] = pc["BufferEnableTopic"]
        /\ pc'["BufferDisableTopic"] = pc["BufferDisableTopic"]
    BY <1>1, <1>2 DEF Services
  <2>2. pc'["BufferRefill"] \in Refilling => ~mTopicEnabled
    BY <1>1, <1>2 DEF Known, ClientInv, TopicInv, Services
  <2> QED
    BY <1>2, <2>1, <2>2, StillStreaming DEF Known, ClientInv
<1>6. OrderInv'
  BY <1>1, <1>2, StillOrdered DEF Known, ClientInv, OrderInv
<1>7. RequestInv'
  <2>1. s \in Configurers => (pc'[s] = "set_channels" => pc[s] = "set_channels")
    BY <1>1
  <2> QED
    BY <1>1, <1>2, <2>1, StillRequested DEF Known, ClientInv, Configurers, Services
<1>8. DataInv'
  BY <1>1, <1>2, StillWhole DEF Known, ClientInv, Services
<1> QED
  BY <1>3, <1>4, <1>5, <1>6, <1>7, <1>8 DEF ClientInv

LEMMA ThreadMoves ==
    ASSUME Known, NEW label, Goto(Loop, label), label \notin {"none", "publish"},
           pc[Loop] # "none",
           UNCHANGED <<mBuffer, live, opened, config, mData, topic, request, reply, acquired, crash>>
    PROVE  ClientInv'
<1>1. pc'[Loop] = label /\ \A u \in Services : pc'[u] = pc[u]
  BY GotoPc, ThreadFacts DEF Known, TypeOK
<1>2. OneClient' /\ NoCrash' /\ ReadDelivers'
  BY DEF Known, ClientInv, OneClient, NoCrash, ReadDelivers
<1>3. PlaceInv'
  BY <1>1 DEF Known, ClientInv, PlaceInv, Services
<1>4. AloneInv' /\ QuietInv'
  BY <1>1, StillAlone DEF Known, ClientInv
<1>5. TopicInv'
  BY <1>1, StillStreaming DEF Known, ClientInv, TopicInv, Services
<1>6. OrderInv'
  BY <1>1, StillOrdered DEF Known, ClientInv, OrderInv
<1>7. RequestInv'
  BY <1>1, StillRequested DEF Known, ClientInv, Configurers, Services
<1>8. DataInv'
  BY <1>1, StillWhole DEF Known, ClientInv, Services
<1> QED
  BY <1>2, <1>3, <1>4, <1>5, <1>6, <1>7, <1>8 DEF ClientInv

------------------------------------------------------------------------------
(* The client and destroyIIOBuffer *)

LEMMA CallOrderly ==
    ASSUME Known, NEW s \in Services, Call(s)
    PROVE  ClientInv'
<1>1. /\ pc[s] = "idle" /\ pc'[s] = Entry(s)
      /\ \A u \in Services \ {s} : pc'[u] = pc[u]
      /\ pc'[Loop] = pc[Loop]
  BY GotoPc, ThreadFacts DEF Known, TypeOK, Call, At
<1>2. /\ \A u \in Services : pc[u] # "idle" => {s, u} = {"BufferRefill", "BufferDestroy"}
      /\ s \in Reconfigures \cup {"BufferEnableTopic"} => pc[Loop] = "none"
  BY DEF Known, ClientInv, OneClient, Call, MayCall, InFlight
<1>3. Entry(s) \in {"streaming", "buffer", "destroy", "enable_flag", "disable_flag"}
  BY DEF Entry
<1>4. /\ request'[s] \in Requests(s)
      /\ \A u \in Services \ {s} : request'[u] = request[u]
  BY DEF Known, TypeOK, CallsOK, Call
<1>5. OneClient' /\ NoCrash'
  BY DEF Known, ClientInv, OneClient, NoCrash, Call, world
<1>6. PlaceInv'
  BY <1>1 DEF Known, ClientInv, PlaceInv, Making, Services, Entry
<1>7. AloneInv'
  <2> SUFFICES ASSUME NEW u \in Services, NEW v \in Services, u # v,
                      pc'[u] # "idle", pc'[v] # "idle"
               PROVE  {u, v} = {"BufferRefill", "BufferDestroy"}
    BY DEF AloneInv
  <2>1. CASE u # s /\ v # s
    BY <1>1, <2>1 DEF Known, ClientInv, AloneInv
  <2>2. CASE u = s
    BY <1>1, <1>2, <2>2
  <2>3. CASE v = s
    BY <1>1, <1>2, <2>3
  <2> QED
    BY <2>1, <2>2, <2>3
<1>8. QuietInv'
  BY <1>1, <1>2 DEF Known, ClientInv, QuietInv, Reconfigures, Services
<1>9. TopicInv'
  <2>1. pc'["BufferEnableTopic"] = pc["BufferEnableTopic"]
        \/ {pc["BufferEnableTopic"], pc'["BufferEnableTopic"]} \subseteq {"idle", "enable_flag"}
    BY <1>1 DEF Entry, Services
  <2>2. pc'["BufferDisableTopic"] = pc["BufferDisableTopic"]
        \/ {pc["BufferDisableTopic"], pc'["BufferDisableTopic"]} \subseteq {"idle", "disable_flag"}
    BY <1>1 DEF Entry, Services
  <2>3. pc'["BufferRefill"] \in Refilling => ~mTopicEnabled
    BY <1>1, <1>3 DEF Known, ClientInv, TopicInv, Refilling, Services
  <2> QED
    BY <1>1, <2>1, <2>2, <2>3, StillStreaming DEF Known, ClientInv, Call
<1>10. OrderInv'
  BY <1>1, <1>3, StillOrdered DEF Known, ClientInv, OrderInv, Building, Call, device
<1>11. RequestInv'
  <2> SUFFICES ASSUME NEW u \in Configurers
               PROVE  /\ pc'[u] # "idle" => request'[u] \in Requests(u)
                      /\ pc'[u] \in Configured \cup {"set_channels"} => mSamples' = request'[u].samples
                      /\ pc'[u] \in Configured => mChannels' = request'[u].channels
    BY DEF RequestInv, Requests
  <2>1. CASE u = s
    BY <1>1, <1>3, <1>4, <2>1 DEF Configured, Refilling, Answering
  <2>2. CASE u # s
    BY <1>1, <1>4, <2>2 DEF Known, ClientInv, RequestInv, Configured, Refilling, Answering, Configurers,
                            Services, Call, config
  <2> QED
    BY <2>1, <2>2
<1>12. DataInv'
  BY <1>1, <1>3, StillWhole DEF Known, ClientInv, Answering, Services, Call, device
<1>13. ReadDelivers'
  BY DEF ReadDelivers, Call, NoReply
<1> QED
  BY <1>5, <1>6, <1>7, <1>8, <1>9, <1>10, <1>11, <1>12, <1>13 DEF ClientInv

LEMMA RejectOrderly ==
    ASSUME Known, NEW s \in Services, Reject(s)
    PROVE  ClientInv'
  BY ServiceFails DEF Reject, At, device, world

LEMMA BufferPresentOrderly ==
    ASSUME Known, NEW s \in Services, BufferPresent(s)
    PROVE  ClientInv'
<1>1. s = "BufferDestroy" /\ pc[s] = "buffer"
  BY DEF Known, ClientInv, PlaceInv, BufferPresent, At, Services, Refilling, Answering, Making,
         Building
<1>2. CASE Goto(s, "destroy") /\ UNCHANGED calls
  <2>1. pc'[s] = "destroy" /\ \A u \in Services \ {s} : pc'[u] = pc[u]
    BY <1>2, GotoPc, ThreadFacts DEF Known, TypeOK
  <2>2. PlaceInv'
    BY <1>1, <2>1 DEF Known, ClientInv, PlaceInv, Services
  <2> QED
    BY <1>1, <1>2, <2>2, ServiceMoves
    DEF BufferPresent, device, world, calls, Configurers, Building
<1>3. CASE Fail(s, "error")
  BY <1>1, <1>3, ServiceFails DEF BufferPresent, device, world
<1> QED
  BY <1>2, <1>3 DEF BufferPresent

(* The services that destroy, by the labels of destroyIIOBuffer.           *)
LEMMA Destroyers ==
    ASSUME PlaceInv, NEW s \in Services, pc[s] \in {"destroy", "destroy_lock"}
    PROVE  s \in Reconfigures /\ s \in Configurers \cup {"BufferDestroy"}
  BY DEF PlaceInv, Services, Reconfigures, Configurers, Refilling, Answering, Making, Building

LEMMA DestroyCheckOrderly ==
    ASSUME Known, NEW s \in Services, DestroyCheck(s)
    PROVE  ClientInv'
<1>1. s \in Configurers \cup {"BufferDestroy"} /\ pc[s] = "destroy"
  BY Destroyers DEF Known, ClientInv, DestroyCheck, At
<1>2. ASSUME NEW label \in {"destroy_lock", "set_samples"}, Goto(s, label), UNCHANGED calls,
             label = "destroy_lock" => mBuffer # NULL,
             label = "set_samples" => mBuffer = NULL /\ s # "BufferDestroy"
      PROVE  ClientInv'
  <2>1. pc'[s] = label /\ \A u \in Services \ {s} : pc'[u] = pc[u]
    BY <1>2, GotoPc, ThreadFacts DEF Known, TypeOK
  <2>2. PlaceInv'
    BY <1>1, <1>2, <2>1
    DEF Known, ClientInv, PlaceInv, Services, Configurers, Making, Building
  <2>3. label \notin Configured /\ label \notin Answering
    BY <1>2 DEF Configured, Refilling, Answering
  <2>4. s \notin {"BufferRefill", "BufferEnableTopic", "BufferDisableTopic"}
    BY <1>1 DEF Configurers
  <2> QED
    BY <1>1, <1>2, <2>2, <2>3, <2>4, ServiceMoves
    DEF DestroyCheck, device, world, calls, Building
<1>3. CASE mBuffer # NULL /\ Goto(s, "destroy_lock") /\ UNCHANGED calls
  BY <1>2, <1>3
<1>4. CASE mBuffer = NULL /\ s # "BufferDestroy" /\ Goto(s, "set_samples") /\ UNCHANGED calls
  BY <1>2, <1>4
<1>5. CASE s = "BufferDestroy" /\ Respond(s, TRUE, "Success", NoData)
  BY <1>1, <1>5, ServiceEnds DEF DestroyCheck, device, world
<1> QED
  BY <1>3, <1>4, <1>5 DEF DestroyCheck, AfterDestroy

(* destroyIIOBuffer finds the buffer it saw: nobody else destroys.         *)
LEMMA DestroyLockedOrderly ==
    ASSUME Known, NEW s \in Services, DestroyLocked(s)
    PROVE  /\ ClientInv'
           /\ CloseBuffer /\ AfterDestroy(s) /\ live' = {}
<1>1. s \in Configurers \cup {"BufferDestroy"} /\ pc[s] = "destroy_lock"
  BY Destroyers DEF Known, ClientInv, DestroyLocked, At
<1>2. mBuffer # NULL
  BY <1>1 DEF Known, ClientInv, OrderInv
<1>3. CloseBuffer /\ AfterDestroy(s) /\ UNCHANGED <<mutex, config, mData, world>>
  BY <1>2 DEF DestroyLocked
<1>4. PICK label \in {"idle", "set_samples"} :
         /\ Goto(s, label)
         /\ label = "set_samples" => s # "BufferDestroy" /\ UNCHANGED calls
         /\ label = "idle" => s = "BufferDestroy" /\ Respond(s, TRUE, "Success", NoData)
  BY <1>3 DEF AfterDestroy, Respond
<1>5. pc'[s] = label /\ (\A u \in Services \ {s} : pc'[u] = pc[u]) /\ pc'[Loop] = pc[Loop]
  BY <1>4, GotoPc, ThreadFacts DEF Known, TypeOK
<1>6. /\ pc[Loop] = "none"
      /\ \A u \in Services \ {s, "BufferRefill"} : pc[u] = "idle"
  BY <1>1, Companions DEF Known, ClientInv
<1>7. live \subseteq {mBuffer} /\ live' = {} /\ mBuffer' = NULL
  BY <1>3 DEF Known, ClientInv, OrderInv, NoLeak, CloseBuffer
<1>8. /\ \A u \in Services \ {s} : request'[u] = request[u] /\ (u \in acquired <=> u \in acquired')
      /\ label = "set_samples" => UNCHANGED <<request, reply, acquired>>
      /\ label = "idle" => reply'.to = s
  BY <1>4, AnswerEffect DEF Known, Respond, calls
<1>9. OneClient' /\ NoCrash'
  BY <1>3 DEF Known, ClientInv, OneClient, NoCrash, world
<1>10. PlaceInv'
  BY <1>1, <1>4, <1>5
  DEF Known, ClientInv, PlaceInv, Services, Configurers, Making, Building
<1>11. AloneInv' /\ QuietInv'
  BY <1>1, <1>5, StillAlone DEF Known, ClientInv
<1>12. TopicInv'
  <2>1. UNCHANGED <<mTopicEnabled, mPub>>
    BY <1>3 DEF CloseBuffer
  <2>2. /\ \A u \in {"BufferEnableTopic", "BufferDisableTopic"} : pc[u] = "idle" /\ pc'[u] = "idle"
        /\ pc'["BufferRefill"] = pc["BufferRefill"]
    BY <1>1, <1>5, <1>6 DEF Services, Configurers
  <2> QED
    BY <1>5, <1>6, <2>1, <2>2 DEF Known, ClientInv, TopicInv
<1>13. OrderInv'
  <2>1. \A u \in Services : pc'[u] # "destroy_lock"
    BY <1>4, <1>5, <1>6, <1>1 DEF Known, ClientInv, PlaceInv, Refilling, Answering
  <2> QED
    BY <1>7, <2>1 DEF OrderInv, NoLeak, OpenInv
<1>14. RequestInv'
  <2>1. label \notin Configured
    BY <1>4 DEF Configured, Refilling, Answering
  <2> QED
    BY <1>1, <1>3, <1>4, <1>5, <1>8, <2>1, StillRequested DEF Known, ClientInv, Configurers, Services
<1>15. DataInv'
  <2>1. label \notin Answering /\ s # "BufferRefill"
    BY <1>1, <1>4 DEF Answering, Configurers
  <2>2. Whole' <=> Whole
    BY <1>3 DEF Whole
  <2>3. UNCHANGED <<config, mData, mTopicEnabled>>
    BY <1>3 DEF CloseBuffer
  <2> QED
    BY <1>5, <1>7, <1>8, <2>1, <2>2, <2>3 DEF Known, ClientInv, DataInv, config, Services
<1>16. ReadDelivers'
  BY <1>4, <1>8 DEF Known, ClientInv, ReadDelivers
<1> QED
  BY <1>3, <1>7, <1>9, <1>10, <1>11, <1>12, <1>13, <1>14, <1>15, <1>16 DEF ClientInv

------------------------------------------------------------------------------
(* The configuration and createIIOBuffer *)

LEMMA Builders ==
    ASSUME PlaceInv, NEW s \in Services, pc[s] \in Building \cup {"create_layout"}
    PROVE  s \in Configurers
  BY DEF PlaceInv, Services, Configurers, Refilling, Answering, Building

(* A builder has the object for itself.                                    *)
LEMMA BuildersAlone ==
    ASSUME Known, NEW s \in Services, pc[s] \in Building \cup {"create_layout"}
    PROVE  /\ s \in Configurers
           /\ pc[Loop] = "none" /\ \A u \in Services \ {s} : pc[u] = "idle"
           /\ pc[s] \in Building => mBuffer = NULL
<1>1. s \in Configurers /\ pc[s] # "idle"
  BY Builders DEF Known, ClientInv, Building
<1>2. pc[Loop] = "none" /\ \A u \in Services \ {s} : pc[u] = "idle"
  BY <1>1, Companions DEF Known, ClientInv
<1> QED
  BY <1>1, <1>2 DEF Known, ClientInv, OrderInv

(* What a builder's step leaves alone, whatever it does to the object.     *)
LEMMA BuilderMoves ==
    ASSUME Known, NEW s \in Services, pc[s] \in Building \cup {"create_layout"},
           NEW label, Goto(s, label), label \notin {"idle", "streaming"}, PlaceInv',
           UNCHANGED <<topic, request, reply, acquired, crash>>
    PROVE  /\ OneClient' /\ NoCrash' /\ PlaceInv' /\ AloneInv' /\ QuietInv' /\ TopicInv'
           /\ ReadDelivers'
           /\ pc'[s] = label /\ pc'[Loop] = "none"
           /\ \A u \in Services \ {s} : pc[u] = "idle" /\ pc'[u] = "idle"
<1>1. pc'[s] = label /\ \A u \in Threads \ {s} : pc'[u] = pc[u]
  BY GotoPc, ThreadFacts DEF Known, TypeOK
<1>2. s \in Configurers /\ pc[Loop] = "none" /\ \A u \in Services \ {s} : pc[u] = "idle"
  BY BuildersAlone
<1>3. pc'[Loop] = "none" /\ \A u \in Services \ {s} : pc'[u] = "idle"
  BY <1>1, <1>2, ThreadFacts
<1>4. OneClient' /\ NoCrash' /\ ReadDelivers'
  BY DEF Known, ClientInv, OneClient, NoCrash, ReadDelivers
<1>5. AloneInv' /\ QuietInv'
  <2>1. pc[s] # "idle"
    BY DEF Building
  <2> QED
    BY <1>1, <1>2, <1>3, <2>1, StillAlone DEF Known, ClientInv
<1>6. TopicInv'
  <2>1. s \notin {"BufferEnableTopic", "BufferDisableTopic", "BufferRefill"}
    BY <1>2 DEF Configurers
  <2> QED
    BY <1>2, <1>3, <2>1, StillStreaming DEF Known, ClientInv, Services, Refilling
<1> QED
  BY <1>1, <1>2, <1>3, <1>4, <1>5, <1>6

LEMMA SetSamplesOrderly ==
    ASSUME Known, NEW s \in Services, SetSamples(s)
    PROVE  ClientInv'
<1>1. pc[s] = "set_samples" /\ pc[s] \in Building /\ Goto(s, "set_channels")
  BY DEF SetSamples, At, Building
<1>2. s \in Configurers /\ mBuffer = NULL
  BY <1>1, BuildersAlone
<1>3. pc'[s] = "set_channels" /\ \A u \in Services \ {s} : pc'[u] = pc[u]
  BY <1>1, GotoPc, ThreadFacts DEF Known, TypeOK
<1>4. PlaceInv'
  BY <1>2, <1>3 DEF Known, ClientInv, PlaceInv, Services, Configurers, Making, Building
<1>5. /\ OneClient' /\ NoCrash' /\ AloneInv' /\ QuietInv' /\ TopicInv' /\ ReadDelivers'
      /\ pc'[Loop] = "none" /\ \A u \in Services \ {s} : pc[u] = "idle" /\ pc'[u] = "idle"
  BY <1>1, <1>4, BuilderMoves DEF SetSamples, calls, world
<1>6. mBuffer' = NULL /\ live' = live
  BY <1>2 DEF SetSamples, device
<1>7. OrderInv'
  BY <1>2, <1>3, <1>5, <1>6 DEF Known, ClientInv, OrderInv, NoLeak, OpenInv
<1>8. RequestInv'
  <2>1. "set_channels" \notin Configured
    BY DEF Configured, Refilling, Answering
  <2>2. "idle" \notin Configured
    BY DEF Configured, Refilling, Answering
  <2>3. Configurers \subseteq Services
    BY DEF Configurers, Services
  <2>4. request[s] \in Requests(s) /\ request' = request /\ mSamples' = request[s].samples
    BY <1>1, <1>2 DEF Known, ClientInv, RequestInv, SetSamples, calls
  <2> QED
    BY <1>3, <1>5, <2>1, <2>2, <2>3, <2>4 DEF RequestInv, Requests
<1>9. DataInv'
  <2>1. \A u \in Services : pc'[u] \notin Answering
    BY <1>3, <1>5 DEF Answering
  <2> QED
    BY <1>5, <1>6, <2>1 DEF DataInv, Services
<1> QED
  BY <1>4, <1>5, <1>7, <1>8, <1>9 DEF ClientInv

LEMMA SetChannelsOrderly ==
    ASSUME Known, NEW s \in Services, SetChannels(s)
    PROVE  ClientInv'
<1>1. pc[s] = "set_channels" /\ pc[s] \in Building
  BY DEF SetChannels, At, Building
<1>2. /\ s \in Configurers /\ mBuffer = NULL
      /\ pc[Loop] = "none" /\ \A u \in Services \ {s} : pc[u] = "idle"
  BY <1>1, BuildersAlone
<1>3. \A t \in Threads : ~WalksChannels(t)
  BY <1>1, <1>2, ThreadFacts DEF WalksChannels
<1>4. /\ mChannels' = request[s].channels
      /\ Goto(s, "create_lock")
      /\ UNCHANGED <<mutex, device, mSamples, mData, topic, calls, world>>
  BY <1>3 DEF SetChannels
<1>5. pc'[s] = "create_lock" /\ \A u \in Services \ {s} : pc'[u] = pc[u]
  BY <1>4, GotoPc, ThreadFacts DEF Known, TypeOK
<1>6. PlaceInv'
  BY <1>2, <1>5 DEF Known, ClientInv, PlaceInv, Services, Configurers, Making, Building
<1>7. /\ OneClient' /\ NoCrash' /\ AloneInv' /\ QuietInv' /\ TopicInv' /\ ReadDelivers'
      /\ pc'[Loop] = "none" /\ \A u \in Services \ {s} : pc[u] = "idle" /\ pc'[u] = "idle"
  BY <1>1, <1>4, <1>6, BuilderMoves DEF calls, world
<1>8. mBuffer' = NULL /\ live' = live
  BY <1>2, <1>4 DEF device
<1>9. OrderInv'
  BY <1>2, <1>5, <1>7, <1>8 DEF Known, ClientInv, OrderInv, NoLeak, OpenInv
<1>10. RequestInv'
  <2>1. "idle" \notin Configured
    BY DEF Configured, Refilling, Answering
  <2>2. Configurers \subseteq Services
    BY DEF Configurers, Services
  <2>3. /\ request[s] \in Requests(s) /\ request' = request
        /\ mSamples = request[s].samples /\ mSamples' = mSamples
    BY <1>1, <1>2, <1>4 DEF Known, ClientInv, RequestInv, calls
  <2> QED
    BY <1>4, <1>5, <1>7, <2>1, <2>2, <2>3 DEF RequestInv, Requests
<1>11. DataInv'
  <2>1. \A u \in Services : pc'[u] \notin Answering
    BY <1>5, <1>7 DEF Answering
  <2> QED
    BY <1>7, <1>8, <2>1 DEF DataInv, Services
<1> QED
  BY <1>6, <1>7, <1>9, <1>10, <1>11 DEF ClientInv

LEMMA CreateLockOrderly ==
    ASSUME Known, NEW s \in Services, CreateLock(s)
    PROVE  ClientInv'
<1>1. pc[s] = "create_lock" /\ pc[s] \in Building /\ Goto(s, "create_open")
  BY DEF CreateLock, At, Building
<1>2. s \in Configurers /\ mBuffer = NULL
  BY <1>1, BuildersAlone
<1>3. pc'[s] = "create_open" /\ \A u \in Services \ {s} : pc'[u] = pc[u]
  BY <1>1, GotoPc, ThreadFacts DEF Known, TypeOK
<1>4. PlaceInv'
  BY <1>2, <1>3 DEF Known, ClientInv, PlaceInv, Services, Configurers, Making, Building
<1>5. "create_open" \notin Answering /\ pc[s] \in Configured
  BY <1>1 DEF Answering, Configured
<1>6. s \notin {"BufferRefill", "BufferEnableTopic", "BufferDisableTopic"}
  BY <1>2 DEF Configurers
<1> QED
  BY <1>1, <1>2, <1>4, <1>5, <1>6, ServiceMoves DEF CreateLock, device, calls, world

LEMMA CreateOpenOrderly ==
    ASSUME Known, NEW s \in Services, CreateOpen(s)
    PROVE  ClientInv'
<1> DEFINE output == s = "BufferWrite"
<1>1. pc[s] = "create_open" /\ pc[s] \in Building
  BY DEF CreateOpen, At, Building
<1>2. /\ s \in Configurers /\ mBuffer = NULL
      /\ \A u \in Services \ {s} : pc[u] = "idle"
  BY <1>1, BuildersAlone
<1>3. s \notin {"BufferEnableTopic", "BufferDisableTopic"}
  BY <1>2 DEF Configurers
<1>4. CASE Fail(s, "error") /\ UNCHANGED <<mBuffer, live, opened>>
  BY <1>1, <1>3, <1>4, ServiceFails DEF CreateOpen, world
<1>5. ASSUME NEW h \in Handles \ live, Valid(mChannels, mSamples, output),
             mBuffer' = h, live' = live \cup {h},
             opened' = [opened EXCEPT ![h] = [samples |-> mSamples, channels |-> mChannels,
                                              output |-> output]],
             Goto(s, "create_layout"), UNCHANGED calls
      PROVE  ClientInv'
  <2>1. pc'[s] = "create_layout" /\ \A u \in Services \ {s} : pc'[u] = pc[u]
    BY <1>5, GotoPc, ThreadFacts DEF Known, TypeOK
  <2>2. PlaceInv'
    BY <1>2, <2>1 DEF Known, ClientInv, PlaceInv, Services, Configurers, Making, Building
  <2>3. /\ OneClient' /\ NoCrash' /\ AloneInv' /\ QuietInv' /\ TopicInv' /\ ReadDelivers'
        /\ pc'[Loop] = "none" /\ \A u \in Services \ {s} : pc[u] = "idle" /\ pc'[u] = "idle"
    BY <1>1, <1>5, <2>2, BuilderMoves DEF CreateOpen, calls, world
  <2>4. UNCHANGED <<config, mSamples, mChannels, mData, request>>
    BY <1>5 DEF CreateOpen, config, calls
  <2>5. /\ request[s] \in Requests(s) /\ mSamples = request[s].samples
        /\ mChannels = request[s].channels
    BY <1>1, <1>2 DEF Known, ClientInv, RequestInv, Configured
  <2>6. OrderInv'
    <3>1. live \subseteq {NULL} /\ live \subseteq Handles /\ NULL \notin Handles
      BY <1>2, ConstantsAssumption DEF Known, ClientInv, OrderInv, NoLeak, TypeOK, DeviceOK
    <3>2. NoLeak'
      BY <1>5, <3>1 DEF NoLeak
    <3>3. output => \A i \in DOMAIN mChannels : mChannels[i].extended
      BY <2>5 DEF Requests, Known, ClientInv, OneClient
    <3>4. opened'[h] = [samples |-> mSamples, channels |-> mChannels, output |-> output]
      BY <1>5 DEF Known, TypeOK, DeviceOK
    <3>5. OpenInv'
      <4>1. \A i \in DOMAIN mChannels : Exists(mChannels[i], output)
        BY <1>5 DEF Valid
      <4> HIDE DEF output
      <4>2. opened'[mBuffer'].output = output
        BY <1>5, <3>4
      <4>3. opened'[mBuffer'].samples = mSamples' /\ opened'[mBuffer'].channels = mChannels'
        BY <1>5, <2>4, <3>4
      <4>4. \A i \in DOMAIN mChannels' :
               /\ Exists(mChannels'[i], opened'[mBuffer'].output)
               /\ opened'[mBuffer'].output => mChannels'[i].extended
        BY <2>4, <3>3, <4>1, <4>2
      <4> QED
        BY <4>3, <4>4 DEF OpenInv
    <3>6. mBuffer' # NULL /\ \A u \in Services : pc'[u] \notin Building
      BY <1>5, <2>1, <2>3, <3>1 DEF Building
    <3> QED
      BY <2>1, <2>3, <3>2, <3>5, <3>6 DEF OrderInv
  <2>7. RequestInv'
    BY <1>1, <2>1, <2>3, <2>4, StillRequested
    DEF Known, ClientInv, Configured, Refilling, Answering, Configurers, Services
  <2>8. DataInv'
    BY <2>1, <2>3 DEF DataInv, Answering, Services
  <2> QED
    BY <2>2, <2>3, <2>6, <2>7, <2>8 DEF ClientInv
<1>6. NULL \notin Handles
  BY ConstantsAssumption
<1> QED
  BY <1>2, <1>4, <1>5, <1>6 DEF CreateOpen, OpenBuffer, device

LEMMA CreateLayoutOrderly ==
    ASSUME Known, NEW s \in Services, CreateLayout(s)
    PROVE  ClientInv'
<1>1. pc[s] = "create_layout" /\ Goto(s, AfterCreate(s))
  BY DEF CreateLayout, At
<1>2. s \in Configurers
  BY <1>1, BuildersAlone
<1>3. /\ AfterCreate(s) \in Configured \ (Building \cup {"idle", "streaming", "destroy_lock"})
      /\ AfterCreate(s) = "data" => s = "BufferCreate"
      /\ AfterCreate(s) \notin {"respond", "create_layout"}
  BY <1>2 DEF AfterCreate, Configured, Refilling, Answering, Building, Configurers
<1>4. pc'[s] = AfterCreate(s) /\ \A u \in Services \ {s} : pc'[u] = pc[u]
  BY <1>1, GotoPc, ThreadFacts DEF Known, TypeOK
<1>5. PlaceInv'
  BY <1>2, <1>4 DEF Known, ClientInv, PlaceInv, Services, Configurers, Refilling, Answering,
                    AfterCreate
<1>6. /\ OneClient' /\ NoCrash' /\ AloneInv' /\ QuietInv' /\ TopicInv' /\ ReadDelivers'
      /\ pc'[Loop] = "none" /\ \A u \in Services \ {s} : pc[u] = "idle" /\ pc'[u] = "idle"
  BY <1>1, <1>3, <1>5, BuilderMoves DEF CreateLayout, world
<1>7. OrderInv'
  BY <1>3, <1>4, <1>6, StillOrdered DEF Known, ClientInv, CreateLayout, device, Building
<1>8. RequestInv'
  <2>1. pc[s] \in Configured /\ AfterCreate(s) # "set_channels"
    BY <1>1, <1>3 DEF Configured, Building
  <2>2. "idle" \notin Configured /\ Configurers \subseteq Services /\ pc[s] # "idle"
    BY <1>1 DEF Configured, Refilling, Answering, Configurers, Services
  <2>3. \A u \in Configurers :
           /\ pc'[u] # "idle" => pc[u] # "idle" /\ request'[u] = request[u]
           /\ pc'[u] = "set_channels" => pc[u] = "set_channels"
           /\ pc'[u] \in Configured => pc[u] \in Configured
    BY <1>4, <1>6, <2>1, <2>2 DEF CreateLayout
  <2>4. UNCHANGED config
    BY DEF CreateLayout
  <2> QED
    BY <2>3, <2>4, StillRequested DEF Known, ClientInv
<1>9. DataInv'
  <2>1. mData'.layout = <<mSamples, Len(mChannels)>> /\ UNCHANGED <<mSamples, mChannels>>
    BY DEF CreateLayout, config, Known, TypeOK, Data
  <2>2. pc'["BufferRead"] \notin Answering /\ pc'["BufferRefill"] \notin Answering
    BY <1>2, <1>3, <1>4, <1>6 DEF Answering, Configurers, Services
  <2> QED
    BY <1>6, <2>1, <2>2 DEF DataInv
<1> QED
  BY <1>5, <1>6, <1>7, <1>8, <1>9 DEF ClientInv

------------------------------------------------------------------------------
(* refill *)

LEMMA StreamingOrderly ==
    ASSUME Known, NEW s \in Services, Streaming(s)
    PROVE  ClientInv'
<1>1. s = "BufferRefill" /\ pc[s] = "streaming"
  BY DEF Known, ClientInv, PlaceInv, Streaming, At, Services, Refilling, Answering, Making,
         Building
<1>2. PICK label \in {"data", "refill_lock"} :
         Goto(s, label) /\ (label = "data" <=> mTopicEnabled)
  BY DEF Streaming
<1>3. pc'[s] = label /\ \A u \in Services \ {s} : pc'[u] = pc[u]
  BY <1>2, GotoPc, ThreadFacts DEF Known, TypeOK
<1>4. PlaceInv'
  BY <1>1, <1>3 DEF Known, ClientInv, PlaceInv, Services, Refilling, Answering
<1>5. /\ s \notin Configurers /\ label \notin Building
      /\ label \in Refilling => ~mTopicEnabled
      /\ label \in Answering => mTopicEnabled
  BY <1>1, <1>2 DEF Configurers, Building, Refilling, Answering
<1> QED
  BY <1>1, <1>2, <1>4, <1>5, ServiceMoves DEF Streaming, device, calls, world

(* While one thread refills, nobody else is about to deliver m_data, but a *)
(* BufferRefill that answers with what the stream left there.              *)
LEMMA RefillersAlone ==
    ASSUME Known, NEW t \in Threads, pc[t] \in Refilling
    PROVE  /\ t \in {Loop, "BufferRefill", "BufferRead"}
           /\ pc["BufferRead"] \notin Answering
           /\ pc["BufferRefill"] \in Answering => mTopicEnabled
           /\ pc[Loop] # "publish"
           /\ \A s \in Services : pc[s] # "create_layout"
           /\ t = "BufferRead" => pc["BufferRefill"] = "idle"
           /\ t = "BufferRefill" => pc["BufferRead"] = "idle"
<1>1. t \in {Loop, "BufferRefill", "BufferRead"}
  BY ThreadFacts DEF Known, ClientInv, PlaceInv, Services, Refilling, Answering, Making, Building
<1>2. \A s \in Services : pc[s] = "create_layout" => s \in Configurers /\ pc[s] # "idle"
  BY Builders DEF Known, ClientInv
<1>3. CASE t = Loop
  <2>1. /\ pc[Loop] # "none" /\ pc[Loop] # "publish"
        /\ \A u \in Services \ {"BufferRefill", "BufferDisableTopic"} : pc[u] = "idle"
    BY <1>3, Companions DEF Known, ClientInv, Refilling
  <2>2. pc["BufferRefill"] # "idle" => pc["BufferDisableTopic"] = "idle"
    BY Companions DEF Known, ClientInv, Services
  <2>3. pc["BufferRefill"] # "idle" => mTopicEnabled
    BY <2>1, <2>2 DEF Known, ClientInv, TopicInv, Services
  <2>4. pc["BufferRead"] = "idle" /\ \A s \in Configurers : pc[s] = "idle"
    BY <2>1 DEF Configurers, Services
  <2> QED
    BY <1>1, <1>2, <1>3, <2>1, <2>3, <2>4, ThreadFacts DEF Answering, Services
<1>4. CASE t = "BufferRefill"
  <2>1. /\ pc["BufferRefill"] \notin Answering \cup {"idle"}
        /\ ~mTopicEnabled
    BY <1>4 DEF Known, ClientInv, TopicInv, Refilling, Answering
  <2>2. \A u \in Services \ {"BufferDestroy", "BufferRefill"} : pc[u] = "idle"
    BY <2>1, Companions DEF Known, ClientInv
  <2>3. pc[Loop] = "none"
    BY <2>1, <2>2 DEF Known, ClientInv, TopicInv, Services
  <2>4. pc["BufferRead"] = "idle" /\ \A s \in Configurers : pc[s] = "idle"
    BY <2>2 DEF Configurers, Services
  <2> QED
    BY <1>1, <1>2, <1>4, <2>1, <2>3, <2>4 DEF Answering
<1>5. CASE t = "BufferRead"
  <2>1. pc["BufferRead"] \notin Answering \cup {"idle", "create_layout"}
    BY <1>5 DEF Refilling, Answering
  <2>2. /\ pc[Loop] = "none"
        /\ \A u \in Services \ {"BufferRead"} : pc[u] = "idle"
    BY <2>1, Companions DEF Known, ClientInv, Configurers, Services
  <2> QED
    BY <1>1, <1>5, <2>1, <2>2 DEF Answering, Services
<1> QED
  BY <1>1, <1>3, <1>4, <1>5

(* A refill that goes on, whatever it does to m_data.                      *)
LEMMA RefillMoves ==
    ASSUME Known, NEW t \in Threads, pc[t] \in Refilling, NEW label, Goto(t, label),
           t = Loop => label \notin {"none"},
           t \in Services => label \in {"refill_hw", "refill_copy", "data"},
           UNCHANGED <<mBuffer, live, opened, config, topic, request, reply, crash>>
    PROVE  /\ OneClient' /\ NoCrash' /\ PlaceInv' /\ AloneInv' /\ QuietInv' /\ TopicInv'
           /\ OrderInv' /\ RequestInv' /\ ReadDelivers'
           /\ pc'[t] = label /\ \A u \in Threads \ {t} : pc'[u] = pc[u]
<1>1. pc'[t] = label /\ \A u \in Threads \ {t} : pc'[u] = pc[u]
  BY GotoPc DEF Known, TypeOK
<1>2. t \in {Loop, "BufferRefill", "BufferRead"}
  BY RefillersAlone
<1>3. OneClient' /\ NoCrash' /\ ReadDelivers'
  BY DEF Known, ClientInv, OneClient, NoCrash, ReadDelivers
<1>4. /\ \A u \in Services \ {t} : pc'[u] = pc[u]
      /\ pc[t] # "idle" /\ pc[t] \in Configured
      /\ t \in Services => label \in Configured /\ label \notin Building \cup {"destroy_lock", "set_channels"}
      /\ pc'[Loop] # "none" <=> pc[Loop] # "none"
  BY <1>1, ThreadFacts DEF Refilling, Building, Configured, Answering
<1>5. PlaceInv'
  BY <1>1, <1>2, <1>4, ThreadFacts DEF Known, ClientInv, PlaceInv, Services, Refilling, Answering
<1>6. AloneInv' /\ QuietInv'
  BY <1>1, <1>4, ThreadFacts, StillAlone DEF Known, ClientInv
<1>7. TopicInv'
  <2>1. pc'["BufferEnableTopic"] = pc["BufferEnableTopic"]
        /\ pc'["BufferDisableTopic"] = pc["BufferDisableTopic"]
    BY <1>2, <1>4, ThreadFacts DEF Services
  <2>2. pc'["BufferRefill"] \in Refilling => pc["BufferRefill"] \in Refilling
    BY <1>2, <1>4, ThreadFacts DEF Services
  <2> QED
    BY <1>4, <2>1, <2>2, StillStreaming DEF Known, ClientInv, TopicInv
<1>8. OrderInv'
  BY <1>1, <1>4, StillOrdered DEF Known, ClientInv, OrderInv
<1>9. RequestInv'
  <2>1. \A u \in Configurers :
           /\ pc'[u] # "idle" => pc[u] # "idle" /\ request'[u] = request[u]
           /\ pc'[u] = "set_channels" => pc[u] = "set_channels"
           /\ pc'[u] \in Configured => pc[u] \in Configured
    BY <1>1, <1>4 DEF Configurers, Services
  <2> QED
    BY <2>1, StillRequested DEF Known, ClientInv
<1> QED
  BY <1>1, <1>3, <1>5, <1>6, <1>7, <1>8, <1>9

LEMMA RefillFails ==
    ASSUME Known, NEW t \in Threads, pc[t] \in Refilling, NEW text, RefillFailed(t, text),
           UNCHANGED <<mBuffer, live, opened, config, mData, topic, crash>>
    PROVE  ClientInv'
<1>1. t \in {Loop, "BufferRefill", "BufferRead"} /\ pc[t] \notin {"none", "create_layout"}
  BY RefillersAlone DEF Refilling
<1>2. CASE t = Loop
  BY <1>1, <1>2, ThreadMoves DEF RefillFailed, calls
<1>3. CASE t # Loop
  <2>1. t \in Services /\ t \notin {"BufferEnableTopic", "BufferDisableTopic"}
    BY <1>1, <1>3, ThreadFacts
  <2> QED
    BY <1>1, <1>3, <2>1, ServiceFails DEF RefillFailed
<1> QED
  BY <1>2, <1>3

LEMMA RefillLockOrderly ==
    ASSUME Known, NEW t \in Threads, RefillLock(t)
    PROVE  ClientInv'
<1>1. pc[t] \in Refilling
  BY DEF RefillLock, At, Refilling
<1>2. CASE RefillFailed(t, "error")
  BY <1>1, <1>2, RefillFails DEF RefillLock, device, world
<1>3. CASE Goto(t, "refill_hw") /\ UNCHANGED calls
  <2>1. /\ PlaceInv' /\ pc'[t] = "refill_hw" /\ \A u \in Threads \ {t} : pc'[u] = pc[u]
        /\ OneClient' /\ NoCrash' /\ AloneInv' /\ QuietInv' /\ TopicInv'
        /\ OrderInv' /\ RequestInv' /\ ReadDelivers'
    BY <1>1, <1>3, RefillMoves DEF RefillLock, device, calls, world
  <2>2. DataInv'
    <3>1. \A s \in Services : pc[s] # "create_layout"
      BY <1>1, RefillersAlone
    <3>2. "refill_hw" \notin Answering
      BY DEF Answering
    <3>3. UNCHANGED <<mBuffer, config, mData, topic, acquired>>
      BY <1>3 DEF RefillLock, device, calls
    <3> QED
      BY <2>1, <3>1, <3>2, <3>3, ThreadFacts, StillWhole DEF Known, ClientInv, Services
  <2> QED
    BY <2>1, <2>2 DEF ClientInv
<1> QED
  BY <1>2, <1>3 DEF RefillLock

(* iio_buffer_refill has filled the buffer: m_data is cleared.             *)
LEMMA RefillHwOrderly ==
    ASSUME Known, NEW t \in Threads, RefillHw(t)
    PROVE  ClientInv'
<1>1. pc[t] \in Refilling
  BY DEF RefillHw, At, Refilling
<1>2. CASE RefillFailed(t, "error") /\ UNCHANGED mData
  BY <1>1, <1>2, RefillFails DEF RefillHw, device, world
<1>3. CASE /\ mData' = [mData EXCEPT !.kind = "part", !.samples = 0, !.channels = <<>>]
           /\ Goto(t, "refill_copy") /\ UNCHANGED calls
  <2>1. /\ PlaceInv' /\ pc'[t] = "refill_copy" /\ \A u \in Threads \ {t} : pc'[u] = pc[u]
        /\ OneClient' /\ NoCrash' /\ AloneInv' /\ QuietInv' /\ TopicInv'
        /\ OrderInv' /\ RequestInv' /\ ReadDelivers'
    BY <1>1, <1>3, RefillMoves DEF RefillHw, device, calls, world
  <2>2. DataInv'
    <3>1. /\ \A s \in Services : pc[s] # "create_layout"
          /\ pc["BufferRead"] \notin Answering
          /\ pc["BufferRefill"] \in Answering => mTopicEnabled
          /\ pc[Loop] # "publish"
      BY <1>1, RefillersAlone
    <3>2. "refill_copy" \notin Answering
      BY DEF Answering
    <3>3. pc'["BufferRead"] \notin Answering /\ (pc'["BufferRefill"] \in Answering => mTopicEnabled)
          /\ pc'[Loop] # "publish"
      BY <2>1, <3>1, <3>2, ThreadFacts DEF Services
    <3>4. mData'.layout = mData.layout /\ UNCHANGED <<mBuffer, mSamples, mChannels, mTopicEnabled>>
      BY <1>3 DEF RefillHw, device, config, topic, Known, TypeOK, Data
    <3> QED
      BY <3>1, <3>3, <3>4 DEF Known, ClientInv, DataInv
  <2> QED
    BY <2>1, <2>2 DEF ClientInv
<1> QED
  BY <1>2, <1>3 DEF RefillHw

(* The channels of the open buffer are there for refill, and what it reads *)
(* is in the buffer.                                                       *)
LEMMA OpenChannels ==
    ASSUME Known, mBuffer # NULL
    PROVE  /\ \A i \in DOMAIN mChannels : Exists(mChannels[i], FALSE)
           /\ Covers(mBuffer)
<1> DEFINE output == opened[mBuffer].output
<1>1. /\ mBuffer \in Handles /\ output \in BOOLEAN
      /\ mSamples \in Nat /\ mChannels \in Seq(Channel)
  <2>1. mBuffer \in Handles /\ mSamples \in Nat /\ mChannels \in Seq(Channel)
    BY DEF Known, TypeOK, DeviceOK, ConfigOK
  <2>2. opened[mBuffer] \in Config \cup {NoConfig}
    <3>1. opened \in [Handles -> Config \cup {NoConfig}]
      BY DEF Known, TypeOK, DeviceOK
    <3> QED BY <2>1, <3>1
  <2>3. \A c \in Config \cup {NoConfig} : c.output \in BOOLEAN
    <3>1. \A c \in Config : c.output \in BOOLEAN
      BY DEF Config
    <3>2. NoConfig.output \in BOOLEAN
      BY DEF NoConfig
    <3> QED BY <3>1, <3>2
  <2> HIDE DEF output
  <2>4. output \in BOOLEAN
    BY <2>2, <2>3 DEF output
  <2> QED BY <2>1, <2>4
<1>2. /\ opened[mBuffer].samples = mSamples /\ opened[mBuffer].channels = mChannels
      /\ \A i \in DOMAIN mChannels :
            Exists(mChannels[i], output) /\ (output => mChannels[i].extended)
  BY DEF Known, ClientInv, OrderInv, OpenInv
<1> HIDE DEF output
<1>3. \A i \in DOMAIN mChannels : Target(mChannels[i], FALSE) = Target(mChannels[i], output)
  <2> TAKE i \in DOMAIN mChannels
  <2>1. CASE output
    <3>1. mChannels[i].extended
      BY <1>2, <2>1
    <3> QED
      BY <3>1 DEF Target
  <2>2. CASE ~output
    <3>1. output = FALSE
      BY <1>1, <2>2
    <3> QED
      BY <3>1
  <2> QED
    BY <2>1, <2>2
<1>4. \A i \in DOMAIN mChannels : Exists(mChannels[i], FALSE)
  BY <1>2, <1>3 DEF Exists
<1>5. Targets(mChannels, FALSE) \subseteq Targets(mChannels, output)
  BY <1>3 DEF Targets
<1>6. Covers(mBuffer)
  <2>1. mSamples =< opened[mBuffer].samples
    BY <1>1, <1>2
  <2>2. Targets(mChannels, FALSE) \subseteq Targets(opened[mBuffer].channels, opened[mBuffer].output)
    BY <1>2, <1>5 DEF output
  <2> QED
    BY <2>1, <2>2 DEF Covers
<1> QED
  BY <1>4, <1>6

LEMMA RefillCopyOrderly ==
    ASSUME Known, NEW t \in Threads, RefillCopy(t)
    PROVE  ClientInv'
<1> DEFINE stops == {i \in DOMAIN mChannels : mSamples > 0 /\ StopsAt(mChannels, i)}
           label == IF t = Loop THEN "publish" ELSE "data"
<1>1. pc[t] = "refill_copy" /\ pc[t] \in Refilling
  BY DEF RefillCopy, At, Refilling
<1>2. mBuffer # NULL
  BY <1>1 DEF Known, LockInv, UserInv, Transferring
<1>3. Covers(mBuffer) /\ \A i \in stops : ~MissingInput(mChannels[i])
  BY <1>2, OpenChannels DEF MissingInput
<1>4. CASE \E i \in stops : RefillFailed(t, Unset(t))
             /\ UNCHANGED <<device, config, mData, topic, world>>
  BY <1>1, <1>4, RefillFails DEF device, world
<1>5. CASE /\ mData' = Converted
           /\ Goto(t, label)
           /\ acquired' = InFlight
           /\ UNCHANGED <<device, config, topic, request, reply, world>>
  <2>1. /\ PlaceInv' /\ pc'[t] = label /\ \A u \in Threads \ {t} : pc'[u] = pc[u]
        /\ OneClient' /\ NoCrash' /\ AloneInv' /\ QuietInv' /\ TopicInv'
        /\ OrderInv' /\ RequestInv' /\ ReadDelivers'
    BY <1>1, <1>5, RefillMoves, ThreadFacts DEF device, world
  <2>2. /\ t \in {Loop, "BufferRefill", "BufferRead"}
        /\ \A s \in Services : pc[s] # "create_layout"
        /\ pc["BufferRead"] \notin Answering
        /\ pc["BufferRefill"] \in Answering => mTopicEnabled
    BY <1>1, RefillersAlone
  <2>3. mData.layout = <<mSamples, Len(mChannels)>>
    BY <1>2, <2>2 DEF Known, ClientInv, DataInv
  <2>4. /\ mData'.kind = "whole" /\ mData'.layout = mData.layout
        /\ mData'.samples = mSamples /\ mData'.channels = mChannels
    BY <1>3, <1>5 DEF Converted, Known, TypeOK, Data
  <2>5. UNCHANGED <<mBuffer, mSamples, mChannels, mTopicEnabled>>
    BY <1>5 DEF device, config, topic
  <2>6. Whole'
    BY <2>3, <2>4 DEF Whole
  <2>7. t \in Services => t \in acquired'
    BY <1>1, <1>5 DEF InFlight
  <2>8. pc'["BufferRead"] \in Answering => "BufferRead" \in acquired'
    BY <2>1, <2>2, <2>7, ThreadFacts DEF Services
  <2>9. pc'["BufferRefill"] \in Answering /\ ~mTopicEnabled => "BufferRefill" \in acquired'
    BY <2>1, <2>2, <2>7, ThreadFacts DEF Services
  <2>10. DataInv'
    BY <2>3, <2>4, <2>5, <2>6, <2>8, <2>9 DEF DataInv
  <2> QED
    BY <2>1, <2>10 DEF ClientInv
<1> QED
  BY <1>3, <1>4, <1>5 DEF RefillCopy

------------------------------------------------------------------------------
(* push and the responses *)

LEMMA Pushers ==
    ASSUME PlaceInv, NEW s \in Services, pc[s] \in {"push_lock", "push"}
    PROVE  s = "BufferWrite"
  BY DEF PlaceInv, Services, Refilling, Answering, Making, Building

LEMMA PushLockOrderly ==
    ASSUME Known, NEW s \in Services, PushLock(s)
    PROVE  ClientInv'
<1>1. pc[s] = "push_lock" /\ s = "BufferWrite"
  BY Pushers DEF Known, ClientInv, PushLock, At
<1>2. CASE Fail(s, "error")
  BY <1>1, <1>2, ServiceFails DEF PushLock, device, world
<1>3. CASE Goto(s, "push") /\ UNCHANGED calls
  <2>1. pc'[s] = "push" /\ \A u \in Services \ {s} : pc'[u] = pc[u]
    BY <1>3, GotoPc, ThreadFacts DEF Known, TypeOK
  <2>2. PlaceInv'
    BY <1>1, <2>1 DEF Known, ClientInv, PlaceInv, Services
  <2>3. pc[s] \in Configured
    BY <1>1 DEF Configured
  <2> QED
    BY <1>1, <1>3, <2>2, <2>3, ServiceMoves DEF PushLock, device, calls, world, Building
<1> QED
  BY <1>2, <1>3 DEF PushLock

LEMMA PushOrderly ==
    ASSUME Known, NEW s \in Services, Push(s)
    PROVE  ClientInv'
<1> DEFINE stops == {i \in DOMAIN mChannels : mSamples > 0 /\ PushStopsAt(mChannels, i)}
<1>1. pc[s] = "push" /\ s = "BufferWrite"
  BY Pushers DEF Known, ClientInv, Push, At
<1>2. mBuffer # NULL
  BY <1>1, ThreadFacts DEF Known, LockInv, UserInv, Transferring
<1>3. \A i \in DOMAIN mChannels : ~MissingOutput(mChannels[i])
  <2>1. mChannels = request[s].channels /\ request[s] \in OutputRequests
    BY <1>1 DEF Known, ClientInv, RequestInv, Configurers, Configured, Requests
  <2>2. \A i \in DOMAIN mChannels : mChannels[i].extended
    BY <2>1 DEF Known, ClientInv, OneClient
  <2>3. \A i \in DOMAIN mChannels : Exists(mChannels[i], FALSE)
    BY <1>2, OpenChannels
  <2> QED
    BY <2>2, <2>3 DEF MissingOutput, Exists, Target
<1>4. CASE Respond(s, TRUE, "Success", NoData) /\ UNCHANGED <<device, config, mData, topic, world>>
  BY <1>1, <1>4, ServiceEnds DEF device, world
<1>5. CASE Fail(s, message[s]) /\ UNCHANGED <<device, config, mData, topic, world>>
  BY <1>1, <1>5, ServiceFails DEF device, world
<1> QED
  BY <1>3, <1>4, <1>5 DEF Push

LEMMA Responders ==
    ASSUME PlaceInv, NEW s \in Services, pc[s] \in Answering
    PROVE  s \in {"BufferRefill", "BufferRead", "BufferCreate"}
  BY DEF PlaceInv, Services, Answering, Making, Building

LEMMA DataReferenceOrderly ==
    ASSUME Known, NEW s \in Services, DataReference(s)
    PROVE  ClientInv'
<1>1. /\ pc[s] = "data" /\ pc[s] \in Answering /\ pc[s] \in Configured
      /\ Goto(s, "respond")
  BY DEF DataReference, At, Answering, Configured
<1>2. s \in {"BufferRefill", "BufferRead", "BufferCreate"}
  BY <1>1, Responders DEF Known, ClientInv
<1>3. pc'[s] = "respond" /\ \A u \in Services \ {s} : pc'[u] = pc[u]
  BY <1>1, GotoPc, ThreadFacts DEF Known, TypeOK
<1>4. PlaceInv'
  BY <1>2, <1>3 DEF Known, ClientInv, PlaceInv, Services, Answering
<1>5. "respond" \notin Building \cup Refilling
  BY DEF Building, Refilling
<1> QED
  BY <1>1, <1>2, <1>4, <1>5, ServiceMoves DEF DataReference, device, calls, world

(* The responses of BufferRead and BufferRefill carry the refill.          *)
LEMMA CopyResponseOrderly ==
    ASSUME Known, NEW s \in Services, CopyResponse(s)
    PROVE  /\ ClientInv'
           /\ s = "BufferRefill" /\ ~mTopicEnabled => Delivers(reply)'
<1>1. pc[s] = "respond" /\ pc[s] \in Answering /\ pc[s] \in Configured
  BY DEF CopyResponse, At, Answering, Configured
<1>2. s \in {"BufferRefill", "BufferRead", "BufferCreate"}
  BY <1>1, Responders DEF Known, ClientInv
<1> DEFINE data == IF s = "BufferCreate" THEN [NoData EXCEPT !.layout = mData.layout] ELSE mData
<1>3. Respond(s, TRUE, message[s], data) /\ UNCHANGED <<mutex, device, config, mData, topic, world>>
  BY DEF CopyResponse
<1>4. /\ reply'.to = s /\ reply'.data = data /\ reply'.request = request[s]
      /\ reply'.fresh = (s \in acquired)
  <2> HIDE DEF data
  <2>1. TypeOK /\ Answer(s, TRUE, message[s], data)
    BY <1>3 DEF Known, Respond
  <2> QED
    BY <2>1, AnswerEffect
<1>5. s = "BufferRead" =>
         Delivers(reply)' /\ reply'.data.samples = request[s].samples
                          /\ reply'.data.channels = request[s].channels
  <2> SUFFICES ASSUME s = "BufferRead"
               PROVE  Delivers(reply)' /\ reply'.data.samples = request[s].samples
                                       /\ reply'.data.channels = request[s].channels
    OBVIOUS
  <2>1. s \in acquired /\ Whole /\ mData.samples = mSamples /\ mData.channels = mChannels
    BY <1>1 DEF Known, ClientInv, DataInv
  <2>2. mSamples = request[s].samples /\ mChannels = request[s].channels
    BY <1>1 DEF Known, ClientInv, RequestInv, Configurers
  <2> QED
    BY <1>4, <2>1, <2>2 DEF Delivers, Whole
<1>6. s = "BufferRefill" /\ ~mTopicEnabled => Delivers(reply)'
  <2> SUFFICES ASSUME s = "BufferRefill", ~mTopicEnabled
               PROVE  Delivers(reply)'
    OBVIOUS
  <2>1. s \in acquired /\ Whole
    BY <1>1 DEF Known, ClientInv, DataInv
  <2> QED
    BY <1>4, <2>1 DEF Delivers, Whole
<1>7. ReadDelivers'
  BY <1>4, <1>5 DEF ReadDelivers
<1> QED
  BY <1>1, <1>2, <1>3, <1>6, <1>7, ServiceAnswers DEF device, world

------------------------------------------------------------------------------
(* enableTopic, disableTopic and the streaming thread *)

LEMMA Streamers ==
    ASSUME PlaceInv, NEW s \in Services
    PROVE  /\ pc[s] \in {"enable_flag", "enable_run", "enable_rate", "enable_pub", "enable_thread"}
                 => s = "BufferEnableTopic"
           /\ pc[s] \in {"disable_flag", "disable_stop", "disable_join", "disable_pub"}
                 => s = "BufferDisableTopic"
  BY DEF PlaceInv, Services, Refilling, Answering, Making, Building

(* What a step of the two calls leaves alone, whatever it does to the      *)
(* topic and the thread.                                                   *)
LEMMA TopicMoves ==
    ASSUME Known, NEW s \in {"BufferEnableTopic", "BufferDisableTopic"}, pc[s] # "idle",
           UNCHANGED <<mBuffer, live, opened, config, mData, crash>>,
           \A u \in Services \ {s} :
              pc'[u] = pc[u] /\ request'[u] = request[u] /\ (u \in acquired <=> u \in acquired'),
           PlaceInv', AloneInv', QuietInv', TopicInv', ReadDelivers',
           pc'[Loop] = "publish" => pc[Loop] = "publish"
    PROVE  ClientInv'
<1>1. \A u \in Services \ {s} : pc[u] = "idle"
  BY Companions DEF Known, ClientInv, Services
<1>2. OneClient' /\ NoCrash'
  BY DEF Known, ClientInv, OneClient, NoCrash
<1>3. pc'[s] \notin Building \cup {"destroy_lock"} /\ pc[s] # "create_layout"
  BY DEF PlaceInv, Building, Known, ClientInv
<1>4. OrderInv'
  BY <1>1, <1>3, StillOrdered DEF Known, ClientInv, Building
<1>5. RequestInv'
  BY StillRequested DEF Known, ClientInv, Configurers, Services
<1>6. DataInv'
  <2>1. Whole' <=> Whole
    BY DEF Whole
  <2>2. pc'["BufferRead"] = "idle" /\ pc'["BufferRefill"] = "idle"
    BY <1>1 DEF Services
  <2>3. \A u \in Services : pc[u] # "create_layout"
    BY <1>1, <1>3
  <2> QED
    BY <2>1, <2>2, <2>3 DEF Known, ClientInv, DataInv, config, Answering
<1> QED
  BY <1>2, <1>4, <1>5, <1>6 DEF ClientInv

LEMMA EnableOrderly ==
    ASSUME Known, NEW s \in Services,
           EnableFlag(s) \/ EnableRun(s) \/ EnableRate(s) \/ EnablePub(s)
    PROVE  ClientInv'
<1>1. /\ s = "BufferEnableTopic"
      /\ pc[s] \in {"enable_flag", "enable_run", "enable_rate", "enable_pub"}
  BY Streamers DEF Known, ClientInv, EnableFlag, EnableRun, EnableRate, EnablePub, At
<1>2. pc[Loop] = "none" /\ \A u \in Services \ {s} : pc[u] = "idle"
  BY <1>1, Companions DEF Known, ClientInv
<1>3. PICK label \in {"enable_run", "enable_rate", "enable_pub", "enable_thread"} : Goto(s, label)
  BY DEF EnableFlag, EnableRun, EnableRate, EnablePub
<1>4. pc'[s] = label /\ (\A u \in Services \ {s} : pc'[u] = pc[u]) /\ pc'[Loop] = pc[Loop]
  BY <1>3, GotoPc, ThreadFacts DEF Known, TypeOK
<1>5. UNCHANGED <<mBuffer, live, opened, config, mData, request, reply, acquired, crash>>
  BY DEF EnableFlag, EnableRun, EnableRate, EnablePub, device, calls, world
<1>6. PlaceInv'
  BY <1>1, <1>3, <1>4 DEF Known, ClientInv, PlaceInv, Services
<1>7. AloneInv' /\ QuietInv'
  BY <1>1, <1>2, <1>4, StillAlone DEF Known, ClientInv
<1>8. TopicInv'
  <2>1. pc'["BufferDisableTopic"] = "idle" /\ pc'["BufferRefill"] = "idle"
    BY <1>1, <1>2, <1>4 DEF Services
  <2>2. CASE EnableFlag(s)
    BY <1>1, <1>2, <1>4, <2>1, <2>2, GotoPc, ThreadFacts
    DEF EnableFlag, Known, TypeOK, TopicInv, Refilling
  <2>3. CASE EnableRun(s)
    BY <1>1, <1>2, <1>4, <2>1, <2>3, GotoPc, ThreadFacts
    DEF EnableRun, At, Known, ClientInv, TypeOK, TopicInv, Refilling
  <2>4. CASE EnableRate(s)
    BY <1>1, <1>2, <1>4, <2>1, <2>4, GotoPc, ThreadFacts
    DEF EnableRate, At, Known, ClientInv, TypeOK, TopicInv, Refilling
  <2>5. CASE EnablePub(s)
    BY <1>1, <1>2, <1>4, <2>1, <2>5, GotoPc, ThreadFacts
    DEF EnablePub, At, Known, ClientInv, TypeOK, TopicInv, Refilling
  <2> QED
    BY <2>2, <2>3, <2>4, <2>5
<1>9. ReadDelivers'
  BY <1>5 DEF Known, ClientInv, ReadDelivers
<1> QED
  BY <1>1, <1>2, <1>4, <1>5, <1>6, <1>7, <1>8, <1>9, TopicMoves

(* The thread is started where none runs.                                  *)
LEMMA EnableThreadOrderly ==
    ASSUME Known, NEW s \in Services, EnableThread(s)
    PROVE  ClientInv'
<1>1. s = "BufferEnableTopic" /\ pc[s] = "enable_thread"
  BY Streamers DEF Known, ClientInv, EnableThread, At
<1>2. pc[Loop] = "none" /\ \A u \in Services \ {s} : pc[u] = "idle"
  BY <1>1, Companions DEF Known, ClientInv
<1>3. /\ pc' = [pc EXCEPT ![s] = "idle", ![Loop] = "check"]
      /\ Answer(s, TRUE, "Success", NoData)
      /\ UNCHANGED <<mutex, device, config, mData, topic, world>>
  BY <1>2 DEF EnableThread
<1>4. /\ pc'[s] = "idle" /\ pc'[Loop] = "check"
      /\ \A u \in Services \ {s} : pc'[u] = pc[u]
  BY <1>3, ThreadFacts DEF Known, TypeOK, PcOK
<1>5. /\ reply'.to = s
      /\ \A u \in Services \ {s} : request'[u] = request[u] /\ (u \in acquired <=> u \in acquired')
  BY <1>3, AnswerEffect DEF Known
<1>6. PlaceInv'
  BY <1>1, <1>4 DEF Known, ClientInv, PlaceInv, Services
<1>7. \A u \in Services : pc'[u] = "idle"
  BY <1>2, <1>4
<1>8. AloneInv' /\ QuietInv'
  BY <1>7 DEF AloneInv, QuietInv, Reconfigures, Services
<1>9. TopicInv'
  <2>1. mTopicEnabled /\ mLoopRate /\ mPub /\ UNCHANGED <<mTopicEnabled, mLoopRate, mPub>>
    BY <1>1, <1>3 DEF Known, ClientInv, TopicInv, topic
  <2> QED
    BY <1>4, <1>7, <2>1 DEF TopicInv, Services, Refilling
<1>10. ReadDelivers'
  BY <1>1, <1>5 DEF ReadDelivers
<1> QED
  BY <1>1, <1>3, <1>4, <1>5, <1>6, <1>8, <1>9, <1>10, TopicMoves DEF device, world

LEMMA DisableOrderly ==
    ASSUME Known, NEW s \in Services, DisableFlag(s) \/ DisableStop(s) \/ DisablePub(s)
    PROVE  ClientInv'
<1>1. /\ s = "BufferDisableTopic"
      /\ pc[s] \in {"disable_flag", "disable_stop", "disable_pub"}
  BY Streamers DEF Known, ClientInv, DisableFlag, DisableStop, DisablePub, At
<1>2. \A u \in Services \ {s} : pc[u] = "idle"
  BY <1>1, Companions DEF Known, ClientInv
<1>3. PICK label \in {"disable_stop", "disable_join", "idle"} : Goto(s, label)
  BY DEF DisableFlag, DisableStop, DisablePub, Respond
<1>4. pc'[s] = label /\ (\A u \in Services \ {s} : pc'[u] = pc[u]) /\ pc'[Loop] = pc[Loop]
  BY <1>3, GotoPc, ThreadFacts DEF Known, TypeOK
<1>5. UNCHANGED <<mBuffer, live, opened, config, mData, crash>>
  BY DEF DisableFlag, DisableStop, DisablePub, device, world
<1>6. /\ reply' = reply \/ reply'.to = s
      /\ \A u \in Services \ {s} : request'[u] = request[u] /\ (u \in acquired <=> u \in acquired')
  BY AnswerEffect DEF Known, DisableFlag, DisableStop, DisablePub, Respond, calls
<1>7. PlaceInv'
  BY <1>1, <1>3, <1>4 DEF Known, ClientInv, PlaceInv, Services
<1>8. AloneInv' /\ QuietInv'
  BY <1>1, <1>2, <1>4, StillAlone DEF Known, ClientInv
<1>9. TopicInv'
  <2>1. pc'["BufferEnableTopic"] = "idle" /\ pc'["BufferRefill"] = "idle"
    BY <1>1, <1>2, <1>4 DEF Services
  <2>2. CASE DisableFlag(s)
    BY <1>1, <1>4, <2>1, <2>2, GotoPc, ThreadFacts
    DEF DisableFlag, Known, ClientInv, TypeOK, TopicInv, Refilling
  <2>3. CASE DisableStop(s)
    BY <1>1, <1>4, <2>1, <2>3, GotoPc, ThreadFacts
    DEF DisableStop, At, Known, ClientInv, TypeOK, TopicInv, Refilling
  <2>4. CASE DisablePub(s)
    <3>1. pc[Loop] = "none" /\ ~mTopicEnabled
      BY <1>1, <2>4 DEF DisablePub, At, Known, ClientInv, TopicInv
    <3>2. pc'[s] = "idle"
      BY <2>4, GotoPc, ThreadFacts DEF DisablePub, Respond, Known, TypeOK
    <3> QED
      BY <1>1, <1>4, <2>1, <2>4, <3>1, <3>2 DEF DisablePub, TopicInv, Refilling
  <2> QED
    BY <2>2, <2>3, <2>4
<1>10. ReadDelivers'
  BY <1>1, <1>6 DEF Known, ClientInv, ReadDelivers
<1> QED
  BY <1>1, <1>4, <1>5, <1>6, <1>7, <1>8, <1>9, <1>10, TopicMoves

LEMMA DisableJoinOrderly ==
    ASSUME Known, NEW s \in Services, DisableJoin(s)
    PROVE  ClientInv'
<1>1. s = "BufferDisableTopic" /\ pc[s] = "disable_join"
  BY Streamers DEF Known, ClientInv, DisableJoin, At
<1>2. \A u \in Services \ {s} : pc[u] = "idle"
  BY <1>1, Companions DEF Known, ClientInv
<1>3. /\ pc' = [pc EXCEPT ![s] = "disable_pub", ![Loop] = "none"]
      /\ UNCHANGED <<mutex, device, config, mData, topic, calls, world>>
  BY DEF DisableJoin
<1>4. /\ pc'[s] = "disable_pub" /\ pc'[Loop] = "none"
      /\ \A u \in Services \ {s} : pc'[u] = pc[u]
  BY <1>3, ThreadFacts DEF Known, TypeOK, PcOK
<1>5. PlaceInv'
  BY <1>1, <1>4 DEF Known, ClientInv, PlaceInv, Services
<1>6. AloneInv' /\ QuietInv'
  BY <1>1, <1>4, StillAlone DEF Known, ClientInv
<1>7. TopicInv'
  <2>1. pc'["BufferEnableTopic"] = "idle" /\ pc'["BufferRefill"] = "idle"
    BY <1>1, <1>2, <1>4 DEF Services
  <2>2. ~mTopicEnabled /\ UNCHANGED mTopicEnabled
    BY <1>1, <1>3 DEF Known, ClientInv, TopicInv, topic
  <2> QED
    BY <1>1, <1>4, <2>1, <2>2 DEF TopicInv, Refilling
<1>8. UNCHANGED <<mBuffer, live, opened, config, mData, request, reply, acquired, crash>>
  BY <1>3 DEF device, calls, world
<1>9. ReadDelivers'
  BY <1>8 DEF Known, ClientInv, ReadDelivers
<1> QED
  BY <1>1, <1>4, <1>5, <1>6, <1>7, <1>8, <1>9, TopicMoves

LEMMA LoopOrderly ==
    ASSUME Known, LoopCheck \/ LoopPublish \/ LoopSleep
    PROVE  ClientInv'
<1>1. pc[Loop] # "none"
  BY DEF LoopCheck, LoopPublish, LoopSleep, At
<1>2. mLoopRate /\ mPub
  BY <1>1 DEF Known, ClientInv, TopicInv
<1>3. \E label \in {"refill_lock", "finished", "sleep", "check"} : Goto(Loop, label)
  BY <1>2 DEF LoopCheck, LoopPublish, LoopSleep
<1>4. UNCHANGED <<mBuffer, live, opened, config, mData, topic, request, reply, acquired, crash>>
  BY <1>2 DEF LoopCheck, LoopPublish, LoopSleep, device, calls, world
<1> QED
  BY <1>1, <1>3, <1>4, ThreadMoves

LEMMA AsideOrderly ==
    ASSUME Known, Shutdown \/ UNCHANGED vars
    PROVE  ClientInv'
<1>1. UNCHANGED <<mBuffer, live, opened, config, mData, topic, pc, request, reply, acquired, crash>>
  BY DEF Shutdown, vars, device, calls, world
<1>2. OneClient' /\ NoCrash' /\ ReadDelivers' /\ PlaceInv'
  BY <1>1 DEF Known, ClientInv, OneClient, NoCrash, ReadDelivers, PlaceInv
<1>3. AloneInv' /\ QuietInv'
  BY <1>1, StillAlone DEF Known, ClientInv
<1>4. TopicInv'
  BY <1>1 DEF Known, ClientInv, TopicInv, topic
<1>5. OrderInv'
  BY <1>1, StillOrdered DEF Known, ClientInv, OrderInv
<1>6. RequestInv'
  BY <1>1, StillRequested DEF Known, ClientInv
<1>7. DataInv'
  BY <1>1, StillWhole DEF Known, ClientInv
<1> QED
  BY <1>2, <1>3, <1>4, <1>5, <1>6, <1>7 DEF ClientInv

------------------------------------------------------------------------------
(* The invariant *)

LEMMA ClientStep == Known /\ [Next]_vars => ClientInv'
<1> SUFFICES ASSUME Known, [Next]_vars PROVE ClientInv'
  OBVIOUS
<1>1. ASSUME NEW s \in Services, Call(s) \/ Reject(s) PROVE ClientInv'
  BY <1>1, CallOrderly, RejectOrderly
<1>2. ASSUME NEW t \in Threads, Acquire(t) PROVE ClientInv'
  BY <1>2, RefillLockOrderly, DestroyLockedOrderly, CreateLockOrderly, PushLockOrderly,
     DataReferenceOrderly DEF Acquire
<1>3. ASSUME NEW t \in Threads, Transfer(t) PROVE ClientInv'
  BY <1>3, RefillHwOrderly, PushOrderly DEF Transfer
<1>4. ASSUME NEW s \in Services, Handler(s) PROVE ClientInv'
  BY <1>4, BufferPresentOrderly, DestroyCheckOrderly, SetSamplesOrderly, SetChannelsOrderly,
     CreateOpenOrderly, CreateLayoutOrderly, StreamingOrderly, CopyResponseOrderly,
     EnableOrderly, EnableThreadOrderly, DisableOrderly, DisableJoinOrderly DEF Handler
<1>5. ASSUME NEW t \in Threads, Proceed(t) PROVE ClientInv'
  BY <1>4, <1>5, RefillCopyOrderly, LoopOrderly DEF Proceed
<1>6. CASE Shutdown \/ UNCHANGED vars
  BY <1>6, AsideOrderly
<1> QED
  BY <1>1, <1>2, <1>3, <1>5, <1>6 DEF Next

LEMMA ClientInit == Init /\ OneClient => ClientInv
<1> SUFFICES ASSUME Init, OneClient PROVE ClientInv
  OBVIOUS
<1>1. pc[Loop] = "none" /\ \A s \in Services : pc[s] = "idle"
  BY ThreadFacts DEF Init
<1>2. PlaceInv /\ AloneInv /\ QuietInv
  BY <1>1 DEF PlaceInv, AloneInv, QuietInv, Services, Making
<1>3. TopicInv
  BY <1>1 DEF Init, TopicInv, Services, Refilling
<1>4. OrderInv
  BY <1>1 DEF Init, OrderInv, NoLeak, OpenInv, Building
<1>5. RequestInv
  BY <1>1 DEF RequestInv, Configured, Refilling, Answering, Configurers, Services
<1>6. DataInv
  BY <1>1, ThreadFacts DEF Init, DataInv, Answering, Services
<1>7. NoCrash /\ ReadDelivers
  BY DEF Init, NoCrash, ReadDelivers, NoReply
<1> QED
  BY <1>2, <1>3, <1>4, <1>5, <1>6, <1>7 DEF ClientInv

THEOREM ClientCorrect == OneClient /\ Spec => []ClientInv
<1>1. TypeOK /\ LockInv /\ ClientInv /\ [Next]_vars => ClientInv'
  BY ClientStep DEF Known
<1> QED
  BY ClientInit, <1>1, TypeCorrect, LockSafety, PTL DEF Spec

------------------------------------------------------------------------------
(* What it promises the client *)

(* No sequence of calls of a client that waits for its answers, names its  *)
(* output channels and stops the stream before it reconfigures ends the    *)
(* process: iio_buffer_cancel and the channel walks of refill and push get *)
(* no null pointer, and neither a joinable std::thread nor a reset         *)
(* m_loopRate or m_pub is used (iio_buffer.cpp).                           *)
THEOREM NoCrashSafety == OneClient /\ Spec => []NoCrash
<1>1. ClientInv => NoCrash
  BY DEF ClientInv
<1> QED
  BY <1>1, ClientCorrect, PTL

(* No libiio buffer but m_buffer stays open: destroyIIOBuffer runs before  *)
(* every createIIOBuffer (iio_node.cpp).                                   *)
THEOREM NoLeakSafety == OneClient /\ Spec => []NoLeak
<1>1. ClientInv => NoLeak
  BY DEF ClientInv, OrderInv
<1> QED
  BY <1>1, ClientCorrect, PTL

(* The open buffer is the one of m_samples_count and m_channels, which     *)
(* refill and push go by.                                                  *)
THEOREM ConfigSafety == OneClient /\ Spec => []ConfigMatches
<1>1. ClientInv => ConfigMatches
  BY DEF ClientInv, OrderInv, OpenInv, ConfigMatches
<1> QED
  BY <1>1, ClientCorrect, PTL

(* BufferRead answers Success with the samples and channels asked for, all *)
(* of them, captured after the call was made (buffReadSrv).                *)
THEOREM ReadSafety == OneClient /\ Spec => []ReadDelivers
<1>1. ClientInv => ReadDelivers
  BY DEF ClientInv
<1> QED
  BY <1>1, ClientCorrect, PTL

(* The topic carries whole refills under their own layout                  *)
(* (publishingLoop).                                                       *)
THEOREM PublishSafety == OneClient /\ Spec => []PublishesWhole
<1>1. ClientInv => PublishesWhole
  BY DEF ClientInv, DataInv, Whole, PublishesWhole
<1> QED
  BY <1>1, ClientCorrect, PTL

(* Between calls m_topic_enabled, m_th and m_pub agree (enableTopic,       *)
(* disableTopic).                                                          *)
THEOREM TopicSafety == OneClient /\ Spec => []TopicMatchesThread
<1>1. ClientInv => TopicMatchesThread
  BY DEF ClientInv, TopicInv, TopicMatchesThread
<1> QED
  BY <1>1, ClientCorrect, PTL

(* A step moves the program counter of one service only.                   *)
LEMMA MovesOne ==
    ASSUME TypeOK, NEW t \in Threads, \E label : Goto(t, label)
    PROVE  \A u \in Services \ {t} : pc'[u] = pc[u]
  BY GotoPc, ThreadFacts DEF TypeOK

LEMMA FailLabels ==
    ASSUME NEW t \in Threads
    PROVE  /\ \A text : Fail(t, text) => \E label : Goto(t, label)
           /\ \A text : RefillFailed(t, text) => \E label : Goto(t, label)
           /\ AfterDestroy(t) => \E label : Goto(t, label)
  BY FailLabel, RefillFailedLabel, AfterDestroyLabel

LEMMA OthersStay ==
    ASSUME TypeOK, NEW t \in Threads, Acquire(t) \/ Transfer(t) \/ Proceed(t)
    PROVE  \A u \in Services \ {t} : pc'[u] = pc[u]
<1>1. CASE Acquire(t)
  <2>1. CASE \E label : Goto(t, label)
    BY <2>1, MovesOne
  <2>2. CASE Crash("null_cancel")
    BY <2>2 DEF Crash
  <2> QED
    BY <1>1, <2>1, <2>2, FailLabels
    DEF Acquire, RefillLock, DestroyLocked, CreateLock, PushLock, DataReference
<1>2. CASE Transfer(t)
  <2>1. CASE \E label : Goto(t, label)
    BY <2>1, MovesOne
  <2>2. CASE Crash("null_channel")
    BY <2>2 DEF Crash
  <2> QED
    BY <1>2, <2>1, <2>2, FailLabels DEF Transfer, RefillHw, Push, Respond
<1>3. CASE Proceed(t)
  <2>1. CASE \E label : Goto(t, label)
    BY <2>1, MovesOne
  <2>2. CASE \E how : Crash(how)
    BY <2>2 DEF Crash
  <2>3. CASE RefillCopy(t)
    BY <2>1, <2>2, <2>3, FailLabels DEF RefillCopy
  <2>4. CASE BufferPresent(t) \/ DestroyCheck(t) \/ SetSamples(t) \/ SetChannels(t)
             \/ CreateOpen(t) \/ CreateLayout(t) \/ Streaming(t) \/ CopyResponse(t)
    BY <2>1, <2>2, <2>4, FailLabels
    DEF BufferPresent, DestroyCheck, SetSamples, SetChannels, CreateOpen, CreateLayout,
        Streaming, CopyResponse, Respond
  <2>5. CASE EnableFlag(t) \/ EnableRun(t) \/ EnableRate(t) \/ EnablePub(t)
             \/ DisableFlag(t) \/ DisableStop(t) \/ DisablePub(t)
    BY <2>1, <2>5
    DEF EnableFlag, EnableRun, EnableRate, EnablePub, DisableFlag, DisableStop, DisablePub,
        Respond
  <2>6. CASE t \in Services /\ (EnableThread(t) \/ DisableJoin(t))
    BY <2>2, <2>6, ThreadFacts DEF EnableThread, DisableJoin, TypeOK, PcOK
  <2>7. CASE t = Loop /\ (LoopCheck \/ LoopPublish \/ LoopSleep)
    BY <2>1, <2>2, <2>7 DEF LoopCheck, LoopPublish, LoopSleep
  <2> QED
    BY <1>3, <2>3, <2>4, <2>5, <2>6, <2>7 DEF Proceed, Handler
<1> QED
  BY <1>1, <1>2, <1>3

LEMMA FailIsNoSuccess ==
    ASSUME TypeOK, NEW s \in Services
    PROVE  /\ \A text : Fail(s, text) => ~Succeeds(s)
           /\ \A label \in (ServiceLabels \cup LoopLabels) \ {"idle"} : Goto(s, label) => ~Succeeds(s)
           /\ UNCHANGED pc => ~Succeeds(s)
<1>1. \A text : Fail(s, text) => ~Succeeds(s)
  <2> TAKE text
  <2>1. Answer(s, FALSE, text, NoData) => reply'.ok = FALSE
    BY AnswerEffect
  <2> QED
    BY <2>1 DEF Fail, Respond, Succeeds
<1>2. \A label \in (ServiceLabels \cup LoopLabels) \ {"idle"} : Goto(s, label) => ~Succeeds(s)
  BY GotoPc, ThreadFacts DEF TypeOK, Succeeds
<1> QED
  BY <1>1, <1>2 DEF Succeeds

(* The step that answers a call of s is one of s.                          *)
LEMMA OwnStep ==
    ASSUME TypeOK, NEW s \in Services, [Next]_vars, Succeeds(s)
    PROVE  Acquire(s) \/ Transfer(s) \/ Proceed(s)
<1>1. ~UNCHANGED pc
  BY DEF Succeeds
<1>2. ~(Call(s) \/ Reject(s))
  BY DEF Call, Reject, At, Succeeds
<1>3. ASSUME NEW u \in Services \ {s}, Call(u) \/ Reject(u)
      PROVE  FALSE
  <2>1. \E label : Goto(u, label)
    BY <1>3, FailLabels, ThreadFacts DEF Call, Reject
  <2>2. pc'[s] = pc[s]
    BY <2>1, MovesOne, ThreadFacts
  <2> QED
    BY <2>2 DEF Succeeds
<1>4. PICK t \in Threads : Acquire(t) \/ Transfer(t) \/ Proceed(t)
  BY <1>1, <1>2, <1>3 DEF Next, vars, Shutdown
<1>5. t = s
  BY <1>4, OthersStay DEF Succeeds
<1> QED
  BY <1>4, <1>5

LEMMA RefillAnswers ==
    ASSUME Known, [Next]_vars, Succeeds("BufferRefill")
    PROVE  CopyResponse("BufferRefill")
<1> DEFINE s == "BufferRefill"
<1>1. s \in Services /\ s # Loop /\ TypeOK
  BY ThreadFacts DEF Services, Known
<1>2. pc[s] \in {"streaming", "refill_lock", "refill_hw", "refill_copy", "data", "respond"}
  BY DEF Known, ClientInv, PlaceInv, Refilling, Answering, Succeeds
<1>3. Acquire(s) \/ Transfer(s) \/ Proceed(s)
  BY <1>1, OwnStep
<1>4. /\ ~\E text : Fail(s, text)
      /\ \A label \in {"data", "respond", "refill_lock", "refill_hw", "refill_copy"} : ~Goto(s, label)
      /\ ~UNCHANGED pc
  BY <1>1, FailIsNoSuccess DEF ServiceLabels
<1> HIDE DEF s
<1>5. ~RefillLock(s) /\ ~RefillHw(s) /\ ~RefillCopy(s)
  BY <1>1, <1>4 DEF RefillLock, RefillHw, RefillCopy, RefillFailed, Crash
<1>6. ~Streaming(s) /\ ~DataReference(s)
  BY <1>4 DEF Streaming, DataReference
<1>7. ~(DestroyLocked(s) \/ CreateLock(s) \/ PushLock(s) \/ Push(s) \/ BufferPresent(s)
        \/ DestroyCheck(s) \/ SetSamples(s) \/ SetChannels(s) \/ CreateOpen(s) \/ CreateLayout(s))
  BY <1>2
  DEF DestroyLocked, CreateLock, PushLock, Push, BufferPresent, DestroyCheck, SetSamples,
      SetChannels, CreateOpen, CreateLayout, At
<1>8. ~(EnableFlag(s) \/ EnableRun(s) \/ EnableRate(s) \/ EnablePub(s) \/ EnableThread(s)
        \/ DisableFlag(s) \/ DisableStop(s) \/ DisableJoin(s) \/ DisablePub(s))
  BY <1>2
  DEF EnableFlag, EnableRun, EnableRate, EnablePub, EnableThread, DisableFlag, DisableStop,
      DisableJoin, DisablePub, At
<1>9. CopyResponse(s)
  BY <1>1, <1>3, <1>5, <1>6, <1>7, <1>8 DEF Acquire, Transfer, Proceed, Handler
<1> QED
  BY <1>9 DEF s

(* BufferRefill, while nothing streams, answers Success with one whole     *)
(* refill made for it, also with a BufferDestroy beside it (buffRefillSrv, *)
(* refill).                                                                *)
THEOREM RefillSafety == OneClient /\ Spec => RefillDelivers
<1>1. TypeOK /\ LockInv /\ ClientInv /\ [Next]_vars
      => [Succeeds("BufferRefill") /\ ~mTopicEnabled => Delivers(reply')]_vars
  <2> SUFFICES ASSUME Known, [Next]_vars, Succeeds("BufferRefill"), ~mTopicEnabled
               PROVE  Delivers(reply')
    BY DEF Known
  <2>1. "BufferRefill" \in Services
    BY DEF Services
  <2>2. Delivers(reply)'
    BY <2>1, RefillAnswers, CopyResponseOrderly
  <2> QED
    BY <2>2 DEF Delivers
<1> QED
  BY <1>1, TypeCorrect, LockSafety, ClientCorrect, PTL DEF Spec, RefillDelivers

LEMMA DestroyAnswers ==
    ASSUME Known, [Next]_vars, Succeeds("BufferDestroy")
    PROVE  DestroyLocked("BufferDestroy")
           \/ (DestroyCheck("BufferDestroy") /\ mBuffer = NULL)
<1> DEFINE s == "BufferDestroy"
<1>1. s \in Services /\ s # Loop /\ TypeOK
  BY ThreadFacts DEF Services, Known
<1>2. pc[s] \in {"buffer", "destroy", "destroy_lock"}
  BY DEF Known, ClientInv, PlaceInv, Succeeds
<1>3. Acquire(s) \/ Transfer(s) \/ Proceed(s)
  BY <1>1, OwnStep
<1>4. /\ ~\E text : Fail(s, text)
      /\ \A label \in {"destroy", "destroy_lock"} : ~Goto(s, label)
  BY <1>1, FailIsNoSuccess DEF ServiceLabels
<1> HIDE DEF s
<1>5. ~BufferPresent(s) /\ (DestroyCheck(s) => mBuffer = NULL)
  BY <1>4 DEF BufferPresent, DestroyCheck
<1>6. ~(RefillLock(s) \/ RefillHw(s) \/ RefillCopy(s) \/ Streaming(s) \/ DataReference(s)
        \/ CopyResponse(s) \/ CreateLock(s) \/ PushLock(s) \/ Push(s)
        \/ SetSamples(s) \/ SetChannels(s) \/ CreateOpen(s) \/ CreateLayout(s))
  BY <1>2
  DEF RefillLock, RefillHw, RefillCopy, Streaming, DataReference, CopyResponse, CreateLock,
      PushLock, Push, SetSamples, SetChannels, CreateOpen, CreateLayout, At
<1>7. ~(EnableFlag(s) \/ EnableRun(s) \/ EnableRate(s) \/ EnablePub(s) \/ EnableThread(s)
        \/ DisableFlag(s) \/ DisableStop(s) \/ DisableJoin(s) \/ DisablePub(s))
  BY <1>2
  DEF EnableFlag, EnableRun, EnableRate, EnablePub, EnableThread, DisableFlag, DisableStop,
      DisableJoin, DisablePub, At
<1>8. DestroyLocked(s) \/ (DestroyCheck(s) /\ mBuffer = NULL)
  BY <1>1, <1>3, <1>5, <1>6, <1>7 DEF Acquire, Transfer, Proceed, Handler
<1> QED
  BY <1>8 DEF s

(* A successful BufferDestroy leaves the device without a buffer, also one *)
(* that a BufferRefill beside it worked on (destroyIIOBuffer waits for     *)
(* m_mutex).                                                               *)
THEOREM DestroySafety == OneClient /\ Spec => DestroyReleases
<1>1. TypeOK /\ LockInv /\ ClientInv /\ [Next]_vars
      => [Succeeds("BufferDestroy") => live' = {}]_vars
  <2> SUFFICES ASSUME Known, [Next]_vars, Succeeds("BufferDestroy")
               PROVE  live' = {}
    BY DEF Known
  <2>1. "BufferDestroy" \in Services
    BY DEF Services
  <2>2. CASE DestroyLocked("BufferDestroy")
    BY <2>1, <2>2, DestroyLockedOrderly
  <2>3. CASE DestroyCheck("BufferDestroy") /\ mBuffer = NULL
    <3>1. live \subseteq {NULL} /\ live \subseteq Handles /\ NULL \notin Handles
      BY <2>3, ConstantsAssumption DEF Known, ClientInv, OrderInv, NoLeak, TypeOK, DeviceOK
    <3>2. live' = live
      BY <2>3 DEF DestroyCheck, device
    <3> QED
      BY <3>1, <3>2
  <2> QED
    BY <2>2, <2>3, DestroyAnswers
<1> QED
  BY <1>1, TypeCorrect, LockSafety, ClientCorrect, PTL DEF Spec, DestroyReleases

=============================================================================
