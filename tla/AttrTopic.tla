----------------------------- MODULE AttrTopic ------------------------------
(***************************************************************************)
(* The attribute services (iio_node.cpp), the map of attribute topics they *)
(* share, the IIOAttrTopic objects in it (iio_attr_topic.cpp) with a       *)
(* publishing thread each, and the subscription callbacks that write to    *)
(* them (attr_publisher.cpp).                                              *)
(*                                                                         *)
(* The four services run in callback groups of their own, so each has at   *)
(* most one call in flight; the subscriptions share the node's default     *)
(* group, so at most one callback runs.                                    *)
(***************************************************************************)
EXTENDS AttrAccess

CONSTANTS
    Names,          \* topic names, as toTopicName leaves them
    Topics,         \* IIOAttrTopic objects: bounds how many exist at once
    EnableRequests, \* [path, name, type] of what clients ask to enable
    WriteRequests,  \* [path, value] of what clients ask to write
    ReadRequests,   \* the paths clients read
    Messages,       \* [type, text]: what arrives on a /write topic, as text
    Numeric,        \* the texts stoi takes: an int32 comes first in them
    Overlap,        \* sets {t, u}: a call of t may start while one of u runs
    NULL

Services == {"AttrReadString", "AttrWriteString", "AttrEnableTopic", "AttrDisableTopic"}
Update   == "update"
Callers  == Services \cup {Update}
Threads  == Callers \cup Topics
Types    == {"STRING", "INT", "DOUBLE", "BOOL"}

(* A topic's attribute, name and message type, and the job of a call.      *)
Info  == [path : Paths, name : Names, type : Types]
Job   == [path : Paths \cup {NULL}, name : Names \cup {NULL}, type : Types \cup {NULL},
          value : Values \cup {NULL}, topic : Topics \cup {NULL}, wipes : BOOLEAN]
NoJob == [path |-> NULL, name |-> NULL, type |-> NULL, value |-> NULL, topic |-> NULL,
          wipes |-> FALSE]

ASSUME TopicAssumption ==
    /\ NULL \notin Names \cup Threads \cup Paths \cup Types \cup Values
    /\ NULL \notin Info
    /\ Callers \cap Topics = {}
    /\ EnableRequests \subseteq Info
    /\ WriteRequests \subseteq [path : Paths, value : Values]
    /\ ReadRequests \subseteq Paths
    /\ Messages \subseteq [type : Types, text : Values]
    /\ Numeric \subseteq Values
    /\ Overlap \subseteq SUBSET Callers

VARIABLES
    map,      \* m_attrTopicMap
    stage,    \* of each object: "none", "alive", or "dying" in its destructor
    info,     \* m_attrPath, m_topicName, m_topicType of each object
    lock,     \* the thread that holds each object's m_mutex
    stop,     \* m_stopThread of each object
    pc,       \* where each thread stands
    job,      \* what each caller is working on
    text,     \* what each publishing thread read last
    reply,    \* the last response of a service
    rosOk,    \* rclcpp::ok()
    crash     \* what ended the process, "no" while it runs

objects == <<stage, info, lock, stop>>
vars == <<attr, map, objects, pc, job, text, reply, rosOk, crash>>

------------------------------------------------------------------------------
(* Types *)

Labels  == {"idle", "lock", "write", "read", "unlock", "erase", "join", "insert"}
LoopLabels == {"none", "check", "lock", "read", "publish", "sleep", "finished"}
Crashes == {"no", "stoi", "map_race", "double_erase", "use_after_free"}

NoReply == [to |-> "nobody"]

TypeOK ==
    /\ AttrTypeOK
    /\ map \in [Names -> Topics \cup {NULL}]
    /\ stage \in [Topics -> {"none", "alive", "dying"}]
    /\ info \in [Topics -> Info \cup {NULL}]
    /\ \A o \in Topics : stage[o] # "none" => info[o] # NULL
    /\ lock \in [Topics -> Threads \cup {NULL}]
    /\ stop \in [Topics -> BOOLEAN]
    /\ pc \in [Threads -> Labels \cup LoopLabels]
    /\ \A c \in Callers : pc[c] \in Labels
    /\ \A o \in Topics : pc[o] \in LoopLabels
    /\ job \in [Callers -> Job]
    /\ text \in [Topics -> Texts]
    /\ rosOk \in BOOLEAN
    /\ crash \in Crashes

Init ==
    /\ attr \in [Registers -> Values]
    /\ map = [n \in Names |-> NULL]
    /\ stage = [o \in Topics |-> "none"]
    /\ info = [o \in Topics |-> NULL]
    /\ lock = [o \in Topics |-> NULL]
    /\ stop = [o \in Topics |-> FALSE]
    /\ pc = [t \in Threads |-> IF t \in Topics THEN "none" ELSE "idle"]
    /\ job = [c \in Callers |-> NoJob]
    /\ text = [o \in Topics |-> ""]
    /\ reply = NoReply
    /\ rosOk = TRUE
    /\ crash = "no"

------------------------------------------------------------------------------
(* Steps of a thread *)

At(t, label)   == crash = "no" /\ pc[t] = label
Goto(t, label) == pc' = [pc EXCEPT ![t] = label]
Unlock(o)      == lock' = [lock EXCEPT ![o] = NULL]

Crash(how) ==
    /\ crash' = how
    /\ UNCHANGED <<attr, map, objects, pc, job, text, reply, rosOk>>

Respond(s, ok, message) ==
    /\ Goto(s, "idle")
    /\ reply' = [to |-> s, value |-> job[s].value, ok |-> ok, text |-> message]
    /\ job' = [job EXCEPT ![s] = NoJob]

(* The callback is about to use an IIOAttrTopic that is gone.              *)
Dangling == pc[Update] \in {"lock", "unlock"} /\ stage[job[Update].topic] = "none"

------------------------------------------------------------------------------
(* The clients *)

MayStart(c) == rosOk /\ \A d \in Callers : pc[d] # "idle" => {c, d} \in Overlap

Start(c, label, new) ==
    /\ At(c, "idle")
    /\ MayStart(c)
    /\ Goto(c, label)
    /\ job' = [job EXCEPT ![c] = new]
    /\ UNCHANGED <<attr, map, objects, text, rosOk, crash>>

CallRead ==
    /\ \E p \in ReadRequests : Start("AttrReadString", "read", [NoJob EXCEPT !.path = p])
    /\ reply' = NoReply

CallWrite ==
    /\ \E r \in WriteRequests :
          Start("AttrWriteString", "write", [NoJob EXCEPT !.path = r.path, !.value = r.value])
    /\ reply' = NoReply

CallEnable ==
    /\ \E r \in EnableRequests :
          Start("AttrEnableTopic", "read",
                [NoJob EXCEPT !.path = r.path, !.name = r.name, !.type = r.type])
    /\ reply' = NoReply

CallDisable ==
    /\ \E n \in Names : Start("AttrDisableTopic", "erase", [NoJob EXCEPT !.name = n])
    /\ reply' = NoReply

(* A message on a /write topic: the executor takes it while the            *)
(* subscription is there and runs the callback with a plain this.          *)
TakeUpdate ==
    /\ \E o \in Topics, m \in Messages :
          /\ stage[o] # "none"
          /\ m.type = info[o].type
          /\ Start(Update, "lock",
                   [NoJob EXCEPT !.path = info[o].path, !.value = m.text, !.topic = o])
    /\ UNCHANGED reply

------------------------------------------------------------------------------
(* rwAttrPath, run by all but AttrDisableTopic.  Each access to the         *)
(* hardware is a step.                                                     *)

PathOf(t) == IF t \in Topics THEN info[t].path ELSE job[t].path

(* Mutant: the topic is enabled whatever the read returned.                *)
EndUnchecked(t, result) ==
    \/ /\ t \in {"AttrReadString", "AttrWriteString"}
       /\ Respond(t, result.ok, result.text)
       /\ UNCHANGED text
    \/ /\ t = "AttrEnableTopic"
       /\ Goto(t, "erase")
       /\ UNCHANGED <<text, reply, job>>
    \/ /\ t = Update
       /\ Goto(t, "unlock")
       /\ UNCHANGED <<text, reply, job>>
    \/ /\ t \in Topics
       /\ Goto(t, "publish")
       /\ text' = [text EXCEPT ![t] = result.text]
       /\ UNCHANGED <<reply, job>>

(* What the caller does with the result: the services answer with it,      *)
(* AttrEnableTopic goes on when it is good, update drops it, and the       *)
(* publishing thread takes the text whether it is good or not.             *)
End(t, result) ==
    \/ /\ t \in {"AttrReadString", "AttrWriteString"}
       /\ Respond(t, result.ok, result.text)
       /\ UNCHANGED text
    \/ /\ t = "AttrEnableTopic"
       /\ IF result.ok
          THEN Goto(t, "erase") /\ UNCHANGED <<reply, job>>
          ELSE Respond(t, FALSE, result.text)
       /\ UNCHANGED text
    \/ /\ t = Update
       /\ Goto(t, "unlock")
       /\ UNCHANGED <<text, reply, job>>
    \/ /\ t \in Topics
       /\ Goto(t, "publish")
       /\ text' = [text EXCEPT ![t] = result.text]
       /\ UNCHANGED <<reply, job>>

(* Mutant: a write that lands answers at once.                             *)
WriteNoReadBack(t) ==
    LET p == PathOf(t) IN
    /\ At(t, "write")
    /\ \/ /\ Reaches(p)
          /\ WriteLands(p, job[t].value)
          /\ End(t, [ok |-> TRUE, text |-> ""])
       \/ /\ Reaches(p) /\ Fails(p, Writable)
          /\ End(t, Failure)
          /\ UNCHANGED attr
       \/ /\ ~Reaches(p)
          /\ End(t, Unreached(p, TRUE))
          /\ UNCHANGED attr
    /\ UNCHANGED <<map, objects, rosOk, crash>>

Write(t) ==
    LET p == PathOf(t) IN
    /\ At(t, "write")
    /\ \/ /\ Reaches(p)
          /\ WriteLands(p, job[t].value)
          /\ Goto(t, "read")
          /\ UNCHANGED <<job, text, reply>>
       \/ /\ Reaches(p) /\ Fails(p, Writable)
          /\ End(t, Failure)
          /\ UNCHANGED attr
       \/ /\ ~Reaches(p)
          /\ End(t, Unreached(p, TRUE))
          /\ UNCHANGED attr
    /\ UNCHANGED <<map, objects, rosOk, crash>>

Read(t) ==
    LET p == PathOf(t) IN
    /\ At(t, "read")
    /\ \E result \in IF Reaches(p) THEN ReadResults(p) ELSE {Unreached(p, FALSE)} :
          End(t, result)
    /\ UNCHANGED <<attr, map, objects, rosOk, crash>>

------------------------------------------------------------------------------
(* update, the subscription callback: the whole of it behind m_mutex *)

(* Mutant: update does not wait for the publishing thread.                 *)
UpdateLockFree ==
    /\ At(Update, "lock")
    /\ ~Dangling
    /\ Goto(Update, "write")
    /\ UNCHANGED <<attr, map, objects, job, text, reply, rosOk, crash>>

UpdateLock ==
    /\ At(Update, "lock")
    /\ ~Dangling
    /\ lock[job[Update].topic] = NULL
    /\ lock' = [lock EXCEPT ![job[Update].topic] = Update]
    /\ Goto(Update, "write")
    /\ UNCHANGED <<attr, map, stage, info, stop, job, text, reply, rosOk, crash>>

UpdateUnlock ==
    /\ At(Update, "unlock")
    /\ ~Dangling
    /\ Unlock(job[Update].topic)
    /\ Goto(Update, "idle")
    /\ job' = [job EXCEPT ![Update] = NoJob]
    /\ UNCHANGED <<attr, map, stage, info, stop, text, reply, rosOk, crash>>

(* Undefined behaviour; rwAttrPath in between has what it needs by value.  *)
UpdateDangling ==
    /\ crash = "no"
    /\ Dangling
    /\ Crash("use_after_free")

------------------------------------------------------------------------------
(* m_attrTopicMap: AttrEnableTopic and AttrDisableTopic erase, AttrEnable- *)
(* Topic inserts, and neither takes a lock.                                *)

MapUsers == {"AttrEnableTopic", "AttrDisableTopic"}

MapRace(s) ==
    /\ At(s, "erase") \/ At(s, "insert")
    /\ \E u \in MapUsers \ {s} : pc[u] \in {"erase", "insert"}
    /\ Crash("map_race")

NotThere(s) ==
    /\ At(s, "erase")
    /\ map[job[s].name] = NULL
    /\ IF s = "AttrDisableTopic"
       THEN Respond(s, FALSE, "")
       ELSE Goto(s, "insert") /\ UNCHANGED <<reply, job>>
    /\ UNCHANGED <<attr, map, objects, text, rosOk, crash>>

(* Mutant: the members go before the thread that uses them is joined.      *)
EraseFreesFirst(s) ==
    LET o    == map[job[s].name]
        only == \A n \in Names \ {job[s].name} : map[n] = NULL
    IN  /\ At(s, "erase")
        /\ o # NULL
        /\ \/ /\ stage[o] = "alive"
              /\ stage' = [stage EXCEPT ![o] = "dying"]
              /\ info' = [info EXCEPT ![o] = NULL]
              /\ stop' = [stop EXCEPT ![o] = TRUE]
              /\ map' = IF only THEN map ELSE [map EXCEPT ![job[s].name] = NULL]
              /\ job' = [job EXCEPT ![s].topic = o, ![s].wipes = only]
              /\ Goto(s, "join")
              /\ UNCHANGED <<attr, lock, text, reply, rosOk, crash>>
           \/ /\ stage[o] # "alive"
              /\ Crash("double_erase")

(* map::erase(key) unlinks the element and then runs ~IIOAttrTopic; when   *)
(* it erases the whole map it is a clear(), which runs the destructor      *)
(* first and empties the map after it.                                     *)
Erase(s) ==
    LET o    == map[job[s].name]
        only == \A n \in Names \ {job[s].name} : map[n] = NULL
    IN  /\ At(s, "erase")
        /\ o # NULL
        /\ \/ /\ stage[o] = "alive"
              /\ stage' = [stage EXCEPT ![o] = "dying"]
              /\ stop' = [stop EXCEPT ![o] = TRUE]
              /\ map' = IF only THEN map ELSE [map EXCEPT ![job[s].name] = NULL]
              /\ job' = [job EXCEPT ![s].topic = o, ![s].wipes = only]
              /\ Goto(s, "join")
              /\ UNCHANGED <<attr, info, lock, text, reply, rosOk, crash>>
           \/ /\ stage[o] # "alive"
              /\ Crash("double_erase")

(* Mutant: the destructor does not join the thread.                        *)
JoinNoWait(s) ==
    LET o == job[s].topic IN
    /\ At(s, "join")
    /\ stage' = [stage EXCEPT ![o] = "none"]
    /\ map' = IF job[s].wipes THEN [n \in Names |-> NULL] ELSE map
    /\ IF s = "AttrDisableTopic"
       THEN Respond(s, TRUE, "Success")
       ELSE Goto(s, "insert") /\ UNCHANGED <<reply, job>>
    /\ UNCHANGED <<attr, info, lock, stop, text, rosOk, crash>>

(* The end of the destructor: the thread is joined and the members go,     *)
(* m_mutex and the subscription with them.                                 *)
Join(s) ==
    LET o == job[s].topic IN
    /\ At(s, "join")
    /\ pc[o] = "finished"
    /\ stage' = [stage EXCEPT ![o] = "none"]
    /\ info' = [info EXCEPT ![o] = NULL]
    /\ stop' = [stop EXCEPT ![o] = FALSE]
    /\ text' = [text EXCEPT ![o] = ""]
    /\ map' = IF job[s].wipes THEN [n \in Names |-> NULL] ELSE map
    /\ \/ /\ s = "AttrDisableTopic"
          /\ pc' = [pc EXCEPT ![s] = "idle", ![o] = "none"]
          /\ reply' = [to |-> s, value |-> NULL, ok |-> TRUE, text |-> "Success"]
          /\ job' = [job EXCEPT ![s] = NoJob]
       \/ /\ s = "AttrEnableTopic"
          /\ pc' = [pc EXCEPT ![s] = "insert", ![o] = "none"]
          /\ UNCHANGED <<reply, job>>
    /\ UNCHANGED <<attr, lock, rosOk, crash>>

(* Memory that no callback still points into, so that what dangles shows.  *)
Unused(o) == stage[o] = "none" /\ job[Update].topic # o

(* The constructor, with the thread it starts, and the insertion.          *)
Insert(s) ==
    /\ At(s, "insert")
    /\ \E o \in Topics :
          /\ Unused(o)
          /\ stage' = [stage EXCEPT ![o] = "alive"]
          /\ info' = [info EXCEPT ![o] = [path |-> job[s].path, name |-> job[s].name,
                                          type |-> job[s].type]]
          /\ lock' = [lock EXCEPT ![o] = NULL]
          /\ map' = [map EXCEPT ![job[s].name] = o]
          /\ pc' = [pc EXCEPT ![s] = "idle", ![o] = "check"]
    /\ reply' = [to |-> s, value |-> NULL, ok |-> TRUE, text |-> "Success"]
    /\ job' = [job EXCEPT ![s] = NoJob]
    /\ UNCHANGED <<attr, stop, text, rosOk, crash>>

------------------------------------------------------------------------------
(* publishingLoop of object o: read and publish behind m_mutex *)

(* Mutants: the loop looks at one of its two conditions only.              *)
LoopCheckRosOnly(o) ==
    /\ At(o, "check")
    /\ Goto(o, IF rosOk THEN "lock" ELSE "finished")
    /\ UNCHANGED <<attr, map, objects, job, text, reply, rosOk, crash>>
LoopCheckStopOnly(o) ==
    /\ At(o, "check")
    /\ Goto(o, IF ~stop[o] THEN "lock" ELSE "finished")
    /\ UNCHANGED <<attr, map, objects, job, text, reply, rosOk, crash>>

LoopCheck(o) ==
    /\ At(o, "check")
    /\ Goto(o, IF rosOk /\ ~stop[o] THEN "lock" ELSE "finished")
    /\ UNCHANGED <<attr, map, objects, job, text, reply, rosOk, crash>>

LoopLock(o) ==
    /\ At(o, "lock")
    /\ lock[o] = NULL
    /\ lock' = [lock EXCEPT ![o] = o]
    /\ Goto(o, "read")
    /\ UNCHANGED <<attr, map, stage, info, stop, job, text, reply, rosOk, crash>>

(* publish sends the text as it is or the number stoi makes of it, of all  *)
(* types but STRING; an exception leaves the thread: std::terminate.       *)
Publish(o) ==
    /\ At(o, "publish")
    /\ \/ /\ info[o].type = "STRING" \/ text[o] \in Numeric
          /\ Unlock(o)
          /\ Goto(o, "sleep")
          /\ UNCHANGED <<attr, map, stage, info, stop, job, text, reply, rosOk, crash>>
       \/ /\ info[o].type # "STRING" /\ text[o] \notin Numeric
          /\ Crash("stoi")

LoopSleep(o) ==
    /\ At(o, "sleep")
    /\ Goto(o, "check")
    /\ UNCHANGED <<attr, map, objects, job, text, reply, rosOk, crash>>

(* SIGINT: rclcpp::ok() turns false and nothing new is served.             *)
Shutdown ==
    /\ crash = "no"
    /\ rosOk
    /\ rosOk' = FALSE
    /\ UNCHANGED <<attr, map, objects, pc, job, text, reply, crash>>

------------------------------------------------------------------------------
Clients == CallRead \/ CallWrite \/ CallEnable \/ CallDisable \/ TakeUpdate

(* The steps of a thread that waits for a lock, and those of one that does *)
(* not (the hardware answers every access).                                *)
Acquire(t) == (t = Update /\ UpdateLock) \/ (t \in Topics /\ LoopLock(t))

Proceed(t) ==
    \/ t \in {"AttrWriteString", Update} /\ Write(t)
    \/ t # "AttrDisableTopic" /\ Read(t)
    \/ t = Update /\ (UpdateUnlock \/ UpdateDangling)
    \/ t \in MapUsers /\ (MapRace(t) \/ NotThere(t) \/ Erase(t) \/ Join(t))
    \/ t = "AttrEnableTopic" /\ Insert(t)
    \/ t \in Topics /\ (LoopCheck(t) \/ Publish(t) \/ LoopSleep(t))

Next == Clients \/ Shutdown \/ \E t \in Threads : Acquire(t) \/ Proceed(t)

Spec == Init /\ [][Next]_vars

(* A runnable thread runs on; a thread that waits for m_mutex gets it if   *)
(* it is free again and again, as the publishing thread sleeps outside it. *)
Fairness == \A t \in Threads : WF_vars(Proceed(t)) /\ SF_vars(Acquire(t))

FairSpec == Spec /\ Fairness

------------------------------------------------------------------------------
(* What holds for every client *)

(* m_mutex of a topic is held by the thread that reads and publishes or by  *)
(* the callback that writes, and by nobody else.                           *)
LockInv ==
    /\ \A o \in Topics : pc[o] \in {"read", "publish"} <=> lock[o] = o
    /\ \A o \in Topics :
          lock[o] = Update => pc[Update] \in {"write", "read", "unlock"} /\ job[Update].topic = o

------------------------------------------------------------------------------
(* What holds when no client enables or disables a topic while another     *)
(* does, or while a message on the topic's /write is served *)

MapUsersAlone == \A pair \in Overlap : pair \cap MapUsers = {}

(* What a topic can come to be of: AttrEnableTopic reads the attribute.    *)
CanEnable == {r \in EnableRequests : Kind[r.path] \in {"context", "device", "channel"}}

(* A number stays a number behind a numeric topic: its transfers do not    *)
(* fail, as the text of the error is published like any other.             *)
NumbersStay ==
    \A r \in CanEnable :
        r.type # "STRING" =>
            /\ Values \subseteq Numeric
            /\ Reaches(r.path) => ~Fails(r.path, Readable)

(* What has a topic is written by that topic's subscription alone.         *)
NoOtherWriter ==
    /\ \A r \in CanEnable, w \in WriteRequests : r.path # w.path
    /\ \A q, r \in CanEnable : q.path = r.path => q.name = r.name

(* What is written and what is read back is one attribute.                 *)
OneRegister ==
    \A w \in WriteRequests :
        \A a \in Lands(w.path, Writable), b \in Lands(w.path, Readable) : a = b

(* No call sequence ends the process.                                      *)
NoCrash == crash = "no"

(* Between calls, the map and the objects agree: every object is the one   *)
(* of its name, its thread runs until rclcpp::ok() is false, and no thread *)
(* outlives its object (erase, ~IIOAttrTopic).                             *)
TopicsOwned ==
    (\A s \in MapUsers : pc[s] = "idle") =>
        \A o \in Topics :
            IF stage[o] = "none"
            THEN pc[o] = "none" /\ \A n \in Names : map[n] # o
            ELSE /\ map[info[o].name] = o
                 /\ ~stop[o]
                 /\ pc[o] \in {"none", "finished"} => ~rosOk

(* What a topic is about to publish is the attribute's value, or the text  *)
(* of an error, as long as the attribute is written through that topic     *)
(* only: read and publish are one critical section, and so is update.      *)
PublishesCurrent ==
    \A o \in Topics :
        pc[o] = "publish" =>
            text[o] \in {attr[r] : r \in Lands(info[o].path, Readable)} \cup {"error"}

(* A successful AttrWriteString answers with what the hardware made of the  *)
(* value it was given (rwAttrPath reads it back; test/attr_srv.test.py:186 *)
(* compares the two with a tolerance), where nobody else writes the        *)
(* attribute: not with an earlier value, nor with somebody else's.         *)
WriteReadsBack == reply.to = "AttrWriteString" /\ reply.ok => reply.text \in Rounds[reply.value]

(* Every call and every update callback ends.                              *)
EveryCallReturns == \A c \in Callers : pc[c] # "idle" ~> pc[c] = "idle"

(* After SIGINT every publishing thread ends by itself.                    *)
ShutdownStopsTopics == ~rosOk ~> \A o \in Topics : pc[o] \in {"none", "finished"}

------------------------------------------------------------------------------
(* What a comment says, and the code does not do *)

(* "shared ptr lifetime should delete this publisher automatically"        *)
(* (attr_publisher.cpp:36): no callback runs in a deleted topic.           *)
UpdateFindsTopic == crash # "use_after_free"

=============================================================================
