----------------------- MODULE AttrTopicOrderly_proofs -----------------------
(***************************************************************************)
(* What holds of AttrTopic when nothing else runs while a topic is enabled *)
(* or disabled (MapUsersAlone): the map, the objects and the threads       *)
(* agree.  Of attributes whose numbers stay numbers (NumbersStay) nothing  *)
(* ends the node; of attributes with one writer (NoOtherWriter) a topic    *)
(* publishes the value and a write reads back what it wrote.               *)
(***************************************************************************)
EXTENDS AttrTopic_proofs

(* A service that uses the map is alone with the publishing threads.       *)
AloneInv ==
    \A s \in MapUsers : pc[s] # "idle" => \A c \in Callers \ {s} : pc[c] = "idle"

(* TopicsOwned, and what holds while an object is being deleted.           *)
NoObject(o) ==
    stage[o] = "none" => pc[o] = "none" /\ ~stop[o] /\ \A n \in Names : map[n] # o

AliveObject(o) ==
    stage[o] = "alive" =>
        /\ \A n \in Names : map[n] = o <=> n = info[o].name
        /\ ~stop[o]
        /\ pc[o] # "none"
        /\ pc[o] = "finished" => ~rosOk

DyingObject(o) ==
    stage[o] = "dying" => \E s \in MapUsers : pc[s] = "join" /\ job[s].topic = o

JoinInv ==
    \A s \in MapUsers :
        pc[s] = "join" =>
            /\ stage[job[s].topic] = "dying"
            /\ \A n \in Names : map[n] = job[s].topic => job[s].wipes
            /\ job[s].wipes => \A n \in Names : map[n] \in {NULL, job[s].topic}
            /\ ~job[s].wipes => map[job[s].name] = NULL

InsertInv == pc["AttrEnableTopic"] = "insert" => map[job["AttrEnableTopic"].name] = NULL

(* The callback runs in an object that is not being deleted.               *)
CallbackInv == pc[Update] # "idle" => stage[job[Update].topic] = "alive"

OwnedInv ==
    /\ AloneInv
    /\ \A o \in Topics : NoObject(o) /\ AliveObject(o) /\ DyingObject(o)
    /\ JoinInv
    /\ InsertInv
    /\ CallbackInv
    /\ crash \in {"no", "stoi"}

(* A topic is of something AttrEnableTopic was asked for and could read.   *)
RequestInv ==
    LET j == job["AttrEnableTopic"]
        r == [path |-> j.path, name |-> j.name, type |-> j.type]
    IN  /\ pc["AttrEnableTopic"] # "idle" => r \in EnableRequests
        /\ pc["AttrEnableTopic"] \in {"erase", "join", "insert"} => r \in CanEnable

InfoInv ==
    /\ \A o \in Topics : stage[o] # "none" => info[o] \in CanEnable
    /\ pc[Update] # "idle" => \E r \in CanEnable : job[Update].path = r.path

SourceInv == RequestInv /\ InfoInv

NumberInv ==
    \A o \in Topics : pc[o] = "publish" /\ info[o].type # "STRING" => text[o] \in Numeric

(* The callback writes the attribute of its topic.                         *)
OwnPathInv == pc[Update] # "idle" => job[Update].path = info[job[Update].topic].path

WriterInv ==
    pc["AttrWriteString"] # "idle" => \E w \in WriteRequests : w.path = job["AttrWriteString"].path

ReadBackInv ==
    pc["AttrWriteString"] = "read" =>
        LET j == job["AttrWriteString"] IN
        /\ Reaches(j.path)
        /\ \A b \in Lands(j.path, Readable) : attr[b] \in Rounds[j.value]

------------------------------------------------------------------------------
(* What a step moves *)

LEMMA Moves ==
    ASSUME NodeInv, NEW t \in Threads, NEW label, Goto(t, label)
    PROVE  pc'[t] = label /\ \A u \in Threads \ {t} : pc'[u] = pc[u]
  BY DEF NodeInv, TypeOK, Goto

LEMMA Responds ==
    ASSUME NodeInv, NEW s \in Services, NEW ok, NEW message, Respond(s, ok, message)
    PROVE  /\ pc'[s] = "idle" /\ \A u \in Threads \ {s} : pc'[u] = pc[u]
           /\ job'[s] = NoJob /\ \A c \in Callers \ {s} : job'[c] = job[c]
           /\ reply' = [to |-> s, value |-> job[s].value, ok |-> ok, text |-> message]
  BY Moves, ThreadFacts DEF Respond, NodeInv, TypeOK, Callers, Threads

(* The end of rwAttrPath: where the thread goes and what it takes along.   *)
LEMMA EndMoves ==
    ASSUME NodeInv, NEW t \in Threads, NEW result, End(t, result)
    PROVE  /\ \A u \in Threads \ {t} : pc'[u] = pc[u]
           /\ \A c \in Callers \ {t} : job'[c] = job[c]
           /\ t = "AttrEnableTopic" =>
                 \/ result.ok /\ pc'[t] = "erase" /\ job'[t] = job[t]
                 \/ ~result.ok /\ pc'[t] = "idle"
           /\ t \in Callers /\ t # "AttrEnableTopic" /\ t # Update => pc'[t] = "idle"
           /\ t = Update => pc'[t] = "unlock" /\ job'[t] = job[t]
           /\ t \in Topics => pc'[t] = "publish" /\ text' = [text EXCEPT ![t] = result.text]
           /\ t \notin Topics => text' = text
           /\ t \in {"AttrReadString", "AttrWriteString"} =>
                 reply' = [to |-> t, value |-> job[t].value, ok |-> result.ok,
                           text |-> result.text]
           /\ reply' = reply \/ (t \in Services /\ reply'.to = t)
  <1>1. CASE t \in {"AttrReadString", "AttrWriteString"} /\ Respond(t, result.ok, result.text)
             /\ UNCHANGED text
    <2>1. t \in Services /\ t \notin Topics /\ t # Update
      BY <1>1, ThreadFacts DEF Services
    <2>2. /\ pc'[t] = "idle" /\ \A u \in Threads \ {t} : pc'[u] = pc[u]
          /\ \A c \in Callers \ {t} : job'[c] = job[c]
          /\ reply' = [to |-> t, value |-> job[t].value, ok |-> result.ok, text |-> result.text]
      BY <1>1, <2>1, Responds
    <2>3. reply'.to = t
      BY <2>2
    <2> QED BY <1>1, <2>1, <2>2, <2>3
  <1>2. CASE t = "AttrEnableTopic" /\ result.ok /\ Goto(t, "erase") /\ UNCHANGED <<reply, job, text>>
    <2>1. t \notin Topics /\ t # Update
      BY <1>2, ThreadFacts
    <2> QED BY <1>2, <2>1, Moves, ThreadFacts
  <1>3. CASE t = "AttrEnableTopic" /\ ~result.ok /\ Respond(t, FALSE, result.text) /\ UNCHANGED text
    <2>1. t \in Services /\ t \notin Topics /\ t # Update
      BY <1>3, ThreadFacts DEF Services
    <2>2. /\ pc'[t] = "idle" /\ \A u \in Threads \ {t} : pc'[u] = pc[u]
          /\ \A c \in Callers \ {t} : job'[c] = job[c]
      BY <1>3, <2>1, Responds
    <2>3. reply'.to = t
      BY <1>3 DEF Respond
    <2> QED BY <1>3, <2>1, <2>2, <2>3
  <1>4. CASE t = Update /\ Goto(t, "unlock") /\ UNCHANGED <<text, reply, job>>
    <2>1. t \notin Topics /\ t \notin {"AttrReadString", "AttrWriteString", "AttrEnableTopic"}
      BY <1>4, ThreadFacts
    <2> QED BY <1>4, <2>1, Moves, ThreadFacts
  <1>5. CASE t \in Topics /\ Goto(t, "publish") /\ text' = [text EXCEPT ![t] = result.text]
             /\ UNCHANGED <<reply, job>>
    <2>1. t \notin Callers /\ t # Update
          /\ t \notin {"AttrReadString", "AttrWriteString", "AttrEnableTopic"}
      BY <1>5, ThreadFacts
    <2> QED BY <1>5, <2>1, Moves, ThreadFacts
  <1> QED BY <1>1, <1>2, <1>3, <1>4, <1>5 DEF End

------------------------------------------------------------------------------
(* The map and the objects *)

(* A step that leaves the map and the objects alone.                       *)
LEMMA OwnedFrame ==
    ASSUME OwnedInv, UNCHANGED <<map, stage, info, stop>>,
           crash' \in {"no", "stoi"}, rosOk' => rosOk,
           \A s \in MapUsers :
              /\ pc'[s] = "join" <=> pc[s] = "join"
              /\ pc[s] = "join" => job'[s] = job[s],
           \A o \in Topics :
              /\ pc'[o] = "none" <=> pc[o] = "none"
              /\ pc'[o] = "finished" => pc[o] = "finished" \/ stop[o] \/ ~rosOk',
           AloneInv', InsertInv', CallbackInv'
    PROVE  OwnedInv'
  <1>1. \A o \in Topics : NoObject(o)' /\ AliveObject(o)' /\ DyingObject(o)'
    <2> SUFFICES ASSUME NEW o \in Topics
                 PROVE  NoObject(o)' /\ AliveObject(o)' /\ DyingObject(o)'
      OBVIOUS
    <2>1. NoObject(o) /\ AliveObject(o) /\ DyingObject(o)
      BY DEF OwnedInv
    <2> QED BY <2>1 DEF NoObject, AliveObject, DyingObject
  <1>2. JoinInv'
    BY DEF OwnedInv, JoinInv
  <1> QED BY <1>1, <1>2 DEF OwnedInv

(* A step of a thread, or of a caller that does not use the map.           *)
LEMMA OwnedAside ==
    ASSUME OwnedInv, UNCHANGED <<map, stage, info, stop>>,
           crash' \in {"no", "stoi"}, rosOk' => rosOk,
           \A s \in MapUsers : pc'[s] = pc[s] /\ job'[s] = job[s],
           \A c \in Callers : pc[c] = "idle" => pc'[c] = "idle",
           pc'[Update] # "idle" => job'[Update] = job[Update],
           \A o \in Topics :
              /\ pc'[o] = "none" <=> pc[o] = "none"
              /\ pc'[o] = "finished" => pc[o] = "finished" \/ stop[o] \/ ~rosOk'
    PROVE  OwnedInv'
  <1>1. AloneInv'
    BY ThreadFacts DEF OwnedInv, AloneInv
  <1>2. InsertInv'
    BY ThreadFacts DEF OwnedInv, InsertInv
  <1>3. CallbackInv'
    BY ThreadFacts DEF OwnedInv, CallbackInv
  <1> QED BY <1>1, <1>2, <1>3, OwnedFrame

LEMMA OwnedStart ==
    ASSUME MapUsersAlone, NodeInv, OwnedInv,
           NEW c \in Callers, NEW label \in {"read", "write", "erase", "lock"}, NEW new,
           Start(c, label, new),
           c = Update => new.topic \in Topics /\ stage[new.topic] # "none"
    PROVE  OwnedInv'
  <1>1. /\ pc'[c] = label /\ \A u \in Threads \ {c} : pc'[u] = pc[u]
        /\ job'[c] = new /\ \A d \in Callers \ {c} : job'[d] = job[d]
        /\ pc[c] = "idle"
    BY Moves, ThreadFacts DEF Start, At, NodeInv, TypeOK
  <1>2. \A d \in Callers : pc[d] # "idle" => c \notin MapUsers /\ d \notin MapUsers
    BY DEF Start, MayStart, MapUsersAlone
  <1>3. AloneInv'
    BY <1>1, <1>2, ThreadFacts DEF AloneInv
  <1>4. InsertInv'
    BY <1>1, ThreadFacts DEF OwnedInv, InsertInv, Start
  <1>5. CallbackInv'
    <2>1. CASE c = Update
      <3>1. stage[new.topic] # "dying"
        BY <1>2, <2>1, ThreadFacts DEF OwnedInv, DyingObject
      <3> QED BY <1>1, <2>1, <3>1 DEF CallbackInv, Start, objects, NodeInv, TypeOK
    <2>2. CASE c # Update
      BY <1>1, <2>2, ThreadFacts DEF OwnedInv, CallbackInv, Start, objects
    <2> QED BY <2>1, <2>2
  <1>6. \A o \in Topics : pc'[o] = pc[o]
    BY <1>1, ThreadFacts
  <1> QED BY <1>1, <1>3, <1>4, <1>5, <1>6, OwnedFrame, ThreadFacts DEF Start, objects, OwnedInv

LEMMA OwnedClient ==
    ASSUME MapUsersAlone, NodeInv, OwnedInv, Clients
    PROVE  OwnedInv'
  BY OwnedStart, ThreadFacts
     DEF Clients, CallRead, CallWrite, CallEnable, CallDisable, TakeUpdate, NoJob

(* rwAttrPath                                                              *)
LEMMA OwnedWrite ==
    ASSUME NodeInv, OwnedInv, NEW t \in {"AttrWriteString", Update}, Write(t)
    PROVE  OwnedInv'
  <1>1. t \in Callers /\ t \in Threads /\ t \notin MapUsers /\ t # "AttrEnableTopic"
        /\ pc[t] = "write"
    BY ThreadFacts DEF Write, At
  <1>2. UNCHANGED <<map, stage, info, stop, rosOk, crash>>
    BY DEF Write, objects
  <1>3. /\ \A u \in Threads \ {t} : pc'[u] = pc[u]
        /\ \A c \in Callers \ {t} : job'[c] = job[c]
        /\ t = Update => job'[t] = job[t]
    <2>1. CASE Goto(t, "read") /\ UNCHANGED job
      BY <1>1, <2>1, Moves
    <2>2. CASE \E result : End(t, result)
      BY <1>1, <2>2, EndMoves
    <2> QED BY <2>1, <2>2 DEF Write
  <1>4. \A o \in Topics : pc'[o] = pc[o]
    BY <1>1, <1>3, ThreadFacts
  <1>5. \A s \in MapUsers : pc'[s] = pc[s] /\ job'[s] = job[s]
    BY <1>1, <1>3, ThreadFacts
  <1> QED BY <1>1, <1>2, <1>3, <1>4, <1>5, OwnedAside, ThreadFacts DEF OwnedInv

LEMMA OwnedRead ==
    ASSUME NodeInv, OwnedInv, NEW t \in Threads, Read(t)
    PROVE  OwnedInv'
  <1>1. pc[t] = "read" /\ UNCHANGED <<map, stage, info, stop, rosOk, crash>>
    BY DEF Read, At, objects
  <1>2. PICK result : End(t, result)
    BY DEF Read
  <1>3. CASE t \notin MapUsers
    <2>1. \A s \in MapUsers : pc'[s] = pc[s] /\ job'[s] = job[s]
      BY <1>2, <1>3, EndMoves, ThreadFacts
    <2>2. /\ \A c \in Callers : pc[c] = "idle" => pc'[c] = "idle"
          /\ pc'[Update] # "idle" => job'[Update] = job[Update]
      BY <1>1, <1>2, EndMoves, ThreadFacts
    <2>3. \A o \in Topics : pc'[o] = pc[o] \/ (pc[o] = "read" /\ pc'[o] = "publish")
      BY <1>1, <1>2, EndMoves, ThreadFacts
    <2> QED BY <1>1, <2>1, <2>2, <2>3, OwnedAside DEF OwnedInv
  <1>4. CASE t \in MapUsers
    <2>1. t = "AttrEnableTopic"
      BY <1>1, <1>4 DEF NodeInv, PlaceInv, MapUsers
    <2>2. pc'[t] \in {"erase", "idle"}
      BY <1>2, <2>1, EndMoves
    <2>3. /\ \A u \in Threads \ {t} : pc'[u] = pc[u]
          /\ \A c \in Callers \ {t} : job'[c] = job[c]
      BY <1>2, EndMoves
    <2>4. AloneInv'
      BY <1>1, <2>1, <2>2, <2>3, ThreadFacts DEF OwnedInv, AloneInv
    <2>5. InsertInv'
      BY <2>1, <2>2 DEF InsertInv
    <2>6. CallbackInv'
      BY <1>1, <2>1, <2>3, ThreadFacts DEF OwnedInv, CallbackInv
    <2>7. \A o \in Topics : pc'[o] = pc[o]
      BY <2>1, <2>3, ThreadFacts
    <2>8. \A s \in MapUsers : (pc'[s] = "join" <=> pc[s] = "join") /\ (pc[s] = "join" => job'[s] = job[s])
      BY <1>1, <2>1, <2>2, <2>3, ThreadFacts
    <2> QED BY <1>1, <2>4, <2>5, <2>6, <2>7, <2>8, OwnedFrame DEF OwnedInv
  <1> QED BY <1>3, <1>4

(* The publishing threads and the callback                                 *)
LEMMA OwnedLoop ==
    ASSUME NodeInv, OwnedInv, NEW o \in Topics,
           LoopCheck(o) \/ LoopLock(o) \/ Publish(o) \/ LoopSleep(o)
    PROVE  OwnedInv'
  <1>1. /\ UNCHANGED <<map, stage, info, stop, rosOk, job>>
        /\ crash = "no" /\ crash' \in {"no", "stoi"}
    BY DEF LoopCheck, LoopLock, Publish, LoopSleep, Crash, objects, At
  <1>2. /\ pc[o] \in {"check", "lock", "publish", "sleep"}
        /\ \/ pc' = pc
           \/ Goto(o, "lock") \/ Goto(o, "read") \/ Goto(o, "sleep") \/ Goto(o, "check")
           \/ Goto(o, "finished") /\ ~(rosOk /\ ~stop[o])
    BY DEF LoopCheck, LoopLock, Publish, LoopSleep, Crash, At
  <1>3. o \in Threads /\ o \notin Callers
    BY ThreadFacts
  <1>4. /\ \A u \in Threads \ {o} : pc'[u] = pc[u]
        /\ pc'[o] # "none"
        /\ pc'[o] = "finished" => pc[o] = "finished" \/ stop[o] \/ ~rosOk
    BY <1>2, <1>3, Moves
  <1>5. \A c \in Callers : pc'[c] = pc[c]
    BY <1>3, <1>4, ThreadFacts
  <1>6. \A q \in Topics :
           /\ pc'[q] = "none" <=> pc[q] = "none"
           /\ pc'[q] = "finished" => pc[q] = "finished" \/ stop[q] \/ ~rosOk'
    <2> SUFFICES ASSUME NEW q \in Topics
                 PROVE  /\ pc'[q] = "none" <=> pc[q] = "none"
                        /\ pc'[q] = "finished" => pc[q] = "finished" \/ stop[q] \/ ~rosOk'
      OBVIOUS
    <2>1. CASE q = o
      BY <1>1, <1>2, <1>4, <2>1
    <2>2. CASE q # o
      BY <1>4, <2>2, ThreadFacts
    <2> QED BY <2>1, <2>2
  <1> QED BY <1>1, <1>5, <1>6, OwnedAside, ThreadFacts

LEMMA OwnedUpdate ==
    ASSUME NodeInv, OwnedInv, UpdateLock \/ UpdateUnlock
    PROVE  OwnedInv'
  <1>1. UNCHANGED <<map, stage, info, stop, rosOk, crash>>
    BY DEF UpdateLock, UpdateUnlock
  <1>2. /\ pc[Update] # "idle" /\ \A u \in Threads \ {Update} : pc'[u] = pc[u]
        /\ \A c \in Callers \ {Update} : job'[c] = job[c]
        /\ pc'[Update] = "idle" \/ job'[Update] = job[Update]
    BY Moves, ThreadFacts DEF UpdateLock, UpdateUnlock, At, NodeInv, TypeOK
  <1>3. \A o \in Topics : pc'[o] = pc[o]
    BY <1>2, ThreadFacts
  <1> QED BY <1>1, <1>2, <1>3, OwnedAside, ThreadFacts DEF OwnedInv

(* The map                                                                 *)
LEMMA Alone ==
    ASSUME OwnedInv, NEW s \in MapUsers, pc[s] # "idle"
    PROVE  /\ \A c \in Callers \ {s} : pc[c] = "idle"
           /\ \A o \in Topics : stage[o] = "dying" => pc[s] = "join" /\ job[s].topic = o
  BY ThreadFacts DEF OwnedInv, AloneInv, DyingObject

LEMMA OwnedNotThere ==
    ASSUME NodeInv, OwnedInv, NEW s \in MapUsers, NotThere(s)
    PROVE  OwnedInv'
  <1>1. /\ s \in Services /\ s \in Callers /\ s \in Threads /\ s # Update /\ s \notin Topics
        /\ pc[s] = "erase" /\ map[job[s].name] = NULL
        /\ UNCHANGED <<map, stage, info, stop, rosOk, crash>>
    BY ThreadFacts DEF NotThere, At, objects, Services
  <1>2. /\ \A u \in Threads \ {s} : pc'[u] = pc[u]
        /\ \A c \in Callers \ {s} : job'[c] = job[c]
        /\ pc'[s] = "idle" \/ (pc'[s] = "insert" /\ job'[s] = job[s])
    BY <1>1, Moves, Responds DEF NotThere
  <1>3. \A c \in Callers \ {s} : pc[c] = "idle" /\ pc'[c] = "idle"
    BY <1>1, <1>2, Alone, ThreadFacts
  <1>4. AloneInv'
    BY <1>3, ThreadFacts DEF AloneInv
  <1>5. InsertInv'
    BY <1>1, <1>2, <1>3, ThreadFacts DEF InsertInv
  <1>6. CallbackInv'
    BY <1>1, <1>3, ThreadFacts DEF CallbackInv
  <1>7. \A o \in Topics : pc'[o] = pc[o]
    BY <1>1, <1>2, ThreadFacts
  <1>8. \A r \in MapUsers : pc'[r] # "join" /\ pc[r] # "join"
    BY <1>1, <1>2, <1>3, ThreadFacts
  <1> QED BY <1>1, <1>4, <1>5, <1>6, <1>7, <1>8, OwnedFrame DEF OwnedInv

LEMMA OwnedErase ==
    ASSUME NodeInv, OwnedInv, NEW s \in MapUsers, Erase(s)
    PROVE  OwnedInv'
  <1> DEFINE o == map[job[s].name]
             only == \A n \in Names \ {job[s].name} : map[n] = NULL
  <1>1. /\ s \in Callers /\ s \in Threads /\ s # Update /\ s \notin Topics
        /\ pc[s] = "erase" /\ job[s].name \in Names /\ o \in Topics
    BY ThreadFacts DEF Erase, At, NodeInv, JobInv, TypeOK
  <1>2. stage[o] = "alive" /\ info[o].name = job[s].name
    <2>1. stage[o] # "none"
      BY <1>1 DEF OwnedInv, NoObject
    <2>2. stage[o] # "dying"
      BY <1>1, Alone
    <2>3. stage[o] = "alive"
      BY <1>1, <2>1, <2>2 DEF NodeInv, TypeOK
    <2> QED BY <1>1, <2>3 DEF OwnedInv, AliveObject
  <1>3. /\ stage' = [stage EXCEPT ![o] = "dying"]
        /\ stop' = [stop EXCEPT ![o] = TRUE]
        /\ map' = IF only THEN map ELSE [map EXCEPT ![job[s].name] = NULL]
        /\ job' = [job EXCEPT ![s].topic = o, ![s].wipes = only]
        /\ Goto(s, "join")
        /\ UNCHANGED <<attr, info, lock, text, reply, rosOk, crash>>
    BY <1>2 DEF Erase
  <1>4. only \in BOOLEAN
    OBVIOUS
  <1>5. only => \A n \in Names : map[n] \in {NULL, o}
    OBVIOUS
  <1> HIDE DEF only
  <1>6. pc'[s] = "join" /\ \A u \in Threads \ {s} : pc'[u] = pc[u]
    BY <1>1, <1>3, Moves
  <1>7. /\ job'[s].topic = o /\ job'[s].wipes = only /\ job'[s].name = job[s].name
        /\ \A c \in Callers \ {s} : job'[c] = job[c]
    <2>1. job[s] \in Job /\ job \in [Callers -> Job]
      BY <1>1 DEF NodeInv, TypeOK
    <2> DEFINE j == [job[s] EXCEPT !.topic = o, !.wipes = only]
    <2>2. job' = [job EXCEPT ![s] = j]
      BY <1>1, <1>3, <2>1
    <2>3. j.topic = o /\ j.wipes = only /\ j.name = job[s].name
      BY <2>1 DEF Job
    <2> HIDE DEF j, o
    <2> QED BY <1>1, <2>1, <2>2, <2>3
  <1>8. \A c \in Callers \ {s} : pc[c] = "idle" /\ pc'[c] = "idle"
    BY <1>1, <1>6, Alone, ThreadFacts
  <1>9. \A q \in Topics : pc'[q] = pc[q]
    BY <1>1, <1>6, ThreadFacts
  <1>10. /\ \A n \in Names \ {job[s].name} : map'[n] = map[n]
         /\ ~only => map'[job[s].name] = NULL
         /\ only => map' = map
    BY <1>1, <1>3 DEF NodeInv, TypeOK
  <1>11. /\ stage'[o] = "dying" /\ stop'[o] = TRUE
         /\ \A q \in Topics \ {o} : stage'[q] = stage[q] /\ stop'[q] = stop[q]
    BY <1>1, <1>3 DEF NodeInv, TypeOK
  <1>12. NULL \notin Topics
    BY ThreadFacts
  <1>13. \A q \in Topics : NoObject(q)' /\ AliveObject(q)' /\ DyingObject(q)'
    <2> SUFFICES ASSUME NEW q \in Topics PROVE NoObject(q)' /\ AliveObject(q)' /\ DyingObject(q)'
      OBVIOUS
    <2>1. CASE q = o
      BY <1>1, <1>6, <1>7, <1>11, <2>1 DEF NoObject, AliveObject, DyingObject
    <2>2. CASE q # o
      <3> HIDE DEF o
      <3>1. stage[q] # "dying"
        BY <1>1, Alone
      <3>2. NoObject(q) /\ AliveObject(q)
        BY DEF OwnedInv
      <3>3. \A n \in Names : map'[n] = q <=> map[n] = q
        BY <1>1, <1>10, <1>12, <2>2 DEF o
      <3>4. stage'[q] = stage[q] /\ stop'[q] = stop[q] /\ pc'[q] = pc[q]
            /\ info'[q] = info[q] /\ rosOk' = rosOk
        BY <1>3, <1>9, <1>11, <2>2
      <3> QED BY <3>1, <3>2, <3>3, <3>4 DEF NoObject, AliveObject, DyingObject
    <2> QED BY <2>1, <2>2
  <1>14. \A n \in Names : map[n] = o <=> n = job[s].name
    BY <1>1, <1>2 DEF OwnedInv, AliveObject
  <1>15. JoinInv'
    <2>1. \A r \in MapUsers : pc'[r] = "join" => r = s
      BY <1>8, ThreadFacts
    <2>2. \A n \in Names : map'[n] = o => only
      BY <1>1, <1>10, <1>12, <1>14
    <2>3. only => \A n \in Names : map'[n] \in {NULL, o}
      BY <1>5, <1>10
    <2> HIDE DEF o
    <2> QED BY <1>7, <1>10, <1>11, <2>1, <2>2, <2>3 DEF JoinInv
  <1>16. AloneInv' /\ InsertInv' /\ CallbackInv'
    BY <1>1, <1>6, <1>8, ThreadFacts DEF AloneInv, InsertInv, CallbackInv
  <1> QED BY <1>3, <1>13, <1>15, <1>16 DEF OwnedInv

LEMMA OwnedJoin ==
    ASSUME NodeInv, OwnedInv, NEW s \in MapUsers, Join(s)
    PROVE  OwnedInv'
  <1> DEFINE o == job[s].topic
  <1>1. /\ s \in Callers /\ s \in Threads /\ s # Update /\ s \notin Topics
        /\ pc[s] = "join" /\ o \in Topics /\ o \in Threads
    BY ThreadFacts DEF Join, At, NodeInv, JobInv
  <1>2. /\ stage' = [stage EXCEPT ![o] = "none"]
        /\ info' = [info EXCEPT ![o] = NULL]
        /\ stop' = [stop EXCEPT ![o] = FALSE]
        /\ map' = IF job[s].wipes THEN [n \in Names |-> NULL] ELSE map
        /\ UNCHANGED <<rosOk, crash>>
    BY DEF Join
  <1>3. \/ pc' = [pc EXCEPT ![s] = "idle", ![o] = "none"] /\ job' = [job EXCEPT ![s] = NoJob]
        \/ /\ s = "AttrEnableTopic"
           /\ pc' = [pc EXCEPT ![s] = "insert", ![o] = "none"] /\ job' = job
    BY DEF Join
  <1>4. /\ stage[o] = "dying"
        /\ \A n \in Names : map[n] = o => job[s].wipes
        /\ job[s].wipes => \A n \in Names : map[n] \in {NULL, o}
        /\ ~job[s].wipes => map[job[s].name] = NULL
    BY <1>1 DEF OwnedInv, JoinInv
  <1> HIDE DEF o
  <1>5. /\ pc'[s] = "idle" \/ (s = "AttrEnableTopic" /\ pc'[s] = "insert" /\ job'[s] = job[s])
        /\ pc'[o] = "none"
        /\ \A u \in Threads \ {s, o} : pc'[u] = pc[u]
        /\ \A c \in Callers \ {s} : job'[c] = job[c]
    BY <1>1, <1>3 DEF NodeInv, TypeOK
  <1>6. \A c \in Callers \ {s} : pc[c] = "idle" /\ pc'[c] = "idle"
    BY <1>1, <1>5, Alone, ThreadFacts
  <1>7. /\ stage'[o] = "none" /\ stop'[o] = FALSE
        /\ \A q \in Topics \ {o} : stage'[q] = stage[q] /\ stop'[q] = stop[q] /\ info'[q] = info[q]
    BY <1>1, <1>2 DEF NodeInv, TypeOK
  <1>8. NULL \notin Topics
    BY ThreadFacts
  <1>9. \A n \in Names : IF job[s].wipes THEN map'[n] = NULL ELSE map'[n] = map[n] /\ map[n] # o
    BY <1>2, <1>4
  <1>10. \A q \in Topics : NoObject(q)' /\ AliveObject(q)' /\ DyingObject(q)'
    <2> SUFFICES ASSUME NEW q \in Topics PROVE NoObject(q)' /\ AliveObject(q)' /\ DyingObject(q)'
      OBVIOUS
    <2>1. CASE q = o
      <3>1. \A n \in Names : map'[n] # o
        BY <1>1, <1>8, <1>9
      <3> QED BY <1>5, <1>7, <2>1, <3>1 DEF NoObject, AliveObject, DyingObject
    <2>2. CASE q # o
      <3>1. stage[q] # "dying"
        BY <1>1, <2>2, Alone DEF o
      <3>2. NoObject(q) /\ AliveObject(q)
        BY DEF OwnedInv
      <3>3. pc'[q] = pc[q]
        BY <1>1, <1>5, <2>2, ThreadFacts
      <3>4. CASE stage[q] = "none"
        BY <1>7, <1>8, <1>9, <2>2, <3>2, <3>3, <3>4 DEF NoObject, AliveObject, DyingObject
      <3>5. CASE stage[q] = "alive"
        <4>1. info[q].name \in Names
          BY <3>5 DEF NodeInv, TypeOK, Info
        <4>2. map[info[q].name] = q
          BY <3>2, <3>5, <4>1 DEF AliveObject
        <4>3. ~job[s].wipes
          BY <1>4, <1>8, <2>2, <4>1, <4>2
        <4> QED BY <1>2, <1>7, <1>9, <2>2, <3>2, <3>3, <3>5, <4>3
                DEF NoObject, AliveObject, DyingObject
      <3> QED BY <3>1, <3>4, <3>5 DEF NodeInv, TypeOK
    <2> QED BY <2>1, <2>2
  <1>11. JoinInv' /\ AloneInv' /\ CallbackInv'
    BY <1>1, <1>5, <1>6, ThreadFacts DEF JoinInv, AloneInv, CallbackInv
  <1>12. InsertInv'
    <2>1. job[s].name \in Names
      BY <1>1 DEF NodeInv, JobInv
    <2>2. map'[job[s].name] = NULL
      BY <1>4, <1>9, <2>1
    <2> QED BY <1>5, <1>6, <2>2, ThreadFacts DEF InsertInv
  <1> QED BY <1>2, <1>10, <1>11, <1>12 DEF OwnedInv

LEMMA OwnedInsert ==
    ASSUME NodeInv, OwnedInv, Insert("AttrEnableTopic")
    PROVE  OwnedInv'
  <1> DEFINE s == "AttrEnableTopic"
             new == [path |-> job[s].path, name |-> job[s].name, type |-> job[s].type]
  <1>1. PICK o \in Topics :
          /\ Unused(o)
          /\ stage' = [stage EXCEPT ![o] = "alive"]
          /\ info' = [info EXCEPT ![o] = new]
          /\ map' = [map EXCEPT ![job[s].name] = o]
          /\ pc' = [pc EXCEPT ![s] = "idle", ![o] = "check"]
    BY DEF Insert
  <1>2. /\ pc[s] = "insert" /\ job' = [job EXCEPT ![s] = NoJob]
        /\ UNCHANGED <<stop, rosOk, crash>>
    BY DEF Insert, At
  <1>3. /\ s \in MapUsers /\ s \in Callers /\ s \in Threads /\ s # Update /\ s \notin Topics
        /\ o \in Threads /\ job[s].name \in Names /\ new.name = job[s].name
    BY <1>2, ThreadFacts DEF NodeInv, JobInv
  <1>4. map[job[s].name] = NULL /\ NULL \notin Topics
    BY <1>2, ThreadFacts DEF OwnedInv, InsertInv
  <1> HIDE DEF new
  <1>5. /\ pc'[s] = "idle" /\ pc'[o] = "check" /\ \A u \in Threads \ {s, o} : pc'[u] = pc[u]
        /\ \A c \in Callers \ {s} : job'[c] = job[c]
    BY <1>1, <1>2, <1>3 DEF NodeInv, TypeOK
  <1>6. \A c \in Callers : pc'[c] = "idle"
    BY <1>2, <1>3, <1>5, Alone, ThreadFacts
  <1>7. /\ stage'[o] = "alive" /\ info'[o] = new
        /\ map'[job[s].name] = o /\ \A n \in Names \ {job[s].name} : map'[n] = map[n]
        /\ \A q \in Topics \ {o} : stage'[q] = stage[q] /\ info'[q] = info[q]
    BY <1>1, <1>3 DEF NodeInv, TypeOK
  <1>8. stage[o] = "none" /\ ~stop[o] /\ \A n \in Names : map[n] # o
    BY <1>1 DEF Unused, OwnedInv, NoObject
  <1>9. \A q \in Topics : NoObject(q)' /\ AliveObject(q)' /\ DyingObject(q)'
    <2> SUFFICES ASSUME NEW q \in Topics PROVE NoObject(q)' /\ AliveObject(q)' /\ DyingObject(q)'
      OBVIOUS
    <2>1. CASE q = o
      BY <1>2, <1>3, <1>5, <1>7, <1>8, <2>1 DEF NoObject, AliveObject, DyingObject
    <2>2. CASE q # o
      <3>1. stage[q] # "dying"
        BY <1>2, <1>3, Alone
      <3>2. NoObject(q) /\ AliveObject(q)
        BY DEF OwnedInv
      <3>3. pc'[q] = pc[q]
        BY <1>3, <1>5, <2>2, ThreadFacts
      <3>4. \A n \in Names : map'[n] = q <=> map[n] = q
        BY <1>3, <1>4, <1>7, <2>2
      <3> QED BY <1>2, <1>7, <2>2, <3>1, <3>2, <3>3, <3>4 DEF NoObject, AliveObject, DyingObject
    <2> QED BY <2>1, <2>2
  <1>10. JoinInv' /\ AloneInv' /\ CallbackInv' /\ InsertInv'
    BY <1>6, ThreadFacts DEF JoinInv, AloneInv, CallbackInv, InsertInv
  <1> QED BY <1>2, <1>9, <1>10 DEF OwnedInv

------------------------------------------------------------------------------
(* The map and the objects agree *)

LEMMA OwnedInit == Init => OwnedInv
  <1> SUFFICES ASSUME Init PROVE OwnedInv
    OBVIOUS
  <1>1. /\ \A c \in Callers : pc[c] = "idle"
        /\ \A o \in Topics : pc[o] = "none" /\ stage[o] = "none" /\ ~stop[o]
        /\ \A n \in Names : map[n] = NULL
        /\ NULL \notin Topics /\ crash = "no"
    BY ThreadFacts DEF Init
  <1>2. \A o \in Topics : NoObject(o) /\ AliveObject(o) /\ DyingObject(o)
    BY <1>1 DEF NoObject, AliveObject, DyingObject
  <1> QED BY <1>1, <1>2, ThreadFacts DEF OwnedInv, AloneInv, JoinInv, InsertInv, CallbackInv

LEMMA OwnedStep ==
    ASSUME MapUsersAlone, NodeInv, OwnedInv, [Next]_vars
    PROVE  OwnedInv'
  <1>1. CASE Clients
    BY <1>1, OwnedClient
  <1>2. CASE Shutdown
    BY <1>2, OwnedAside, ThreadFacts DEF Shutdown, objects, OwnedInv
  <1>3. ASSUME NEW t \in Threads, Acquire(t)
        PROVE  OwnedInv'
    BY <1>3, OwnedUpdate, OwnedLoop DEF Acquire
  <1>4. ASSUME NEW t \in Threads, Proceed(t)
        PROVE  OwnedInv'
    <2>1. CASE t \in {"AttrWriteString", Update} /\ Write(t)
      BY <2>1, OwnedWrite
    <2>2. CASE Read(t)
      BY <2>2, OwnedRead
    <2>3. CASE UpdateUnlock
      BY <2>3, OwnedUpdate
    <2>4. ~UpdateDangling
      BY DEF UpdateDangling, Dangling, OwnedInv, CallbackInv
    <2>5. CASE t \in MapUsers /\ MapRace(t)
      <3>1. PICK u \in MapUsers \ {t} : pc[u] \in {"erase", "insert"} /\ pc[t] \in {"erase", "insert"}
        BY <2>5 DEF MapRace, At
      <3> QED BY <2>5, <3>1, Alone, ThreadFacts
    <2>6. CASE t \in MapUsers /\ (NotThere(t) \/ Erase(t) \/ Join(t))
      BY <2>6, OwnedNotThere, OwnedErase, OwnedJoin
    <2>7. CASE t = "AttrEnableTopic" /\ Insert(t)
      BY <2>7, OwnedInsert
    <2>8. CASE t \in Topics /\ (LoopCheck(t) \/ Publish(t) \/ LoopSleep(t))
      BY <2>8, OwnedLoop
    <2> QED BY <1>4, <2>1, <2>2, <2>3, <2>4, <2>5, <2>6, <2>7, <2>8 DEF Proceed
  <1>5. CASE UNCHANGED vars
    BY <1>5, OwnedAside DEF vars, objects, OwnedInv
  <1> QED BY <1>1, <1>2, <1>3, <1>4, <1>5 DEF Next

LEMMA OwnedCorrect == MapUsersAlone /\ Spec => [](NodeInv /\ OwnedInv)
  <1>1. MapUsersAlone /\ NodeInv /\ OwnedInv /\ [Next]_vars => NodeInv' /\ OwnedInv'
    BY NodeStep, OwnedStep
  <1>2. MapUsersAlone => (Init => NodeInv /\ OwnedInv)
    BY NodeInit, OwnedInit
  <1>3. CASE MapUsersAlone
    <2>1. NodeInv /\ OwnedInv /\ [Next]_vars => (NodeInv /\ OwnedInv)'
      BY <1>1, <1>3
    <2>2. Init => NodeInv /\ OwnedInv
      BY <1>2, <1>3
    <2> QED BY <2>1, <2>2, PTL DEF Spec
  <1> QED BY <1>3

(* Between calls every IIOAttrTopic is the one m_attrTopicMap has under its *)
(* name, its thread runs until rclcpp::ok() is false, and no thread        *)
(* outlives its object: erase and ~IIOAttrTopic leave nothing behind, for  *)
(* every number of names and topics, when the map's users run alone.       *)
THEOREM TopicsSafety == MapUsersAlone /\ Spec => []TopicsOwned
  <1>1. NodeInv /\ OwnedInv => TopicsOwned
    <2> SUFFICES ASSUME NodeInv, OwnedInv, \A s \in MapUsers : pc[s] = "idle", NEW o \in Topics
                 PROVE  IF stage[o] = "none"
                        THEN pc[o] = "none" /\ \A n \in Names : map[n] # o
                        ELSE /\ map[info[o].name] = o
                             /\ ~stop[o]
                             /\ pc[o] \in {"none", "finished"} => ~rosOk
      BY DEF TopicsOwned
    <2>1. stage[o] \in {"none", "alive"}
      BY DEF OwnedInv, DyingObject, NodeInv, TypeOK
    <2>2. stage[o] = "alive" => info[o].name \in Names
      BY DEF NodeInv, TypeOK, Info
    <2>3. NoObject(o) /\ AliveObject(o)
      BY DEF OwnedInv
    <2> QED BY <2>1, <2>2, <2>3 DEF NoObject, AliveObject
  <1> QED BY <1>1, OwnedCorrect, PTL

------------------------------------------------------------------------------
(* What the step of one thread changes *)

(* The others stay where they are, with the job they have.                 *)
LEMMA OthersStay ==
    ASSUME NodeInv, NEW t \in Threads, Acquire(t) \/ Proceed(t),
           NEW c \in Callers \ {t}
    PROVE  pc'[c] = pc[c] /\ job'[c] = job[c]
  <1>1. c \in Threads /\ c \notin Topics
    BY ThreadFacts
  <1>2. CASE Write(t) /\ t \in {"AttrWriteString", Update}
    <2>1. (Goto(t, "read") /\ UNCHANGED job) \/ \E result : End(t, result)
      BY <1>2 DEF Write
    <2> QED BY <1>1, <2>1, Moves, EndMoves
  <1>3. CASE Read(t)
    BY <1>1, <1>3, EndMoves DEF Read
  <1>4. CASE t = Update /\ (UpdateLock \/ UpdateUnlock \/ UpdateDangling)
    BY <1>1, <1>4, Moves DEF UpdateLock, UpdateUnlock, UpdateDangling, Crash, NodeInv, TypeOK
  <1>5. CASE t \in MapUsers /\ (MapRace(t) \/ NotThere(t))
    <2>1. t \in Services
      BY <1>5 DEF MapUsers, Services
    <2> QED BY <1>1, <1>5, <2>1, Moves, Responds DEF MapRace, NotThere, Crash
  <1>6. CASE t \in MapUsers /\ Erase(t)
    BY <1>1, <1>6, Moves DEF Erase, Crash, NodeInv, TypeOK
  <1>7. CASE t \in MapUsers /\ Join(t)
    <2>1. job[t].topic \in Topics
      BY <1>7 DEF Join, At, NodeInv, JobInv
    <2> QED BY <1>1, <1>7, <2>1 DEF Join, NodeInv, TypeOK
  <1>8. CASE t = "AttrEnableTopic" /\ Insert(t)
    BY <1>1, <1>8 DEF Insert, NodeInv, TypeOK
  <1>9. CASE t \in Topics /\ (LoopLock(t) \/ LoopCheck(t) \/ Publish(t) \/ LoopSleep(t))
    BY <1>1, <1>9, Moves DEF LoopLock, LoopCheck, Publish, LoopSleep, Crash
  <1> QED BY <1>2, <1>3, <1>4, <1>5, <1>6, <1>7, <1>8, <1>9 DEF Acquire, Proceed

(* A call in flight keeps what it was asked for; what it goes on to.       *)
LEMMA CallerGoesOn ==
    ASSUME NodeInv, NEW t \in Callers, Acquire(t) \/ Proceed(t)
    PROVE  /\ pc[t] # "idle"
           /\ pc'[t] # "idle" =>
                 /\ job'[t].path = job[t].path /\ job'[t].name = job[t].name
                 /\ job'[t].type = job[t].type /\ job'[t].value = job[t].value
                 /\ t = Update => job'[t] = job[t]
           /\ pc'[t] \in {"erase", "join", "insert"} =>
                 \/ pc[t] \in {"erase", "join", "insert"}
                 \/ /\ t = "AttrEnableTopic"
                    /\ Kind[job[t].path] \in {"context", "device", "channel"}
           /\ t = "AttrWriteString" /\ pc'[t] = "read" =>
                 pc[t] = "write" /\ Reaches(job[t].path) /\ WriteLands(job[t].path, job[t].value)
  <1>1. t \in Threads /\ t \notin Topics /\ PathOf(t) = job[t].path
    BY ThreadFacts DEF PathOf
  <1>2. CASE Write(t) /\ t \in {"AttrWriteString", Update}
    <2>1. CASE /\ Reaches(job[t].path) /\ WriteLands(job[t].path, job[t].value)
               /\ Goto(t, "read") /\ UNCHANGED job
      <3>1. pc'[t] = "read"
        BY <1>1, <2>1, Moves
      <3> QED BY <1>2, <2>1, <3>1 DEF Write, At
    <2>2. CASE \E result : End(t, result)
      <3>1. t # "AttrEnableTopic"
        BY <1>2, ThreadFacts
      <3> QED BY <1>1, <1>2, <2>2, <3>1, EndMoves, ThreadFacts DEF Write, At
    <2> QED BY <1>1, <1>2, <2>1, <2>2 DEF Write
  <1>3. CASE Read(t)
    <2>1. PICK result \in IF Reaches(job[t].path) THEN ReadResults(job[t].path)
                          ELSE {Unreached(job[t].path, FALSE)} :
             End(t, result)
      BY <1>1, <1>3 DEF Read
    <2>2. pc[t] = "read"
      BY <1>3 DEF Read, At
    <2>3. result.ok => Kind[job[t].path] \in {"context", "device", "channel"}
      <3>1. CASE Reaches(job[t].path)
        BY <3>1 DEF Reaches
      <3>2. CASE ~Reaches(job[t].path)
        <4>1. result = Unreached(job[t].path, FALSE)
          BY <2>1, <3>2
        <4>2. CASE Kind[job[t].path] = "context"
          BY <4>2
        <4>3. CASE Kind[job[t].path] # "context"
          <5>1. result.ok = FALSE
            BY <4>1, <4>3 DEF Unreached
          <5> QED BY <5>1
        <4> QED BY <4>2, <4>3
      <3> QED BY <3>1, <3>2
    <2> QED BY <1>1, <2>1, <2>2, <2>3, EndMoves, ThreadFacts
  <1>4. CASE t = Update /\ (UpdateLock \/ UpdateUnlock)
    BY <1>1, <1>4, Moves, ThreadFacts DEF UpdateLock, UpdateUnlock, At
  <1>5. CASE t = Update /\ UpdateDangling
    BY <1>5, ThreadFacts DEF UpdateDangling, Dangling, Crash
  <1>6. CASE t \in MapUsers /\ (MapRace(t) \/ NotThere(t))
    <2>1. t \in Services /\ t \notin {"AttrWriteString", Update}
      BY <1>6, ThreadFacts DEF MapUsers, Services
    <2>2. pc[t] \in {"erase", "insert"}
      BY <1>6 DEF MapRace, NotThere, At
    <2> QED BY <1>1, <1>6, <2>1, <2>2, Moves, Responds DEF MapRace, NotThere, Crash
  <1>7. CASE t \in MapUsers /\ Erase(t)
    <2>1. pc[t] = "erase" /\ t \notin {"AttrWriteString", Update}
      BY <1>7, ThreadFacts DEF Erase, At, MapUsers
    <2>2. job[t] \in Job /\ job \in [Callers -> Job]
      BY DEF NodeInv, TypeOK
    <2>3. CASE UNCHANGED job
      BY <1>1, <2>1, <2>3
    <2>4. CASE \E o, w : job' = [job EXCEPT ![t].topic = o, ![t].wipes = w]
      <3>1. PICK o, w : job' = [job EXCEPT ![t].topic = o, ![t].wipes = w]
        BY <2>4
      <3> DEFINE j == [job[t] EXCEPT !.topic = o, !.wipes = w]
      <3>2. job'[t] = j
        BY <2>2, <3>1
      <3>3. /\ j.path = job[t].path /\ j.name = job[t].name
            /\ j.type = job[t].type /\ j.value = job[t].value
        BY <2>2 DEF Job
      <3> HIDE DEF j
      <3> QED BY <2>1, <3>2, <3>3
    <2>5. CASE job' = [job EXCEPT ![t].topic = map[job[t].name],
                                  ![t].wipes = \A n \in Names \ {job[t].name} : map[n] = NULL]
      BY <2>4, <2>5
    <2>6. \/ UNCHANGED job
          \/ job' = [job EXCEPT ![t].topic = map[job[t].name],
                                ![t].wipes = \A n \in Names \ {job[t].name} : map[n] = NULL]
      BY <1>7 DEF Erase, Crash
    <2> QED BY <2>3, <2>5, <2>6
  <1>8. CASE t \in MapUsers /\ Join(t)
    <2>1. pc[t] = "join" /\ t \notin {"AttrWriteString", Update}
      BY <1>8, ThreadFacts DEF Join, At, MapUsers
    <2>2. job[t].topic \in Topics
      BY <1>8 DEF Join, At, NodeInv, JobInv
    <2>3. pc'[t] = "idle" \/ job' = job
      BY <1>1, <1>8, <2>2 DEF Join, NodeInv, TypeOK
    <2> QED BY <2>1, <2>3
  <1>9. CASE t = "AttrEnableTopic" /\ Insert(t)
    <2>1. pc[t] = "insert" /\ pc'[t] = "idle"
      BY <1>1, <1>9 DEF Insert, At, NodeInv, TypeOK
    <2> QED BY <2>1
  <1> QED BY <1>1, <1>2, <1>3, <1>4, <1>5, <1>6, <1>7, <1>8, <1>9 DEF Acquire, Proceed

(* What a step does to the attributes, the objects and what they publish.  *)
LEMMA AttrChanges ==
    ASSUME NodeInv, NEW t \in Threads, Acquire(t) \/ Proceed(t)
    PROVE  \/ attr' = attr
           \/ /\ t \in {"AttrWriteString", Update} /\ pc[t] = "write"
              /\ WriteLands(job[t].path, job[t].value)
  <1>1. CASE t \in {"AttrWriteString", Update} /\ Write(t)
    <2>1. PathOf(t) = job[t].path
      BY <1>1, ThreadFacts DEF PathOf
    <2> QED BY <1>1, <2>1 DEF Write, At
  <1>2. CASE ~(t \in {"AttrWriteString", Update} /\ Write(t))
    BY <1>2 DEF Acquire, Proceed, Read, UpdateLock, UpdateUnlock, UpdateDangling, MapRace,
                NotThere, Erase, Join, Insert, LoopCheck, LoopLock, Publish, LoopSleep, Crash
  <1> QED BY <1>1, <1>2

(* An object keeps its members; a new one is of what was asked for.        *)
LEMMA ObjectChanges ==
    ASSUME NodeInv, NEW t \in Threads, Acquire(t) \/ Proceed(t),
           NEW o \in Topics, stage'[o] # "none"
    PROVE  \/ stage[o] # "none" /\ info'[o] = info[o]
           \/ LET j == job["AttrEnableTopic"] IN
              /\ t = "AttrEnableTopic" /\ pc[t] = "insert" /\ stage[o] = "none"
              /\ info'[o] = [path |-> j.path, name |-> j.name, type |-> j.type]
  <1>1. CASE t \in MapUsers /\ Erase(t)
    <2>1. CASE UNCHANGED <<stage, info>>
      BY <2>1
    <2>2. CASE stage[map[job[t].name]] = "alive" /\ UNCHANGED info
               /\ stage' = [stage EXCEPT ![map[job[t].name]] = "dying"]
      BY <2>2 DEF NodeInv, TypeOK
    <2> QED BY <1>1, <2>1, <2>2 DEF Erase, Crash, objects
  <1>2. CASE t \in MapUsers /\ Join(t)
    BY <1>2 DEF Join, NodeInv, TypeOK
  <1>3. CASE t = "AttrEnableTopic" /\ Insert(t)
    <2> DEFINE new == [path |-> job[t].path, name |-> job[t].name, type |-> job[t].type]
    <2>1. PICK q \in Topics : /\ stage[q] = "none"
                              /\ stage' = [stage EXCEPT ![q] = "alive"]
                              /\ info' = [info EXCEPT ![q] = new]
      BY <1>3 DEF Insert, Unused
    <2>2. pc[t] = "insert"
      BY <1>3 DEF Insert, At
    <2> HIDE DEF new
    <2>3. CASE q = o
      BY <1>3, <2>1, <2>2, <2>3 DEF NodeInv, TypeOK, new
    <2>4. CASE q # o
      BY <2>1, <2>4 DEF NodeInv, TypeOK
    <2> QED BY <2>3, <2>4
  <1>4. CASE UNCHANGED <<stage, info>>
    BY <1>4
  <1> QED BY <1>1, <1>2, <1>3, <1>4
          DEF Acquire, Proceed, Write, Read, UpdateLock, UpdateUnlock, UpdateDangling, MapRace,
              NotThere, LoopCheck, LoopLock, Publish, LoopSleep, Crash, objects

(* What a thread is about to publish is what it has just read.             *)
LEMMA TextChanges ==
    ASSUME NodeInv, NEW t \in Threads, Acquire(t) \/ Proceed(t),
           NEW o \in Topics, pc'[o] = "publish"
    PROVE  \/ pc[o] = "publish" /\ text'[o] = text[o]
           \/ /\ t = o /\ pc[o] = "read" /\ UNCHANGED attr
              /\ \E result \in IF Reaches(info[o].path) THEN ReadResults(info[o].path)
                               ELSE {Unreached(info[o].path, FALSE)} :
                    text'[o] = result.text
  <1>1. o \in Threads /\ o \notin Callers /\ Callers \subseteq Threads /\ text \in [Topics -> Texts]
    BY ThreadFacts DEF NodeInv, TypeOK
  <1>2. CASE t \in {"AttrWriteString", Update} /\ Write(t)
    <2>1. (Goto(t, "read") /\ UNCHANGED text) \/ \E result : End(t, result)
      BY <1>2 DEF Write
    <2>2. t # o /\ t \notin Topics
      BY <1>2, ThreadFacts
    <2>3. CASE Goto(t, "read") /\ UNCHANGED text
      BY <1>1, <2>2, <2>3, Moves
    <2>4. ASSUME NEW result, End(t, result)
          PROVE  pc'[o] = pc[o] /\ text' = text
      BY <1>1, <2>2, <2>4, EndMoves
    <2> QED BY <2>1, <2>3, <2>4
  <1>3. CASE Read(t) /\ t # o
    <2>1. PICK result : End(t, result)
      BY <1>3 DEF Read
    <2>2. pc'[o] = pc[o]
      BY <1>1, <1>3, <2>1, EndMoves
    <2>3. text' = text \/ text' = [text EXCEPT ![t] = result.text]
      BY <2>1, EndMoves
    <2> QED BY <1>1, <1>3, <2>2, <2>3
  <1>4. CASE Read(t) /\ t = o
    <2>1. PathOf(o) = info[o].path /\ pc[o] = "read" /\ UNCHANGED attr
      BY <1>4 DEF PathOf, Read, At
    <2>2. PICK result \in IF Reaches(info[o].path) THEN ReadResults(info[o].path)
                          ELSE {Unreached(info[o].path, FALSE)} : End(o, result)
      BY <1>4, <2>1 DEF Read
    <2>3. text' = [text EXCEPT ![o] = result.text]
      BY <1>1, <2>2, EndMoves
    <2> QED BY <1>1, <1>4, <2>1, <2>2, <2>3
  <1>5. CASE t = Update /\ (UpdateLock \/ UpdateUnlock \/ UpdateDangling)
    BY <1>1, <1>5, Moves DEF UpdateLock, UpdateUnlock, UpdateDangling, Crash
  <1>6. CASE t \in MapUsers /\ (MapRace(t) \/ NotThere(t) \/ Erase(t))
    <2>1. t \in Services /\ t \in Threads /\ t # o
      BY <1>1, <1>6, ThreadFacts DEF MapUsers, Services
    <2>2. UNCHANGED text
      BY <1>6 DEF MapRace, NotThere, Erase, Crash
    <2>3. pc'[o] = pc[o]
      BY <1>1, <1>6, <2>1, Moves, Responds DEF MapRace, NotThere, Erase, Crash
    <2> QED BY <2>2, <2>3
  <1>7. CASE t \in MapUsers /\ Join(t)
    <2>1. t \in Threads /\ t # o /\ job[t].topic \in Topics /\ job[t].topic \in Threads
      BY <1>1, <1>7, ThreadFacts DEF Join, At, NodeInv, JobInv
    <2> DEFINE q == job[t].topic
    <2>2. /\ text' = [text EXCEPT ![q] = ""]
          /\ \E label : pc' = [pc EXCEPT ![t] = label, ![q] = "none"]
      BY <1>7 DEF Join
    <2> HIDE DEF q
    <2>3. CASE q = o
      BY <1>1, <2>1, <2>2, <2>3 DEF NodeInv, TypeOK
    <2>4. CASE q # o
      BY <1>1, <2>1, <2>2, <2>4 DEF NodeInv, TypeOK
    <2> QED BY <2>3, <2>4
  <1>8. CASE t = "AttrEnableTopic" /\ Insert(t)
    <2>1. t # o /\ t \in Threads
      BY <1>1, <1>8, ThreadFacts
    <2>2. UNCHANGED text /\ \E q \in Topics : pc' = [pc EXCEPT ![t] = "idle", ![q] = "check"]
      BY <1>8 DEF Insert
    <2> QED BY <1>1, <2>1, <2>2 DEF NodeInv, TypeOK
  <1>9. CASE t \in Topics /\ (LoopLock(t) \/ LoopCheck(t) \/ Publish(t) \/ LoopSleep(t))
    <2>1. UNCHANGED text
      BY <1>9 DEF LoopLock, LoopCheck, Publish, LoopSleep, Crash
    <2>2. pc' = pc \/ \E label \in {"read", "lock", "finished", "sleep", "check"} : Goto(t, label)
      BY <1>9 DEF LoopLock, LoopCheck, Publish, LoopSleep, Crash
    <2>3. pc'[o] = pc[o]
      <3>1. CASE pc' = pc
        BY <3>1
      <3>2. ASSUME NEW label \in {"read", "lock", "finished", "sleep", "check"}, Goto(t, label)
            PROVE  pc'[o] = pc[o]
        BY <1>1, <3>2, Moves
      <3> QED BY <2>2, <3>1, <3>2
    <2> QED BY <2>1, <2>3
  <1> QED BY <1>2, <1>3, <1>4, <1>5, <1>6, <1>7, <1>8, <1>9 DEF Acquire, Proceed

(* What a client's step does: one caller begins, and the rest stays.       *)
LEMMA Begins ==
    ASSUME NodeInv, Clients
    PROVE  /\ UNCHANGED <<attr, map, objects, text, rosOk, crash>>
           /\ reply' = reply \/ reply' = NoReply
           /\ \A o \in Topics : pc'[o] = pc[o]
           /\ \E c \in Callers :
                 /\ pc[c] = "idle"
                 /\ \A d \in Callers \ {c} : pc'[d] = pc[d] /\ job'[d] = job[d]
                 /\ c = "AttrEnableTopic" =>
                       /\ pc'[c] = "read"
                       /\ [path |-> job'[c].path, name |-> job'[c].name, type |-> job'[c].type]
                             \in EnableRequests
                 /\ c = Update =>
                       \E o \in Topics : /\ stage[o] # "none" /\ job'[c].topic = o
                                         /\ job'[c].path = info[o].path
                 /\ c = "AttrWriteString" =>
                       pc'[c] = "write" /\ \E w \in WriteRequests : w.path = job'[c].path
  <1>1. ASSUME NEW c \in Callers, NEW label, NEW new, Start(c, label, new)
        PROVE  /\ UNCHANGED <<attr, map, objects, text, rosOk, crash>>
               /\ pc[c] = "idle" /\ pc'[c] = label /\ job'[c] = new
               /\ \A d \in Callers \ {c} : pc'[d] = pc[d] /\ job'[d] = job[d]
               /\ \A o \in Topics : pc'[o] = pc[o]
    <2>1. /\ UNCHANGED <<attr, map, objects, text, rosOk, crash>>
          /\ pc[c] = "idle" /\ Goto(c, label) /\ job' = [job EXCEPT ![c] = new]
      BY <1>1 DEF Start, At
    <2>2. job \in [Callers -> Job] /\ c \in Threads /\ c \notin Topics
      BY ThreadFacts DEF NodeInv, TypeOK
    <2>3. pc'[c] = label /\ \A u \in Threads \ {c} : pc'[u] = pc[u]
      BY <2>1, <2>2, Moves
    <2>4. job'[c] = new /\ \A d \in Callers \ {c} : job'[d] = job[d]
      BY <2>1, <2>2
    <2> QED BY <2>1, <2>2, <2>3, <2>4, ThreadFacts
  <1>2. CASE CallRead
    BY <1>1, <1>2, ThreadFacts DEF CallRead
  <1>3. CASE CallWrite
    <2>1. PICK w \in WriteRequests :
             Start("AttrWriteString", "write", [NoJob EXCEPT !.path = w.path, !.value = w.value])
      BY <1>3 DEF CallWrite
    <2> DEFINE new == [NoJob EXCEPT !.path = w.path, !.value = w.value]
    <2>2. new.path = w.path
      BY DEF NoJob
    <2>3. Start("AttrWriteString", "write", new)
      BY <2>1
    <2> HIDE DEF new
    <2> QED BY <1>1, <1>3, <2>2, <2>3, ThreadFacts DEF CallWrite
  <1>4. CASE CallEnable
    <2>1. PICK r \in EnableRequests :
             Start("AttrEnableTopic", "read",
                   [NoJob EXCEPT !.path = r.path, !.name = r.name, !.type = r.type])
      BY <1>4 DEF CallEnable
    <2> DEFINE new == [NoJob EXCEPT !.path = r.path, !.name = r.name, !.type = r.type]
    <2>2. [path |-> new.path, name |-> new.name, type |-> new.type] = r
      BY TopicAssumption DEF NoJob, Info
    <2>3. Start("AttrEnableTopic", "read", new)
      BY <2>1
    <2> HIDE DEF new
    <2> QED BY <1>1, <1>4, <2>2, <2>3, ThreadFacts DEF CallEnable
  <1>5. CASE CallDisable
    BY <1>1, <1>5, ThreadFacts DEF CallDisable
  <1>6. CASE TakeUpdate
    <2>1. PICK o \in Topics, m \in Messages :
             /\ stage[o] # "none"
             /\ Start(Update, "lock", [NoJob EXCEPT !.path = info[o].path, !.value = m.text, !.topic = o])
      BY <1>6 DEF TakeUpdate
    <2> DEFINE new == [NoJob EXCEPT !.path = info[o].path, !.value = m.text, !.topic = o]
    <2>2. new.path = info[o].path /\ new.topic = o
      BY DEF NoJob
    <2>3. Start(Update, "lock", new)
      BY <2>1
    <2> HIDE DEF new
    <2> QED BY <1>1, <1>6, <2>1, <2>2, <2>3, ThreadFacts DEF TakeUpdate
  <1> QED BY <1>2, <1>3, <1>4, <1>5, <1>6 DEF Clients

------------------------------------------------------------------------------
(* What topics are of *)

LEMMA SourceInit == Init => SourceInv
  BY ThreadFacts DEF Init, SourceInv, RequestInv, InfoInv

LEMMA SourceStep ==
    ASSUME NodeInv, SourceInv, [Next]_vars
    PROVE  SourceInv'
  <1> DEFINE e == "AttrEnableTopic"
             r == [path |-> job[e].path, name |-> job[e].name, type |-> job[e].type]
  <1>1. CASE Clients
    <2>1. /\ UNCHANGED <<stage, info>>
          /\ \A o \in Topics : stage'[o] # "none" => info'[o] \in CanEnable
      BY <1>1, Begins DEF SourceInv, InfoInv, objects
    <2>2. PICK c \in Callers :
             /\ pc[c] = "idle"
             /\ \A d \in Callers \ {c} : pc'[d] = pc[d] /\ job'[d] = job[d]
             /\ c = e => pc'[c] = "read" /\ r' \in EnableRequests
             /\ c = Update => \E o \in Topics : stage[o] # "none" /\ job'[c].path = info[o].path
      BY <1>1, Begins
    <2>3. RequestInv'
      BY <2>2, ThreadFacts DEF SourceInv, RequestInv
    <2>4. pc'[Update] # "idle" => \E q \in CanEnable : job'[Update].path = q.path
      BY <2>1, <2>2, ThreadFacts DEF SourceInv, InfoInv
    <2> QED BY <2>1, <2>3, <2>4 DEF SourceInv, InfoInv
  <1>2. ASSUME NEW t \in Threads, Acquire(t) \/ Proceed(t)
        PROVE  SourceInv'
    <2>1. RequestInv'
      <3>1. CASE t = e
        <4>1. e \in Callers
          BY ThreadFacts
        <4>2. pc[e] # "idle" /\ r \in EnableRequests
          BY <1>2, <3>1, <4>1, CallerGoesOn DEF SourceInv, RequestInv
        <4>3. pc'[e] # "idle" => r' = r /\ job'[e].path = job[e].path
          BY <1>2, <3>1, <4>1, CallerGoesOn
        <4>4. pc'[e] \in {"erase", "join", "insert"} => r \in CanEnable
          BY <1>2, <3>1, <4>1, <4>2, CallerGoesOn DEF SourceInv, RequestInv, CanEnable
        <4> QED BY <4>2, <4>3, <4>4 DEF RequestInv
      <3>2. CASE t # e
        BY <1>2, <3>2, OthersStay, ThreadFacts DEF SourceInv, RequestInv
      <3> QED BY <3>1, <3>2
    <2>2. \A o \in Topics : stage'[o] # "none" => info'[o] \in CanEnable
      BY <1>2, ObjectChanges DEF SourceInv, RequestInv, InfoInv
    <2>3. pc'[Update] # "idle" => pc[Update] # "idle" /\ job'[Update].path = job[Update].path
      BY <1>2, OthersStay, CallerGoesOn, ThreadFacts
    <2> QED BY <2>1, <2>2, <2>3 DEF SourceInv, InfoInv
  <1>3. CASE Shutdown \/ UNCHANGED vars
    BY <1>3 DEF Shutdown, vars, objects, SourceInv, RequestInv, InfoInv
  <1> QED BY <1>1, <1>2, <1>3 DEF Next

(* A thread that is about to publish is in the object it read for.         *)
LEMMA SameObject ==
    ASSUME NodeInv, NodeInv', NEW t \in Threads, Acquire(t) \/ Proceed(t),
           NEW o \in Topics, pc[o] # "none", pc'[o] # "none"
    PROVE  stage[o] # "none" /\ info'[o] = info[o]
  <1>1. stage[o] # "none" /\ stage'[o] # "none"
    BY DEF NodeInv, ThreadInv
  <1> QED BY <1>1, ObjectChanges

(* What a read of an attribute that a topic can be of yields.              *)
LEMMA TopicReads ==
    ASSUME NodeInv, NEW r \in CanEnable, NEW p, p = r.path,
           NEW result \in IF Reaches(p) THEN ReadResults(p) ELSE {Unreached(p, FALSE)}
    PROVE  \/ \E b \in Lands(p, Readable) : result.text = attr[b] /\ attr[b] \in Values
           \/ Reaches(p) /\ Fails(p, Readable) /\ result.text = "error"
  <1>1. \A b \in Lands(p, Readable) : attr[b] \in Values
    BY DEF NodeInv, TypeOK, AttrTypeOK, Lands, Registers
  <1>2. CASE Reaches(p)
    <2>1. CASE result = Failure /\ Fails(p, Readable)
      BY <1>2, <2>1 DEF Failure
    <2>2. CASE \E b \in Lands(p, Readable) : result = [ok |-> TRUE, text |-> attr[b]]
      BY <1>1, <2>2
    <2> QED BY <1>2, <2>1, <2>2 DEF ReadResults
  <1>3. CASE ~Reaches(p)
    <2>1. Kind[p] = "context" /\ p \in Paths
      BY <1>3, TopicAssumption DEF CanEnable, Reaches, Info
    <2>2. <<p, "plain">> \in Readable
      BY <2>1, AttrAssumption
    <2>3. <<p, "plain">> \in Lands(p, Readable)
      BY <2>2 DEF Lands
    <2>4. result = Unreached(p, FALSE)
      BY <1>3
    <2>5. result.text = attr[<<p, "plain">>]
      BY <2>1, <2>4 DEF Unreached
    <2> QED BY <1>1, <2>3, <2>5
  <1> QED BY <1>2, <1>3

------------------------------------------------------------------------------
(* Nothing ends the node *)

LEMMA NumberStep ==
    ASSUME NumbersStay, NodeInv, NodeInv', SourceInv, NumberInv, [Next]_vars
    PROVE  NumberInv'
  <1>1. CASE Clients
    BY <1>1, Begins DEF NumberInv, objects
  <1>2. ASSUME NEW t \in Threads, Acquire(t) \/ Proceed(t)
        PROVE  NumberInv'
    <2> SUFFICES ASSUME NEW o \in Topics, pc'[o] = "publish", info'[o].type # "STRING"
                 PROVE  text'[o] \in Numeric
      BY DEF NumberInv
    <2>1. pc[o] # "none"
      BY <1>2, TextChanges
    <2>2. stage[o] # "none" /\ info'[o] = info[o] /\ info[o] \in CanEnable
      BY <1>2, <2>1, SameObject DEF SourceInv, InfoInv
    <2>3. CASE pc[o] = "publish" /\ text'[o] = text[o]
      BY <2>2, <2>3 DEF NumberInv
    <2>4. ASSUME NEW result \in IF Reaches(info[o].path) THEN ReadResults(info[o].path)
                                ELSE {Unreached(info[o].path, FALSE)},
                 text'[o] = result.text
          PROVE  text'[o] \in Numeric
      <3>1. \/ result.text \in Values
            \/ Reaches(info[o].path) /\ Fails(info[o].path, Readable)
        BY <2>2, TopicReads
      <3> QED BY <2>2, <2>4, <3>1 DEF NumbersStay
    <2> QED BY <1>2, <2>3, <2>4, TextChanges
  <1>3. CASE Shutdown \/ UNCHANGED vars
    BY <1>3 DEF Shutdown, vars, objects, NumberInv
  <1> QED BY <1>1, <1>2, <1>3 DEF Next

(* Only an exception of stoi, and only of a text that is no number.        *)
LEMMA CrashStep ==
    ASSUME NodeInv, OwnedInv', NumberInv, NoCrash, [Next]_vars
    PROVE  NoCrash'
  <1>1. CASE Clients
    BY <1>1, Begins DEF NoCrash
  <1>2. ASSUME NEW t \in Threads, Acquire(t) \/ Proceed(t)
        PROVE  NoCrash'
    <2>1. ~Crash("map_race") /\ ~Crash("double_erase") /\ ~Crash("use_after_free")
      BY DEF Crash, OwnedInv
    <2>2. t \in Topics => ~(Publish(t) /\ Crash("stoi"))
      BY DEF Publish, At, NumberInv, NoCrash, Crash
    <2> QED BY <1>2, <2>1, <2>2
            DEF Acquire, Proceed, Write, Read, UpdateLock, UpdateUnlock, UpdateDangling, MapRace,
                NotThere, Erase, Join, Insert, LoopCheck, LoopLock, Publish, LoopSleep, NoCrash
  <1>3. CASE Shutdown \/ UNCHANGED vars
    BY <1>3 DEF Shutdown, vars, NoCrash
  <1> QED BY <1>1, <1>2, <1>3 DEF Next

(* No call sequence ends the process when the map's users run alone and    *)
(* the attributes behind numeric topics can be read and hold numbers:      *)
(* nothing dangles, is deleted twice or throws (iio_attr_topic.cpp,        *)
(* attr_publisher.cpp:78).                                                 *)
THEOREM NoCrashSafety == MapUsersAlone /\ NumbersStay /\ Spec => []NoCrash
  <1> DEFINE Inv == NodeInv /\ OwnedInv /\ SourceInv /\ NumberInv /\ NoCrash
  <1> SUFFICES ASSUME MapUsersAlone, NumbersStay PROVE Spec => []NoCrash
    OBVIOUS
  <1>1. Init => Inv
    BY NodeInit, OwnedInit, SourceInit, ThreadFacts DEF Init, NumberInv, NoCrash
  <1>2. Inv /\ [Next]_vars => Inv'
    BY NodeStep, OwnedStep, SourceStep, NumberStep, CrashStep
  <1> QED BY <1>1, <1>2, PTL DEF Spec

------------------------------------------------------------------------------
(* A topic publishes its attribute's value *)

LEMMA WriterStep ==
    ASSUME NodeInv, WriterInv, [Next]_vars
    PROVE  WriterInv'
  <1> DEFINE w == "AttrWriteString"
  <1>1. w \in Callers
    BY ThreadFacts
  <1>2. CASE Clients
    BY <1>1, <1>2, Begins DEF WriterInv
  <1>3. ASSUME NEW t \in Threads, Acquire(t) \/ Proceed(t)
        PROVE  WriterInv'
    BY <1>1, <1>3, OthersStay, CallerGoesOn DEF WriterInv
  <1>4. CASE Shutdown \/ UNCHANGED vars
    BY <1>4 DEF Shutdown, vars, objects, WriterInv
  <1> QED BY <1>2, <1>3, <1>4 DEF Next

LEMMA OwnPathStep ==
    ASSUME NodeInv, OwnedInv, OwnedInv', OwnPathInv, [Next]_vars
    PROVE  OwnPathInv'
  <1>1. Update \in Callers
    BY ThreadFacts
  <1>2. CASE Clients
    BY <1>1, <1>2, Begins DEF OwnPathInv, objects
  <1>3. ASSUME NEW t \in Threads, Acquire(t) \/ Proceed(t), pc'[Update] # "idle"
        PROVE  job'[Update].path = info'[job'[Update].topic].path
    <2>1. pc[Update] # "idle" /\ job'[Update] = job[Update]
      BY <1>1, <1>3, OthersStay, CallerGoesOn
    <2> DEFINE o == job[Update].topic
    <2>2. o \in Topics /\ stage[o] = "alive" /\ stage'[o] = "alive"
      BY <1>3, <2>1 DEF OwnedInv, CallbackInv, NodeInv, JobInv
    <2>3. info'[o] = info[o]
      BY <1>3, <2>2, ObjectChanges
    <2> QED BY <2>1, <2>3 DEF OwnPathInv
  <1>4. CASE Shutdown \/ UNCHANGED vars
    BY <1>4 DEF Shutdown, vars, objects, OwnPathInv
  <1> QED BY <1>2, <1>3, <1>4 DEF Next, OwnPathInv

(* A write moves the registers of its path only.                           *)
LEMMA WriteElsewhere ==
    ASSUME NodeInv, NEW p, NEW q, p # q, NEW value, WriteLands(q, value)
    PROVE  \A b \in Lands(p, Readable) : attr'[b] = attr[b]
  <1>1. PICK a \in Lands(q, Writable), v \in Rounds[value] : attr' = [attr EXCEPT ![a] = v]
    BY DEF WriteLands
  <1>2. \A b \in Lands(p, Readable) : b # a /\ b \in Registers
    BY DEF Lands, Registers
  <1> QED BY <1>1, <1>2 DEF NodeInv, TypeOK, AttrTypeOK

(* While the callback writes, no other topic of its attribute publishes:   *)
(* there is none, and its own thread waits for m_mutex.                    *)
LEMMA CallbackExcludes ==
    ASSUME NoOtherWriter, NodeInv, OwnedInv, SourceInv, OwnPathInv,
           pc[Update] = "write", NEW o \in Topics, pc[o] = "publish"
    PROVE  job[Update].path # info[o].path
  <1> DEFINE u == job[Update].topic
  <1>1. u \in Topics /\ stage[u] = "alive" /\ job[Update].path = info[u].path /\ lock[u] = Update
    BY DEF NodeInv, JobInv, HoldInv, OwnedInv, CallbackInv, OwnPathInv
  <1>2. lock[o] = o /\ stage[o] # "none" /\ o # Update
    BY ThreadFacts DEF NodeInv, LockInv, ThreadInv
  <1>3. o # u
    BY <1>1, <1>2
  <1>4. stage[o] = "alive"
    <2>1. stage[o] # "dying"
      BY ThreadFacts DEF OwnedInv, DyingObject, AloneInv
    <2> QED BY <1>2, <2>1 DEF NodeInv, TypeOK
  <1>5. info[o] \in CanEnable /\ info[u] \in CanEnable
    BY <1>1, <1>4 DEF SourceInv, InfoInv
  <1>6. info[o].name \in Names /\ info[u].name \in Names
    BY <1>5, TopicAssumption DEF CanEnable, Info
  <1>7. info[o].name # info[u].name
    BY <1>1, <1>3, <1>4, <1>6 DEF OwnedInv, AliveObject
  <1> QED BY <1>1, <1>5, <1>7 DEF NoOtherWriter

LEMMA CurrentStep ==
    ASSUME NoOtherWriter, NodeInv, NodeInv', OwnedInv, SourceInv, OwnPathInv, WriterInv,
           PublishesCurrent, [Next]_vars
    PROVE  PublishesCurrent'
  <1>1. CASE Clients
    BY <1>1, Begins DEF PublishesCurrent, objects
  <1>2. ASSUME NEW t \in Threads, Acquire(t) \/ Proceed(t)
        PROVE  PublishesCurrent'
    <2> DEFINE values(o) == {attr[r] : r \in Lands(info[o].path, Readable)}
    <2> SUFFICES ASSUME NEW o \in Topics, pc'[o] = "publish"
                 PROVE  text'[o] \in values(o)' \cup {"error"}
      BY DEF PublishesCurrent
    <2>1. pc[o] # "none"
      BY <1>2, TextChanges
    <2>2. info'[o] = info[o] /\ info[o] \in CanEnable
      BY <1>2, <2>1, SameObject DEF SourceInv, InfoInv
    <2>3. CASE pc[o] = "publish" /\ text'[o] = text[o]
      <3>1. text[o] \in values(o) \cup {"error"}
        BY <2>3 DEF PublishesCurrent
      <3>2. CASE attr' = attr
        BY <2>2, <2>3, <3>1, <3>2
      <3>3. CASE /\ t \in {"AttrWriteString", Update} /\ pc[t] = "write"
                 /\ WriteLands(job[t].path, job[t].value)
        <4>1. job[t].path # info[o].path
          <5>1. CASE t = "AttrWriteString"
            BY <2>2, <3>3, <5>1 DEF WriterInv, NoOtherWriter
          <5>2. CASE t = Update
            BY <2>3, <3>3, <5>2, CallbackExcludes
          <5> QED BY <3>3, <5>1, <5>2
        <4>2. \A b \in Lands(info[o].path, Readable) : attr'[b] = attr[b]
          BY <3>3, <4>1, WriteElsewhere
        <4> QED BY <2>2, <2>3, <3>1, <4>2
      <3> QED BY <1>2, <3>2, <3>3, AttrChanges
    <2>4. ASSUME UNCHANGED attr,
                 NEW result \in IF Reaches(info[o].path) THEN ReadResults(info[o].path)
                                ELSE {Unreached(info[o].path, FALSE)},
                 text'[o] = result.text
          PROVE  text'[o] \in values(o)' \cup {"error"}
      <3>1. \/ \E b \in Lands(info[o].path, Readable) : result.text = attr[b]
            \/ result.text = "error"
        BY <2>2, TopicReads
      <3> QED BY <2>2, <2>4, <3>1
    <2> QED BY <1>2, <2>3, <2>4, TextChanges
  <1>3. CASE Shutdown \/ UNCHANGED vars
    BY <1>3 DEF Shutdown, vars, objects, PublishesCurrent
  <1> QED BY <1>1, <1>2, <1>3 DEF Next

(* What publishingLoop is about to send is what the attribute holds, or    *)
(* the text of an error, if only the topic's own subscription writes it:   *)
(* the read and the publication, and the whole of update, are critical     *)
(* sections of one m_mutex (iio_attr_topic.cpp:69 and :83).                 *)
THEOREM CurrentSafety == MapUsersAlone /\ NoOtherWriter /\ Spec => []PublishesCurrent
  <1> DEFINE Inv == /\ NodeInv /\ OwnedInv /\ SourceInv /\ OwnPathInv /\ WriterInv
                    /\ PublishesCurrent
  <1> SUFFICES ASSUME MapUsersAlone, NoOtherWriter PROVE Spec => []PublishesCurrent
    OBVIOUS
  <1>1. Init => Inv
    BY NodeInit, OwnedInit, SourceInit, ThreadFacts
       DEF Init, OwnPathInv, WriterInv, PublishesCurrent
  <1>2. Inv /\ [Next]_vars => Inv'
    BY NodeStep, OwnedStep, SourceStep, OwnPathStep, WriterStep, CurrentStep
  <1> QED BY <1>1, <1>2, PTL DEF Spec

------------------------------------------------------------------------------
(* A write reads back what the hardware made of it *)

LEMMA ReadBackStep ==
    ASSUME NoOtherWriter, OneRegister, NodeInv, SourceInv, WriterInv, ReadBackInv, [Next]_vars
    PROVE  ReadBackInv'
  <1> DEFINE w == "AttrWriteString"
             j == job[w]
  <1>1. w \in Callers /\ w # Update
    BY ThreadFacts
  <1>2. CASE Clients
    BY <1>1, <1>2, Begins DEF ReadBackInv
  <1>3. ASSUME NEW t \in Threads, Acquire(t) \/ Proceed(t), pc'[w] = "read"
        PROVE  /\ Reaches(j'.path)
               /\ \A b \in Lands(j'.path, Readable) : attr'[b] \in Rounds[j'.value]
    <2>1. CASE t = w
      <3>1. /\ pc[w] = "write" /\ Reaches(j.path) /\ WriteLands(j.path, j.value)
            /\ j'.path = j.path /\ j'.value = j.value
        BY <1>1, <1>3, <2>1, CallerGoesOn
      <3>2. PICK a \in Lands(j.path, Writable), v \in Rounds[j.value] :
               attr' = [attr EXCEPT ![a] = v]
        BY <3>1 DEF WriteLands
      <3>3. a \in Registers
        BY DEF Lands, Registers
      <3>4. \A b \in Lands(j.path, Readable) : b = a
        BY <3>1 DEF WriterInv, OneRegister
      <3> QED BY <3>1, <3>2, <3>3, <3>4 DEF NodeInv, TypeOK, AttrTypeOK
    <2>2. CASE t # w
      <3>1. pc[w] = "read" /\ j' = j
        BY <1>1, <1>3, <2>2, OthersStay
      <3>2. Reaches(j.path) /\ \A b \in Lands(j.path, Readable) : attr[b] \in Rounds[j.value]
        BY <3>1 DEF ReadBackInv
      <3>3. CASE attr' = attr
        BY <3>1, <3>2, <3>3
      <3>4. CASE t = Update /\ pc[t] = "write" /\ WriteLands(job[t].path, job[t].value)
        <4>1. job[Update].path # j.path
          BY <3>1, <3>4 DEF SourceInv, InfoInv, WriterInv, NoOtherWriter
        <4> QED BY <3>1, <3>2, <3>4, <4>1, WriteElsewhere
      <3> QED BY <1>3, <2>2, <3>3, <3>4, AttrChanges
    <2> QED BY <2>1, <2>2
  <1>4. CASE Shutdown \/ UNCHANGED vars
    BY <1>4 DEF Shutdown, vars, objects, ReadBackInv
  <1> QED BY <1>2, <1>3, <1>4 DEF Next, ReadBackInv

LEMMA MapReplies ==
    ASSUME NEW t, NotThere(t) \/ Join(t) \/ Insert(t)
    PROVE  reply' = reply \/ reply'.to = t
  <1>1. CASE NotThere(t)
    <2>1. ASSUME NEW ok, NEW message, Respond(t, ok, message)
          PROVE  reply'.to = t
      BY <2>1 DEF Respond
    <2>2. CASE UNCHANGED reply
      BY <2>2
    <2>3. CASE Respond(t, FALSE, "")
      BY <2>1, <2>3
    <2> QED BY <1>1, <2>2, <2>3 DEF NotThere
  <1>2. CASE Join(t)
    <2>1. \/ reply' = [to |-> t, value |-> NULL, ok |-> TRUE, text |-> "Success"]
          \/ reply' = reply
      BY <1>2 DEF Join
    <2> QED BY <2>1
  <1>3. CASE Insert(t)
    BY <1>3 DEF Insert
  <1> QED BY <1>1, <1>2, <1>3

LEMMA WhoReplies ==
    ASSUME NEW t \in Threads, Acquire(t) \/ Proceed(t)
    PROVE  \/ t \in {"AttrWriteString", Update} /\ Write(t)
           \/ Read(t)
           \/ t \in MapUsers /\ (NotThere(t) \/ Join(t))
           \/ t = "AttrEnableTopic" /\ Insert(t)
           \/ reply' = reply
  <1>1. CASE MapRace(t) \/ Erase(t)
    BY <1>1 DEF MapRace, Erase, Crash
  <1>2. CASE UpdateLock \/ UpdateUnlock \/ UpdateDangling
    BY <1>2 DEF UpdateLock, UpdateUnlock, UpdateDangling, Crash
  <1>3. CASE LoopCheck(t) \/ LoopLock(t) \/ Publish(t) \/ LoopSleep(t)
    BY <1>3 DEF LoopCheck, LoopLock, Publish, LoopSleep, Crash
  <1> QED BY <1>1, <1>2, <1>3 DEF Acquire, Proceed

(* An answer of AttrWriteString is good only when its read was.            *)
LEMMA ReplyChanges ==
    ASSUME NodeInv, NEW t \in Threads, Acquire(t) \/ Proceed(t),
           reply' # reply, reply'.to = "AttrWriteString", reply'.ok
    PROVE  /\ t = "AttrWriteString" /\ pc[t] = "read" /\ reply'.value = job[t].value
           /\ \E result \in IF Reaches(job[t].path) THEN ReadResults(job[t].path)
                            ELSE {Unreached(job[t].path, FALSE)} :
                 result.ok /\ reply'.text = result.text
  <1> DEFINE w == "AttrWriteString"
  <1>1. w \in Threads /\ w \in Callers /\ w \notin Topics /\ w # Update /\ w \notin MapUsers
    BY ThreadFacts
  <1>2. CASE t \in {w, Update} /\ Write(t)
    <2>1. CASE UNCHANGED reply
      BY <2>1
    <2>2. ASSUME NEW result, End(t, result), result.ok = FALSE
          PROVE  FALSE
      BY <1>1, <1>2, <2>2, EndMoves, ThreadFacts
    <2>3. Failure.ok = FALSE /\ Unreached(PathOf(t), TRUE).ok = FALSE
      <3>1. CASE Kind[PathOf(t)] = "context"
        BY <3>1 DEF Unreached, Failure
      <3>2. CASE Kind[PathOf(t)] = "invalid"
        BY <3>2 DEF Unreached, Failure
      <3>3. CASE Kind[PathOf(t)] \notin {"context", "invalid"}
        BY <3>3 DEF Unreached, Failure
      <3> QED BY <3>1, <3>2, <3>3
    <2> QED BY <1>2, <2>1, <2>2, <2>3 DEF Write
  <1>3. CASE Read(t)
    <2>1. PICK result \in IF Reaches(PathOf(t)) THEN ReadResults(PathOf(t))
                          ELSE {Unreached(PathOf(t), FALSE)} : End(t, result)
      BY <1>3 DEF Read
    <2>2. t = w
      BY <2>1, EndMoves
    <2>3. reply' = [to |-> t, value |-> job[t].value, ok |-> result.ok, text |-> result.text]
      BY <2>1, <2>2, EndMoves
    <2>4. pc[t] = "read" /\ PathOf(t) = job[t].path
      BY <1>1, <1>3, <2>2 DEF Read, At, PathOf
    <2>5. reply'.value = job[t].value /\ reply'.ok = result.ok /\ reply'.text = result.text
      BY <2>3
    <2> QED BY <2>1, <2>2, <2>4, <2>5
  <1>4. CASE \/ t \in MapUsers /\ (NotThere(t) \/ Join(t))
             \/ t = "AttrEnableTopic" /\ Insert(t)
    <2>1. reply' = reply \/ reply'.to = t
      BY <1>4, MapReplies
    <2> QED BY <1>1, <1>4, <2>1, ThreadFacts
  <1> QED BY <1>2, <1>3, <1>4, WhoReplies

LEMMA ReplyStep ==
    ASSUME NodeInv, ReadBackInv, WriteReadsBack, [Next]_vars
    PROVE  WriteReadsBack'
  <1>1. CASE Clients
    <2>1. NoReply.to # "AttrWriteString"
      BY DEF NoReply
    <2> QED BY <1>1, <2>1, Begins DEF WriteReadsBack
  <1>2. ASSUME NEW t \in Threads, Acquire(t) \/ Proceed(t)
        PROVE  WriteReadsBack'
    <2>1. CASE reply' = reply
      BY <2>1 DEF WriteReadsBack
    <2>2. CASE reply' # reply /\ reply'.to = "AttrWriteString" /\ reply'.ok
      <3>1. /\ t = "AttrWriteString" /\ pc[t] = "read" /\ reply'.value = job[t].value
            /\ \E result \in IF Reaches(job[t].path) THEN ReadResults(job[t].path)
                             ELSE {Unreached(job[t].path, FALSE)} :
                  result.ok /\ reply'.text = result.text
        BY <1>2, <2>2, ReplyChanges
      <3>2. /\ Reaches(job[t].path)
            /\ \A b \in Lands(job[t].path, Readable) : attr[b] \in Rounds[job[t].value]
        BY <3>1 DEF ReadBackInv
      <3>3. PICK result \in ReadResults(job[t].path) : result.ok /\ reply'.text = result.text
        BY <3>1, <3>2
      <3>4. Failure.ok = FALSE
        BY DEF Failure
      <3>5. PICK b \in Lands(job[t].path, Readable) : result = [ok |-> TRUE, text |-> attr[b]]
        BY <3>3, <3>4 DEF ReadResults
      <3>6. reply'.text = attr[b]
        BY <3>3, <3>5
      <3> QED BY <3>1, <3>2, <3>6 DEF WriteReadsBack
    <2> QED BY <2>1, <2>2 DEF WriteReadsBack
  <1>3. CASE Shutdown \/ UNCHANGED vars
    BY <1>3 DEF Shutdown, vars, WriteReadsBack
  <1> QED BY <1>1, <1>2, <1>3 DEF Next

(* A good answer of AttrWriteString is what the hardware made of the value *)
(* of that very request, whatever the hardware makes of which value and    *)
(* however the other calls, callbacks and topics run beside it, if nobody  *)
(* else writes that attribute and it is read where it is written           *)
(* (iio_node.cpp, rwAttrPath).                                             *)
THEOREM ReadBackSafety == NoOtherWriter /\ OneRegister /\ Spec => []WriteReadsBack
  <1> DEFINE Inv == NodeInv /\ SourceInv /\ WriterInv /\ ReadBackInv /\ WriteReadsBack
  <1> SUFFICES ASSUME NoOtherWriter, OneRegister PROVE Spec => []WriteReadsBack
    OBVIOUS
  <1>1. Init => Inv
    <2>1. NoReply.to # "AttrWriteString"
      BY DEF NoReply
    <2> QED BY <2>1, NodeInit, SourceInit, ThreadFacts
            DEF Init, WriterInv, ReadBackInv, WriteReadsBack
  <1>2. Inv /\ [Next]_vars => Inv'
    BY NodeStep, SourceStep, WriterStep, ReadBackStep, ReplyStep
  <1> QED BY <1>1, <1>2, PTL DEF Spec

=============================================================================
