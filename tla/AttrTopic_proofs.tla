-------------------------- MODULE AttrTopic_proofs --------------------------
(***************************************************************************)
(* What holds of AttrTopic for every client, context and set of topics:    *)
(* its types and the invariant of the objects' m_mutex.                    *)
(***************************************************************************)
EXTENDS AttrTopic, TLAPS

(* Where a caller can stand.                                               *)
PlaceInv ==
    /\ pc["AttrReadString"] \in {"idle", "read"}
    /\ pc["AttrWriteString"] \in {"idle", "write", "read"}
    /\ pc["AttrEnableTopic"] \in {"idle", "read", "erase", "join", "insert"}
    /\ pc["AttrDisableTopic"] \in {"idle", "erase", "join"}
    /\ pc[Update] \in {"idle", "lock", "write", "read", "unlock"}

(* What a caller's job has been given by then.                             *)
JobInv ==
    /\ \A c \in Callers : pc[c] \in {"lock", "write", "read"} => job[c].path \in Paths
    /\ \A c \in Callers : pc[c] \in {"lock", "write"} => job[c].value \in Values
    /\ pc[Update] # "idle" => job[Update].topic \in Topics
    /\ \A s \in MapUsers : pc[s] # "idle" => job[s].name \in Names
    /\ \A s \in MapUsers : pc[s] = "join" => job[s].topic \in Topics
    /\ pc["AttrEnableTopic"] # "idle" =>
          job["AttrEnableTopic"].path \in Paths /\ job["AttrEnableTopic"].type \in Types

(* A thread runs in an object that exists.                                 *)
ThreadInv == \A o \in Topics : pc[o] # "none" => stage[o] # "none"

(* The callback keeps the mutex it took: no object is made at its address. *)
HoldInv == pc[Update] \in {"write", "read", "unlock"} => lock[job[Update].topic] = Update

NodeInv == TypeOK /\ PlaceInv /\ JobInv /\ ThreadInv /\ LockInv /\ HoldInv

------------------------------------------------------------------------------

LEMMA ThreadFacts ==
    /\ Threads = Callers \cup Topics
    /\ Callers = {"AttrReadString", "AttrWriteString", "AttrEnableTopic", "AttrDisableTopic",
                  "update"}
    /\ Update = "update"
    /\ MapUsers = {"AttrEnableTopic", "AttrDisableTopic"}
    /\ Callers \cap Topics = {}
    /\ NULL \notin Names \cup Threads \cup Paths \cup Types \cup Values
  BY TopicAssumption DEF Threads, Callers, Services, Update, MapUsers

LEMMA NoJobTypes == NoJob \in Job
  BY DEF NoJob, Job

LEMMA GotoPc ==
    ASSUME TypeOK, NEW t \in Threads, NEW label, Goto(t, label),
           t \in Callers => label \in Labels, t \in Topics => label \in LoopLabels
    PROVE  /\ pc' \in [Threads -> Labels \cup LoopLabels]
           /\ \A c \in Callers : pc'[c] \in Labels
           /\ \A o \in Topics : pc'[o] \in LoopLabels
           /\ pc'[t] = label
           /\ \A u \in Threads \ {t} : pc'[u] = pc[u]
  BY ThreadFacts DEF TypeOK, Goto

(* What an access to an attribute yields is a text.                        *)
LEMMA AccessTypes ==
    ASSUME AttrTypeOK, NEW p \in Paths
    PROVE  /\ \A r \in ReadResults(p) : r.text \in Texts
           /\ \A w \in BOOLEAN : Unreached(p, w).text \in Texts
           /\ Failure.text \in Texts
  <1>1. Values \subseteq Texts /\ {"", "error", "invalid_path"} \subseteq Texts
    BY DEF Texts
  <1>2. \A r \in Lands(p, Readable) : attr[r] \in Values
    BY DEF AttrTypeOK, Lands, Registers
  <1>3. Failure.text \in Texts
    BY <1>1 DEF Failure
  <1>4. Kind[p] = "context" => attr[<<p, "plain">>] \in Values
    BY AttrAssumption DEF AttrTypeOK, Registers
  <1>5. \A w \in BOOLEAN : Unreached(p, w).text \in Texts
    BY <1>1, <1>4 DEF Unreached
  <1>6. \A r \in ReadResults(p) : r.text \in Texts
    <2> SUFFICES ASSUME NEW r \in ReadResults(p) PROVE r.text \in Texts
      OBVIOUS
    <2>1. CASE r = Failure
      BY <1>3, <2>1
    <2>2. CASE \E reg \in Lands(p, Readable) : r = [ok |-> TRUE, text |-> attr[reg]]
      <3>1. PICK reg \in Lands(p, Readable) : r = [ok |-> TRUE, text |-> attr[reg]]
        BY <2>2
      <3>2. r.text = attr[reg]
        BY <3>1
      <3> QED BY <1>1, <1>2, <3>2
    <2> QED BY <2>1, <2>2 DEF ReadResults
  <1> QED BY <1>3, <1>5, <1>6

LEMMA WriteTypes ==
    ASSUME AttrTypeOK, NEW p, NEW value \in Values, WriteLands(p, value)
    PROVE  AttrTypeOK'
  <1>1. PICK r \in Lands(p, Writable), v \in Rounds[value] : attr' = [attr EXCEPT ![r] = v]
    BY DEF WriteLands
  <1>2. v \in Values
    BY AttrAssumption
  <1> QED BY <1>1, <1>2 DEF AttrTypeOK, Lands, Registers

(* A step that enters and leaves no critical section of m_mutex.           *)
LEMMA MutexAside ==
    ASSUME LockInv, HoldInv, UNCHANGED lock,
           \A o \in Topics : pc'[o] \in {"read", "publish"} <=> pc[o] \in {"read", "publish"},
           pc'[Update] \in {"write", "read", "unlock"} <=> pc[Update] \in {"write", "read", "unlock"},
           pc[Update] \in {"write", "read", "unlock"} => UNCHANGED job[Update].topic
    PROVE  LockInv' /\ HoldInv'
  BY DEF LockInv, HoldInv

(* A step that moves a caller and touches neither objects nor the map.     *)
LEMMA CrashKeeps ==
    ASSUME NodeInv, NEW how \in Crashes, Crash(how)
    PROVE  NodeInv'
  BY DEF NodeInv, TypeOK, AttrTypeOK, PlaceInv, JobInv, ThreadInv, LockInv, HoldInv, Crash, objects

LEMMA RespondKeeps ==
    ASSUME NodeInv, NEW s \in Services, NEW ok, NEW message, Respond(s, ok, message),
           UNCHANGED <<attr, map, objects, text, rosOk, crash>>
    PROVE  NodeInv'
  <1>1. pc' \in [Threads -> Labels \cup LoopLabels]
        /\ (\A c \in Callers : pc'[c] \in Labels) /\ (\A o \in Topics : pc'[o] \in LoopLabels)
        /\ pc'[s] = "idle" /\ \A u \in Threads \ {s} : pc'[u] = pc[u]
    BY GotoPc, ThreadFacts DEF NodeInv, Respond, Labels, Services, Callers, Threads
  <1>2. job' \in [Callers -> Job] /\ \A c \in Callers \ {s} : job'[c] = job[c]
    BY NoJobTypes DEF NodeInv, TypeOK, Respond
  <1>3. TypeOK'
    BY <1>1, <1>2 DEF NodeInv, TypeOK, AttrTypeOK, objects
  <1>4. s # Update /\ Update \in Threads /\ s \in Callers /\ \A o \in Topics : s # o
    BY ThreadFacts DEF Services
  <1>5. PlaceInv'
    BY <1>1, ThreadFacts DEF NodeInv, PlaceInv
  <1>6. JobInv'
    BY <1>1, <1>2, ThreadFacts DEF NodeInv, JobInv
  <1>7. ThreadInv'
    BY <1>1, <1>4, ThreadFacts DEF NodeInv, ThreadInv, objects
  <1>8. LockInv' /\ HoldInv'
    <2>1. pc'[Update] = pc[Update] /\ job'[Update] = job[Update]
      BY <1>1, <1>2, <1>4, ThreadFacts
    <2>2. \A o \in Topics : pc'[o] = pc[o]
      BY <1>1, <1>4, ThreadFacts
    <2> QED BY <2>1, <2>2, MutexAside DEF NodeInv, objects
  <1> QED BY <1>3, <1>5, <1>6, <1>7, <1>8 DEF NodeInv


(* A call or a callback begins.                                            *)
LEMMA StartKeeps ==
    ASSUME NodeInv, NEW c \in Callers, NEW label \in Labels, NEW new \in Job,
           Start(c, label, new),
           PlaceInv', JobInv',
           c = Update => label \notin {"write", "read", "unlock"}
    PROVE  NodeInv'
  <1>1. /\ pc' \in [Threads -> Labels \cup LoopLabels]
        /\ (\A d \in Callers : pc'[d] \in Labels) /\ (\A o \in Topics : pc'[o] \in LoopLabels)
        /\ pc'[c] = label /\ \A u \in Threads \ {c} : pc'[u] = pc[u]
    BY GotoPc, ThreadFacts DEF NodeInv, Start
  <1>2. /\ job' \in [Callers -> Job] /\ \A d \in Callers \ {c} : job'[d] = job[d]
        /\ pc[c] = "idle"
    BY DEF NodeInv, TypeOK, Start, At
  <1>3. TypeOK'
    BY <1>1, <1>2 DEF NodeInv, TypeOK, AttrTypeOK, objects, Start
  <1>4. \A o \in Topics : pc'[o] = pc[o]
    BY <1>1, ThreadFacts
  <1>5. ThreadInv'
    BY <1>4 DEF NodeInv, ThreadInv, objects, Start
  <1>6. LockInv' /\ HoldInv'
    <2>1. /\ pc'[Update] \in {"write", "read", "unlock"} <=> pc[Update] \in {"write", "read", "unlock"}
          /\ pc[Update] \in {"write", "read", "unlock"} => UNCHANGED job[Update]
      BY <1>1, <1>2, ThreadFacts
    <2> QED BY <1>4, <2>1, MutexAside DEF NodeInv, objects, Start
  <1> QED BY <1>3, <1>5, <1>6 DEF NodeInv

(* What Start changes, for the invariants of places and jobs.              *)
LEMMA Started ==
    ASSUME NodeInv, NEW c \in Callers, NEW label \in Labels, NEW new, Start(c, label, new)
    PROVE  /\ pc'[c] = label /\ \A d \in Callers \ {c} : pc'[d] = pc[d]
           /\ job'[c] = new /\ \A d \in Callers \ {c} : job'[d] = job[d]
  BY GotoPc, ThreadFacts DEF NodeInv, TypeOK, Start

LEMMA ClientKeeps ==
    ASSUME NodeInv, Clients
    PROVE  NodeInv'
  <1>1. CASE CallRead
    <2>1. PICK p \in ReadRequests :
             Start("AttrReadString", "read", [NoJob EXCEPT !.path = p])
      BY <1>1 DEF CallRead
    <2> DEFINE new == [NoJob EXCEPT !.path = p]
    <2>2. new \in Job /\ new.path \in Paths
      BY TopicAssumption DEF NoJob, Job, Info
    <2>3. Start("AttrReadString", "read", new) /\ "AttrReadString" \in Callers /\ "read" \in Labels
      BY <2>1, ThreadFacts DEF Labels
    <2> HIDE DEF new
    <2>4. /\ pc'["AttrReadString"] = "read" /\ job'["AttrReadString"] = new
          /\ \A d \in Callers \ {"AttrReadString"} : pc'[d] = pc[d] /\ job'[d] = job[d]
      BY <2>3, Started
    <2>5. PlaceInv'
      BY <2>4, ThreadFacts DEF NodeInv, PlaceInv
    <2>6. JobInv'
      BY <2>2, <2>4, ThreadFacts DEF NodeInv, JobInv
    <2> QED BY <2>2, <2>3, <2>5, <2>6, StartKeeps, ThreadFacts
  <1>2. CASE CallWrite
    <2>1. PICK r \in WriteRequests :
             Start("AttrWriteString", "write", [NoJob EXCEPT !.path = r.path, !.value = r.value])
      BY <1>2 DEF CallWrite
    <2> DEFINE new == [NoJob EXCEPT !.path = r.path, !.value = r.value]
    <2>2. new \in Job /\ new.path \in Paths /\ new.value \in Values
      BY TopicAssumption DEF NoJob, Job, Info
    <2>3. Start("AttrWriteString", "write", new) /\ "AttrWriteString" \in Callers /\ "write" \in Labels
      BY <2>1, ThreadFacts DEF Labels
    <2> HIDE DEF new
    <2>4. /\ pc'["AttrWriteString"] = "write" /\ job'["AttrWriteString"] = new
          /\ \A d \in Callers \ {"AttrWriteString"} : pc'[d] = pc[d] /\ job'[d] = job[d]
      BY <2>3, Started
    <2>5. PlaceInv'
      BY <2>4, ThreadFacts DEF NodeInv, PlaceInv
    <2>6. JobInv'
      BY <2>2, <2>4, ThreadFacts DEF NodeInv, JobInv
    <2> QED BY <2>2, <2>3, <2>5, <2>6, StartKeeps, ThreadFacts
  <1>3. CASE CallEnable
    <2>1. PICK r \in EnableRequests :
             Start("AttrEnableTopic", "read", [NoJob EXCEPT !.path = r.path, !.name = r.name, !.type = r.type])
      BY <1>3 DEF CallEnable
    <2> DEFINE new == [NoJob EXCEPT !.path = r.path, !.name = r.name, !.type = r.type]
    <2>2. new \in Job /\ new.path \in Paths /\ new.name \in Names /\ new.type \in Types
      BY TopicAssumption DEF NoJob, Job, Info
    <2>3. Start("AttrEnableTopic", "read", new) /\ "AttrEnableTopic" \in Callers /\ "read" \in Labels
      BY <2>1, ThreadFacts DEF Labels
    <2> HIDE DEF new
    <2>4. /\ pc'["AttrEnableTopic"] = "read" /\ job'["AttrEnableTopic"] = new
          /\ \A d \in Callers \ {"AttrEnableTopic"} : pc'[d] = pc[d] /\ job'[d] = job[d]
      BY <2>3, Started
    <2>5. PlaceInv'
      BY <2>4, ThreadFacts DEF NodeInv, PlaceInv
    <2>6. JobInv'
      BY <2>2, <2>4, ThreadFacts DEF NodeInv, JobInv
    <2> QED BY <2>2, <2>3, <2>5, <2>6, StartKeeps, ThreadFacts
  <1>4. CASE CallDisable
    <2>1. PICK n \in Names :
             Start("AttrDisableTopic", "erase", [NoJob EXCEPT !.name = n])
      BY <1>4 DEF CallDisable
    <2> DEFINE new == [NoJob EXCEPT !.name = n]
    <2>2. new \in Job /\ new.name \in Names
      BY TopicAssumption DEF NoJob, Job, Info
    <2>3. Start("AttrDisableTopic", "erase", new) /\ "AttrDisableTopic" \in Callers /\ "erase" \in Labels
      BY <2>1, ThreadFacts DEF Labels
    <2> HIDE DEF new
    <2>4. /\ pc'["AttrDisableTopic"] = "erase" /\ job'["AttrDisableTopic"] = new
          /\ \A d \in Callers \ {"AttrDisableTopic"} : pc'[d] = pc[d] /\ job'[d] = job[d]
      BY <2>3, Started
    <2>5. PlaceInv'
      BY <2>4, ThreadFacts DEF NodeInv, PlaceInv
    <2>6. JobInv'
      BY <2>2, <2>4, ThreadFacts DEF NodeInv, JobInv
    <2> QED BY <2>2, <2>3, <2>5, <2>6, StartKeeps, ThreadFacts
  <1>5. CASE TakeUpdate
    <2>1. PICK o \in Topics, m \in Messages :
             /\ stage[o] # "none" /\ m.type = info[o].type
             /\ Start(Update, "lock", [NoJob EXCEPT !.path = info[o].path, !.value = m.text, !.topic = o])
      BY <1>5 DEF TakeUpdate
    <2> DEFINE new == [NoJob EXCEPT !.path = info[o].path, !.value = m.text, !.topic = o]
    <2>2. new \in Job /\ new.path \in Paths /\ new.value \in Values /\ new.topic \in Topics
      BY <2>1, TopicAssumption DEF NoJob, Job, Info, NodeInv, TypeOK
    <2>3. Start(Update, "lock", new) /\ Update \in Callers /\ "lock" \in Labels
      BY <2>1, ThreadFacts DEF Labels
    <2> HIDE DEF new
    <2>4. /\ pc'[Update] = "lock" /\ job'[Update] = new
          /\ \A d \in Callers \ {Update} : pc'[d] = pc[d] /\ job'[d] = job[d]
      BY <2>3, Started
    <2>5. PlaceInv'
      BY <2>4, ThreadFacts DEF NodeInv, PlaceInv
    <2>6. JobInv'
      BY <2>2, <2>4, ThreadFacts DEF NodeInv, JobInv
    <2> QED BY <2>2, <2>3, <2>5, <2>6, StartKeeps, ThreadFacts
  <1> QED BY <1>1, <1>2, <1>3, <1>4, <1>5 DEF Clients

(* A caller, or a publishing thread, moves and nothing else changes but    *)
(* what is known of the attributes.                                        *)
LEMMA CallerMoves ==
    ASSUME NodeInv, NEW c \in Callers, NEW label \in Labels, Goto(c, label), AttrTypeOK',
           UNCHANGED <<map, objects, job, text, rosOk, crash>>,
           PlaceInv', JobInv',
           c = Update =>
             (label \in {"write", "read", "unlock"} <=> pc[Update] \in {"write", "read", "unlock"})
    PROVE  NodeInv'
  <1>1. /\ pc' \in [Threads -> Labels \cup LoopLabels]
        /\ (\A d \in Callers : pc'[d] \in Labels) /\ (\A o \in Topics : pc'[o] \in LoopLabels)
        /\ pc'[c] = label /\ \A u \in Threads \ {c} : pc'[u] = pc[u]
    BY GotoPc, ThreadFacts DEF NodeInv
  <1>2. TypeOK'
    BY <1>1 DEF NodeInv, TypeOK, objects
  <1>3. \A o \in Topics : pc'[o] = pc[o]
    BY <1>1, ThreadFacts
  <1>4. ThreadInv'
    BY <1>3 DEF NodeInv, ThreadInv, objects
  <1>5. LockInv' /\ HoldInv'
    <2>1. pc'[Update] \in {"write", "read", "unlock"} <=> pc[Update] \in {"write", "read", "unlock"}
      BY <1>1, ThreadFacts
    <2> QED BY <1>3, <2>1, MutexAside DEF NodeInv, objects
  <1> QED BY <1>2, <1>4, <1>5 DEF NodeInv

LEMMA ThreadMoves ==
    ASSUME NodeInv, NEW t \in Topics, NEW label \in LoopLabels \ {"none"}, Goto(t, label),
           text' \in [Topics -> Texts], pc[t] # "none",
           UNCHANGED <<attr, map, objects, job, rosOk, crash>>,
           label \in {"read", "publish"} <=> pc[t] \in {"read", "publish"}
    PROVE  NodeInv'
  <1>1. /\ pc' \in [Threads -> Labels \cup LoopLabels]
        /\ (\A d \in Callers : pc'[d] \in Labels) /\ (\A o \in Topics : pc'[o] \in LoopLabels)
        /\ pc'[t] = label /\ \A u \in Threads \ {t} : pc'[u] = pc[u]
    BY GotoPc, ThreadFacts DEF NodeInv
  <1>2. \A c \in Callers : pc'[c] = pc[c]
    BY <1>1, ThreadFacts
  <1>3. TypeOK'
    BY <1>1 DEF NodeInv, TypeOK, AttrTypeOK, objects
  <1>4. PlaceInv' /\ JobInv'
    BY <1>2, ThreadFacts DEF NodeInv, PlaceInv, JobInv
  <1>5. ThreadInv'
    BY <1>1, ThreadFacts DEF NodeInv, ThreadInv, objects
  <1>6. LockInv' /\ HoldInv'
    <2>1. \A o \in Topics : pc'[o] \in {"read", "publish"} <=> pc[o] \in {"read", "publish"}
      BY <1>1, ThreadFacts
    <2> QED BY <1>2, <2>1, MutexAside, ThreadFacts DEF NodeInv, objects
  <1> QED BY <1>3, <1>4, <1>5, <1>6 DEF NodeInv

(* Moved only: where the others stand and what they do.                    *)
LEMMA Moved ==
    ASSUME NodeInv, NEW c \in Callers, NEW label \in Labels, Goto(c, label)
    PROVE  pc'[c] = label /\ \A d \in Callers \ {c} : pc'[d] = pc[d]
  BY GotoPc, ThreadFacts DEF NodeInv

LEMMA EndKeeps ==
    ASSUME NodeInv, NEW t \in Threads, NEW result, result.text \in Texts, End(t, result),
           pc[t] \in {"write", "read"}, t \in Topics => pc[t] = "read",
           UNCHANGED <<attr, map, objects, rosOk, crash>>
    PROVE  NodeInv'
  <1>1. CASE t \in {"AttrReadString", "AttrWriteString"} /\ Respond(t, result.ok, result.text)
             /\ UNCHANGED text
    BY <1>1, RespondKeeps DEF Services
  <1>2. CASE t = "AttrEnableTopic" /\ Goto(t, "erase") /\ UNCHANGED <<text, reply, job>>
    <2>1. "AttrEnableTopic" \in Callers /\ "erase" \in Labels
      BY ThreadFacts DEF Labels
    <2>2. pc'[t] = "erase" /\ \A d \in Callers \ {t} : pc'[d] = pc[d]
      BY <1>2, <2>1, Moved
    <2>3. PlaceInv' /\ JobInv'
      BY <1>2, <2>2, ThreadFacts DEF NodeInv, PlaceInv, JobInv
    <2>4. AttrTypeOK'
      BY DEF NodeInv, TypeOK, AttrTypeOK
    <2> QED BY <1>2, <2>1, <2>3, <2>4, CallerMoves, ThreadFacts
  <1>3. CASE t = "AttrEnableTopic" /\ Respond(t, FALSE, result.text) /\ UNCHANGED text
    BY <1>3, RespondKeeps DEF Services
  <1>4. CASE t = Update /\ Goto(t, "unlock") /\ UNCHANGED <<text, reply, job>>
    <2>1. Update \in Callers /\ "unlock" \in Labels
      BY ThreadFacts DEF Labels
    <2>2. pc'[t] = "unlock" /\ \A d \in Callers \ {t} : pc'[d] = pc[d]
      BY <1>4, <2>1, Moved
    <2>3. PlaceInv' /\ JobInv'
      BY <1>4, <2>2, ThreadFacts DEF NodeInv, PlaceInv, JobInv
    <2>4. AttrTypeOK'
      BY DEF NodeInv, TypeOK, AttrTypeOK
    <2> QED BY <1>4, <2>1, <2>3, <2>4, CallerMoves, ThreadFacts
  <1>5. CASE t \in Topics /\ Goto(t, "publish") /\ text' = [text EXCEPT ![t] = result.text]
             /\ UNCHANGED <<reply, job>>
    <2>1. text' \in [Topics -> Texts] /\ pc[t] = "read"
      BY <1>5 DEF NodeInv, TypeOK
    <2> QED BY <1>5, <2>1, ThreadMoves DEF LoopLabels
  <1> QED BY <1>1, <1>2, <1>3, <1>4, <1>5 DEF End

LEMMA PathTypes ==
    ASSUME NodeInv, NEW t \in Threads, pc[t] \in {"write", "read"}
    PROVE  PathOf(t) \in Paths
  <1>1. CASE t \in Topics
    <2>1. info[t] \in Info
      BY <1>1 DEF NodeInv, ThreadInv, TypeOK
    <2> QED BY <1>1, <2>1 DEF PathOf, Info
  <1>2. CASE t \in Callers
    BY <1>2, ThreadFacts DEF NodeInv, JobInv, PathOf
  <1> QED BY <1>1, <1>2, ThreadFacts

LEMMA WriteKeeps ==
    ASSUME NodeInv, NEW t \in {"AttrWriteString", Update}, Write(t)
    PROVE  NodeInv'
  <1>1. t \in Callers /\ t \in Threads /\ t \notin Topics /\ pc[t] = "write"
    BY ThreadFacts DEF Write, At
  <1> DEFINE p == PathOf(t)
  <1>2. p \in Paths /\ AttrTypeOK
    BY <1>1, PathTypes DEF NodeInv, TypeOK
  <1>3. CASE WriteLands(p, job[t].value) /\ Goto(t, "read") /\ UNCHANGED <<job, text, reply>>
    <2>1. AttrTypeOK'
      BY <1>1, <1>2, <1>3, WriteTypes DEF NodeInv, JobInv
    <2>2. pc'[t] = "read" /\ \A d \in Callers \ {t} : pc'[d] = pc[d]
      BY <1>1, <1>3, Moved DEF Labels
    <2>3. PlaceInv' /\ JobInv'
      BY <1>1, <1>3, <2>2, ThreadFacts DEF NodeInv, PlaceInv, JobInv
    <2> QED BY <1>1, <1>3, <2>1, <2>3, CallerMoves DEF Labels, Write
  <1>4. CASE End(t, Failure) /\ UNCHANGED attr
    BY <1>1, <1>2, <1>4, AccessTypes, EndKeeps DEF Write
  <1>5. CASE End(t, Unreached(p, TRUE)) /\ UNCHANGED attr
    BY <1>1, <1>2, <1>5, AccessTypes, EndKeeps DEF Write
  <1> QED BY <1>3, <1>4, <1>5 DEF Write

LEMMA ReadKeeps ==
    ASSUME NodeInv, NEW t \in Threads, Read(t)
    PROVE  NodeInv'
  <1> DEFINE p == PathOf(t)
  <1>1. pc[t] = "read"
    BY DEF Read, At
  <1>2. p \in Paths /\ AttrTypeOK
    BY <1>1, PathTypes DEF NodeInv, TypeOK
  <1>3. PICK result \in IF Reaches(p) THEN ReadResults(p) ELSE {Unreached(p, FALSE)} :
           End(t, result)
    BY DEF Read
  <1>4. result.text \in Texts
    BY <1>2, <1>3, AccessTypes
  <1> QED BY <1>1, <1>3, <1>4, EndKeeps DEF Read

(* The callback takes m_mutex and gives it back.                           *)
LEMMA UpdateKeeps ==
    ASSUME NodeInv, UpdateLock \/ UpdateUnlock \/ UpdateDangling
    PROVE  NodeInv'
  <1> DEFINE o == job[Update].topic
  <1>1. CASE UpdateLock
    <2>1. pc[Update] = "lock" /\ o \in Topics /\ lock[o] = NULL
          /\ lock' = [lock EXCEPT ![o] = Update]
      BY <1>1 DEF UpdateLock, At, NodeInv, JobInv
    <2>2. /\ pc' \in [Threads -> Labels \cup LoopLabels]
          /\ (\A d \in Callers : pc'[d] \in Labels) /\ (\A q \in Topics : pc'[q] \in LoopLabels)
          /\ pc'[Update] = "write" /\ \A u \in Threads \ {Update} : pc'[u] = pc[u]
      BY <1>1, GotoPc, ThreadFacts DEF UpdateLock, NodeInv, Labels
    <2>3. \A q \in Topics : pc'[q] = pc[q]
      BY <2>2, ThreadFacts
    <2>4. TypeOK'
      BY <1>1, <2>1, <2>2, ThreadFacts DEF UpdateLock, NodeInv, TypeOK, AttrTypeOK
    <2>5. PlaceInv' /\ JobInv'
      BY <1>1, <2>1, <2>2, ThreadFacts DEF UpdateLock, NodeInv, PlaceInv, JobInv
    <2>6. ThreadInv'
      BY <1>1, <2>3 DEF UpdateLock, NodeInv, ThreadInv
    <2>7. lock' \in [Topics -> Threads \cup {NULL}] /\ lock'[o] = Update
          /\ \A q \in Topics \ {o} : lock'[q] = lock[q]
      BY <2>1, <2>4 DEF NodeInv, TypeOK
    <2>8. LockInv' /\ HoldInv'
      BY <1>1, <2>1, <2>2, <2>3, <2>7, ThreadFacts DEF UpdateLock, NodeInv, LockInv, HoldInv
    <2> QED BY <2>4, <2>5, <2>6, <2>8 DEF NodeInv
  <1>2. CASE UpdateUnlock
    <2>1. pc[Update] = "unlock" /\ o \in Topics /\ lock[o] = Update
          /\ lock' = [lock EXCEPT ![o] = NULL] /\ job' = [job EXCEPT ![Update] = NoJob]
      BY <1>2 DEF UpdateUnlock, Unlock, At, NodeInv, JobInv, HoldInv
    <2>2. /\ pc' \in [Threads -> Labels \cup LoopLabels]
          /\ (\A d \in Callers : pc'[d] \in Labels) /\ (\A q \in Topics : pc'[q] \in LoopLabels)
          /\ pc'[Update] = "idle" /\ \A u \in Threads \ {Update} : pc'[u] = pc[u]
      BY <1>2, GotoPc, ThreadFacts DEF UpdateUnlock, NodeInv, Labels
    <2>3. \A q \in Topics : pc'[q] = pc[q]
      BY <2>2, ThreadFacts
    <2>4. job' \in [Callers -> Job] /\ \A c \in Callers \ {Update} : job'[c] = job[c]
      BY <2>1, NoJobTypes DEF NodeInv, TypeOK
    <2>5. TypeOK'
      BY <1>2, <2>1, <2>2, <2>4 DEF UpdateUnlock, NodeInv, TypeOK, AttrTypeOK
    <2>6. PlaceInv' /\ JobInv'
      BY <1>2, <2>2, <2>4, ThreadFacts DEF UpdateUnlock, NodeInv, PlaceInv, JobInv
    <2>7. ThreadInv'
      BY <1>2, <2>3 DEF UpdateUnlock, NodeInv, ThreadInv
    <2>8. lock'[o] = NULL /\ \A q \in Topics \ {o} : lock'[q] = lock[q]
      BY <2>1 DEF NodeInv, TypeOK
    <2>9. LockInv' /\ HoldInv'
      BY <1>2, <2>1, <2>2, <2>3, <2>8, ThreadFacts DEF UpdateUnlock, NodeInv, LockInv, HoldInv
    <2> QED BY <2>5, <2>6, <2>7, <2>9 DEF NodeInv
  <1>3. CASE UpdateDangling
    BY <1>3, CrashKeeps DEF UpdateDangling, Crashes
  <1> QED BY <1>1, <1>2, <1>3

------------------------------------------------------------------------------
(* The map *)

LEMMA NotThereKeeps ==
    ASSUME NodeInv, NEW s \in MapUsers, NotThere(s)
    PROVE  NodeInv'
  <1>1. CASE Respond(s, FALSE, "")
    BY <1>1, RespondKeeps, ThreadFacts DEF NotThere, Services
  <1>2. CASE s = "AttrEnableTopic" /\ Goto(s, "insert") /\ UNCHANGED <<reply, job>>
    <2>1. s \in Callers /\ "insert" \in Labels /\ pc[s] = "erase"
      BY <1>2, ThreadFacts DEF Labels, NotThere, At
    <2>2. pc'[s] = "insert" /\ \A d \in Callers \ {s} : pc'[d] = pc[d]
      BY <1>2, <2>1, Moved
    <2>3. PlaceInv' /\ JobInv'
      BY <1>2, <2>1, <2>2, ThreadFacts DEF NodeInv, PlaceInv, JobInv
    <2>4. AttrTypeOK'
      BY DEF NotThere, NodeInv, TypeOK, AttrTypeOK
    <2> QED BY <1>2, <2>1, <2>3, <2>4, CallerMoves, ThreadFacts DEF NotThere
  <1> QED BY <1>1, <1>2, ThreadFacts DEF NotThere

LEMMA EraseKeeps ==
    ASSUME NodeInv, NEW s \in MapUsers, Erase(s)
    PROVE  NodeInv'
  <1> DEFINE o == map[job[s].name]
             only == \A n \in Names \ {job[s].name} : map[n] = NULL
  <1>1. s \in Callers /\ pc[s] = "erase" /\ job[s].name \in Names /\ o \in Topics
    BY ThreadFacts DEF Erase, At, NodeInv, JobInv, TypeOK
  <1>2. CASE stage[o] = "alive" /\ ~(stage[o] # "alive")
    <2>1. /\ stage' = [stage EXCEPT ![o] = "dying"]
          /\ stop' = [stop EXCEPT ![o] = TRUE]
          /\ map' = IF only THEN map ELSE [map EXCEPT ![job[s].name] = NULL]
          /\ job' = [job EXCEPT ![s].topic = o, ![s].wipes = only]
          /\ Goto(s, "join")
          /\ UNCHANGED <<attr, info, lock, text, reply, rosOk, crash>>
      BY <1>2 DEF Erase
    <2>2. only \in BOOLEAN
      OBVIOUS
    <2> HIDE DEF o, only
    <2>3. /\ pc' \in [Threads -> Labels \cup LoopLabels]
          /\ (\A d \in Callers : pc'[d] \in Labels) /\ (\A q \in Topics : pc'[q] \in LoopLabels)
          /\ pc'[s] = "join" /\ \A u \in Threads \ {s} : pc'[u] = pc[u]
      BY <1>1, <2>1, GotoPc, ThreadFacts DEF NodeInv, Labels
    <2>4. /\ job' \in [Callers -> Job] /\ job'[s].topic = o
          /\ job'[s].name = job[s].name /\ job'[s].path = job[s].path /\ job'[s].type = job[s].type
          /\ \A c \in Callers \ {s} : job'[c] = job[c]
      <3>1. job[s] \in Job /\ job \in [Callers -> Job]
        BY <1>1 DEF NodeInv, TypeOK
      <3>2. job' = [job EXCEPT ![s] = [job[s] EXCEPT !.topic = o, !.wipes = only]]
        BY <1>1, <2>1, <3>1
      <3> DEFINE j == [job[s] EXCEPT !.topic = o, !.wipes = only]
      <3>3. /\ j \in Job /\ j.topic = o
            /\ j.name = job[s].name /\ j.path = job[s].path /\ j.type = job[s].type
        BY <1>1, <2>2, <3>1 DEF Job
      <3> HIDE DEF j
      <3>4. job' = [job EXCEPT ![s] = j]
        BY <3>2 DEF j
      <3> QED BY <1>1, <3>1, <3>3, <3>4
    <2>5. \A q \in Topics : pc'[q] = pc[q]
      BY <1>1, <2>3, ThreadFacts
    <2>6. /\ stage' \in [Topics -> {"none", "alive", "dying"}]
          /\ \A q \in Topics : stage'[q] # "none" <=> stage[q] # "none"
      BY <1>1, <1>2, <2>1 DEF NodeInv, TypeOK
    <2>7. map' \in [Names -> Topics \cup {NULL}] /\ stop' \in [Topics -> BOOLEAN]
      BY <2>1 DEF NodeInv, TypeOK
    <2>8. TypeOK'
      BY <2>1, <2>3, <2>4, <2>6, <2>7 DEF NodeInv, TypeOK, AttrTypeOK
    <2>9. PlaceInv'
      BY <1>1, <2>3, ThreadFacts DEF NodeInv, PlaceInv
    <2>10. JobInv'
      BY <1>1, <2>3, <2>4, ThreadFacts DEF NodeInv, JobInv
    <2>11. ThreadInv'
      BY <2>5, <2>6 DEF NodeInv, ThreadInv
    <2>12. pc'[Update] = pc[Update] /\ job'[Update] = job[Update]
      BY <2>3, <2>4, ThreadFacts
    <2>13. LockInv' /\ HoldInv'
      BY <2>1, <2>5, <2>12, MutexAside DEF NodeInv
    <2> QED BY <2>8, <2>9, <2>10, <2>11, <2>13 DEF NodeInv
  <1>3. CASE Crash("double_erase")
    BY <1>3, CrashKeeps DEF Crashes
  <1> QED BY <1>2, <1>3 DEF Erase

LEMMA JoinKeeps ==
    ASSUME NodeInv, NEW s \in MapUsers, Join(s)
    PROVE  NodeInv'
  <1> DEFINE o == job[s].topic
  <1>1. s \in Callers /\ pc[s] = "join" /\ o \in Topics /\ pc[o] = "finished" /\ s # Update
    BY ThreadFacts DEF Join, At, NodeInv, JobInv
  <1>2. /\ stage' = [stage EXCEPT ![o] = "none"]
        /\ info' = [info EXCEPT ![o] = NULL]
        /\ stop' = [stop EXCEPT ![o] = FALSE]
        /\ text' = [text EXCEPT ![o] = ""]
        /\ map' = IF job[s].wipes THEN [n \in Names |-> NULL] ELSE map
        /\ UNCHANGED <<attr, lock, rosOk, crash>>
    BY DEF Join
  <1>3. \E label \in {"idle", "insert"} :
            /\ pc' = [pc EXCEPT ![s] = label, ![o] = "none"]
            /\ label = "insert" => s = "AttrEnableTopic" /\ job' = job
            /\ label = "idle" => job' = [job EXCEPT ![s] = NoJob]
    BY DEF Join
  <1> HIDE DEF o
  <1>4. PICK label \in {"idle", "insert"} :
            /\ pc' = [pc EXCEPT ![s] = label, ![o] = "none"]
            /\ label = "insert" => s = "AttrEnableTopic" /\ job' = job
            /\ label = "idle" => job' = [job EXCEPT ![s] = NoJob]
    BY <1>3
  <1>5. /\ pc' \in [Threads -> Labels \cup LoopLabels]
        /\ (\A d \in Callers : pc'[d] \in Labels) /\ (\A q \in Topics : pc'[q] \in LoopLabels)
        /\ pc'[s] = label /\ pc'[o] = "none" /\ \A u \in Threads \ {s, o} : pc'[u] = pc[u]
    <2>1. pc' = [pc EXCEPT ![s] = label, ![o] = "none"]
      BY <1>4
    <2>2. /\ pc \in [Threads -> Labels \cup LoopLabels]
          /\ \A d \in Callers : pc[d] \in Labels
          /\ \A q \in Topics : pc[q] \in LoopLabels
      BY DEF NodeInv, TypeOK
    <2>3. label \in Labels /\ "none" \in LoopLabels
      BY DEF Labels, LoopLabels
    <2>4. s \in Threads /\ o \in Threads /\ s # o /\ s \notin Topics /\ o \notin Callers
      BY <1>1, ThreadFacts
    <2>5. pc'[s] = label /\ pc'[o] = "none" /\ \A u \in Threads \ {s, o} : pc'[u] = pc[u]
      BY <2>1, <2>2, <2>4
    <2>6. pc' \in [Threads -> Labels \cup LoopLabels]
      BY <2>1, <2>2, <2>3, <2>4
    <2>7. \A d \in Callers : pc'[d] \in Labels
      BY <2>2, <2>3, <2>4, <2>5, ThreadFacts
    <2>8. \A q \in Topics : pc'[q] \in LoopLabels
      BY <2>2, <2>3, <2>4, <2>5, ThreadFacts
    <2> QED BY <2>5, <2>6, <2>7, <2>8
  <1>6. /\ job' \in [Callers -> Job] /\ \A c \in Callers \ {s} : job'[c] = job[c]
        /\ label = "insert" => job'[s] = job[s]
    BY <1>1, <1>4, NoJobTypes DEF NodeInv, TypeOK
  <1>7. /\ stage' \in [Topics -> {"none", "alive", "dying"}] /\ info' \in [Topics -> Info \cup {NULL}]
        /\ stage'[o] = "none"
        /\ \A q \in Topics \ {o} : stage'[q] = stage[q] /\ info'[q] = info[q]
    BY <1>1, <1>2 DEF NodeInv, TypeOK
  <1>8. /\ stop' \in [Topics -> BOOLEAN] /\ text' \in [Topics -> Texts]
        /\ map' \in [Names -> Topics \cup {NULL}]
    BY <1>2 DEF NodeInv, TypeOK, Texts
  <1>9. TypeOK'
    BY <1>2, <1>5, <1>6, <1>7, <1>8 DEF NodeInv, TypeOK, AttrTypeOK
  <1>10. \A c \in Callers \ {s} : pc'[c] = pc[c]
    BY <1>1, <1>5, ThreadFacts
  <1>11. PlaceInv'
    BY <1>1, <1>4, <1>5, <1>10, ThreadFacts DEF NodeInv, PlaceInv
  <1>12. JobInv'
    BY <1>1, <1>4, <1>5, <1>6, <1>10, ThreadFacts DEF NodeInv, JobInv
  <1>13. \A q \in Topics \ {o} : pc'[q] = pc[q]
    BY <1>1, <1>5, ThreadFacts
  <1>14. ThreadInv'
    BY <1>5, <1>7, <1>13 DEF NodeInv, ThreadInv
  <1>15. pc'[Update] = pc[Update] /\ job'[Update] = job[Update]
    BY <1>1, <1>6, <1>10, ThreadFacts
  <1>16. \A q \in Topics : pc'[q] \in {"read", "publish"} <=> pc[q] \in {"read", "publish"}
    BY <1>1, <1>5, <1>13
  <1>17. LockInv' /\ HoldInv'
    BY <1>2, <1>15, <1>16, MutexAside DEF NodeInv
  <1> QED BY <1>9, <1>11, <1>12, <1>14, <1>17 DEF NodeInv

LEMMA InsertKeeps ==
    ASSUME NodeInv, Insert("AttrEnableTopic")
    PROVE  NodeInv'
  <1> DEFINE s == "AttrEnableTopic"
             new == [path |-> job[s].path, name |-> job[s].name, type |-> job[s].type]
  <1>1. PICK o \in Topics :
          /\ Unused(o)
          /\ stage' = [stage EXCEPT ![o] = "alive"]
          /\ info' = [info EXCEPT ![o] = new]
          /\ lock' = [lock EXCEPT ![o] = NULL]
          /\ map' = [map EXCEPT ![job[s].name] = o]
          /\ pc' = [pc EXCEPT ![s] = "idle", ![o] = "check"]
    BY DEF Insert
  <1>2. /\ pc[s] = "insert" /\ job' = [job EXCEPT ![s] = NoJob]
        /\ UNCHANGED <<attr, stop, text, rosOk, crash>>
    BY DEF Insert, At
  <1>3. new \in Info /\ job[s].name \in Names /\ s \in Callers /\ s # Update
    BY <1>2, ThreadFacts DEF NodeInv, JobInv, Info
  <1> HIDE DEF new
  <1>4. /\ pc' \in [Threads -> Labels \cup LoopLabels]
        /\ (\A d \in Callers : pc'[d] \in Labels) /\ (\A q \in Topics : pc'[q] \in LoopLabels)
        /\ pc'[s] = "idle" /\ pc'[o] = "check" /\ \A u \in Threads \ {s, o} : pc'[u] = pc[u]
    <2>1. /\ s \in Threads /\ o \in Threads /\ s # o
          /\ s \notin Topics /\ o \notin Callers
      BY <1>3, ThreadFacts
    <2>2. "idle" \in Labels /\ "check" \in LoopLabels
      BY DEF Labels, LoopLabels
    <2>3. /\ pc \in [Threads -> Labels \cup LoopLabels]
          /\ (\A d \in Callers : pc[d] \in Labels) /\ \A q \in Topics : pc[q] \in LoopLabels
      BY DEF NodeInv, TypeOK
    <2>4. pc' \in [Threads -> Labels \cup LoopLabels]
      BY <1>1, <2>2, <2>3
    <2>5. pc'[s] = "idle" /\ pc'[o] = "check" /\ \A u \in Threads \ {s, o} : pc'[u] = pc[u]
      BY <1>1, <2>1, <2>3
    <2>6. \A d \in Callers : pc'[d] \in Labels
      BY <2>1, <2>2, <2>3, <2>5, ThreadFacts
    <2>7. \A q \in Topics : pc'[q] \in LoopLabels
      BY <2>1, <2>2, <2>3, <2>5, ThreadFacts
    <2> QED BY <2>4, <2>5, <2>6, <2>7
  <1>5. job' \in [Callers -> Job] /\ \A c \in Callers \ {s} : job'[c] = job[c]
    BY <1>2, NoJobTypes DEF NodeInv, TypeOK
  <1>6. /\ stage' \in [Topics -> {"none", "alive", "dying"}] /\ info' \in [Topics -> Info \cup {NULL}]
        /\ stage'[o] = "alive" /\ info'[o] = new
        /\ \A q \in Topics \ {o} : stage'[q] = stage[q] /\ info'[q] = info[q]
    BY <1>1, <1>3 DEF NodeInv, TypeOK
  <1>7. /\ lock' \in [Topics -> Threads \cup {NULL}] /\ map' \in [Names -> Topics \cup {NULL}]
        /\ lock'[o] = NULL /\ \A q \in Topics \ {o} : lock'[q] = lock[q]
    BY <1>1 DEF NodeInv, TypeOK
  <1>8. new # NULL
    BY <1>3, TopicAssumption
  <1>9. TypeOK'
    BY <1>2, <1>4, <1>5, <1>6, <1>7, <1>8 DEF NodeInv, TypeOK, AttrTypeOK
  <1>10. \A c \in Callers \ {s} : pc'[c] = pc[c]
    BY <1>1, <1>4, ThreadFacts
  <1>11. PlaceInv' /\ JobInv'
    BY <1>4, <1>5, <1>10, ThreadFacts DEF NodeInv, PlaceInv, JobInv
  <1>12. \A q \in Topics \ {o} : pc'[q] = pc[q]
    BY <1>3, <1>4, ThreadFacts
  <1>13. ThreadInv'
    BY <1>6, <1>12 DEF NodeInv, ThreadInv
  <1>14. pc'[Update] = pc[Update] /\ job'[Update] = job[Update]
    BY <1>3, <1>5, <1>10, ThreadFacts
  <1>15. LockInv' /\ HoldInv'
    <2>1. job[Update].topic # o /\ o # NULL /\ Update # NULL
      BY <1>1, ThreadFacts DEF Unused
    <2>2. LockInv'
      BY <1>4, <1>7, <1>12, <1>14, <2>1 DEF NodeInv, LockInv
    <2>3. HoldInv'
      BY <1>7, <1>14, <2>1 DEF NodeInv, HoldInv, JobInv
    <2> QED BY <2>2, <2>3
  <1> QED BY <1>9, <1>11, <1>13, <1>15 DEF NodeInv

------------------------------------------------------------------------------
(* The publishing thread *)

LEMMA LoopKeeps ==
    ASSUME NodeInv, NEW o \in Topics,
           LoopCheck(o) \/ LoopLock(o) \/ Publish(o) \/ LoopSleep(o)
    PROVE  NodeInv'
  <1>1. o \in Threads /\ o \notin Callers /\ o # NULL /\ o # Update
    BY ThreadFacts
  <1>2. text \in [Topics -> Texts]
    BY DEF NodeInv, TypeOK
  <1>3. CASE LoopCheck(o)
    <2>1. PICK label \in {"lock", "finished"} : Goto(o, label)
      BY <1>3 DEF LoopCheck
    <2> QED BY <1>2, <1>3, <2>1, ThreadMoves DEF LoopCheck, At, LoopLabels
  <1>4. CASE LoopSleep(o)
    BY <1>2, <1>4, ThreadMoves DEF LoopSleep, At, LoopLabels
  <1>5. CASE Publish(o) /\ Crash("stoi")
    BY <1>5, CrashKeeps DEF Crashes
  <1>6. ASSUME NEW label \in {"read", "sleep"}, NEW holder \in {o, NULL},
               Goto(o, label), lock' = [lock EXCEPT ![o] = holder],
               label = "read" <=> holder = o, lock[o] \in {o, NULL}, pc[o] # "none",
               UNCHANGED <<attr, map, stage, info, stop, job, text, rosOk, crash>>
        PROVE  NodeInv'
    <2>1. /\ pc' \in [Threads -> Labels \cup LoopLabels]
          /\ (\A d \in Callers : pc'[d] \in Labels) /\ (\A q \in Topics : pc'[q] \in LoopLabels)
          /\ pc'[o] = label /\ \A u \in Threads \ {o} : pc'[u] = pc[u]
      BY <1>1, <1>6, GotoPc DEF NodeInv, LoopLabels
    <2>2. /\ lock' \in [Topics -> Threads \cup {NULL}] /\ lock'[o] = holder
          /\ \A q \in Topics \ {o} : lock'[q] = lock[q]
      BY <1>1, <1>6 DEF NodeInv, TypeOK
    <2>3. TypeOK'
      BY <1>6, <2>1, <2>2 DEF NodeInv, TypeOK, AttrTypeOK
    <2>4. \A c \in Callers : pc'[c] = pc[c]
      BY <1>1, <2>1, ThreadFacts
    <2>5. PlaceInv' /\ JobInv'
      BY <1>6, <2>4, ThreadFacts DEF NodeInv, PlaceInv, JobInv
    <2>6. \A q \in Topics \ {o} : pc'[q] = pc[q]
      BY <2>1, ThreadFacts
    <2>7. ThreadInv'
      BY <1>6, <2>6 DEF NodeInv, ThreadInv
    <2>8. Update \in Callers /\ Update # NULL
      BY ThreadFacts
    <2>9. LockInv'
      BY <1>1, <1>6, <2>1, <2>2, <2>4, <2>6, <2>8 DEF NodeInv, LockInv
    <2>10. HoldInv'
      <3>1. pc'[Update] \in {"write", "read", "unlock"} => job[Update].topic # o
        BY <1>1, <1>6, <2>4, <2>8 DEF NodeInv, HoldInv
      <3>2. pc'[Update] \in {"write", "read", "unlock"} => job[Update].topic \in Topics
        BY <2>4, <2>8 DEF NodeInv, JobInv
      <3> QED BY <1>6, <2>2, <2>4, <2>8, <3>1, <3>2 DEF NodeInv, HoldInv
    <2> QED BY <2>3, <2>5, <2>7, <2>9, <2>10 DEF NodeInv
  <1>7. CASE LoopLock(o)
    BY <1>1, <1>6, <1>7 DEF LoopLock, At
  <1>8. CASE Publish(o) /\ ~Crash("stoi")
    <2>1. lock[o] = o /\ pc[o] # "none"
      BY <1>8 DEF NodeInv, LockInv, Publish, At
    <2> QED BY <1>1, <1>6, <1>8, <2>1 DEF Publish, Unlock
  <1> QED BY <1>3, <1>4, <1>5, <1>7, <1>8

------------------------------------------------------------------------------
(* The invariant *)

LEMMA NodeStep ==
    ASSUME NodeInv, [Next]_vars
    PROVE  NodeInv'
  <1>1. CASE Clients
    BY <1>1, ClientKeeps
  <1>2. CASE Shutdown
    BY <1>2 DEF Shutdown, NodeInv, TypeOK, AttrTypeOK, PlaceInv, JobInv, ThreadInv, LockInv,
                HoldInv, objects
  <1>3. ASSUME NEW t \in Threads, Acquire(t)
        PROVE  NodeInv'
    BY <1>3, UpdateKeeps, LoopKeeps DEF Acquire
  <1>4. ASSUME NEW t \in Threads, Proceed(t)
        PROVE  NodeInv'
    <2>1. CASE t \in {"AttrWriteString", Update} /\ Write(t)
      BY <2>1, WriteKeeps
    <2>2. CASE Read(t)
      BY <2>2, ReadKeeps
    <2>3. CASE UpdateUnlock \/ UpdateDangling
      BY <2>3, UpdateKeeps
    <2>4. CASE t \in MapUsers /\ MapRace(t)
      BY <2>4, CrashKeeps DEF MapRace, Crashes
    <2>5. CASE t \in MapUsers /\ (NotThere(t) \/ Erase(t) \/ Join(t))
      BY <2>5, NotThereKeeps, EraseKeeps, JoinKeeps
    <2>6. CASE t = "AttrEnableTopic" /\ Insert(t)
      BY <2>6, InsertKeeps
    <2>7. CASE t \in Topics /\ (LoopCheck(t) \/ Publish(t) \/ LoopSleep(t))
      BY <2>7, LoopKeeps
    <2> QED BY <1>4, <2>1, <2>2, <2>3, <2>4, <2>5, <2>6, <2>7 DEF Proceed
  <1>5. CASE UNCHANGED vars
    BY <1>5 DEF vars, objects, NodeInv, TypeOK, AttrTypeOK, PlaceInv, JobInv, ThreadInv, LockInv,
                HoldInv
  <1> QED BY <1>1, <1>2, <1>3, <1>4, <1>5 DEF Next

LEMMA NodeInit ==
    ASSUME Init
    PROVE  NodeInv
  <1>1. /\ \A c \in Callers : pc[c] = "idle"
        /\ \A o \in Topics : pc[o] = "none"
    BY ThreadFacts DEF Init
  <1>2. TypeOK
    <2>1. AttrTypeOK
      BY DEF Init, AttrTypeOK
    <2>2. pc \in [Threads -> Labels \cup LoopLabels]
      BY DEF Init, Labels, LoopLabels
    <2>3. job \in [Callers -> Job]
      BY NoJobTypes DEF Init
    <2>4. text \in [Topics -> Texts]
      BY DEF Init, Texts
    <2> QED BY <1>1, <2>1, <2>2, <2>3, <2>4 DEF Init, TypeOK, Labels, LoopLabels, Crashes
  <1>3. PlaceInv /\ JobInv
    BY <1>1, ThreadFacts DEF PlaceInv, JobInv
  <1>4. ThreadInv
    BY <1>1 DEF ThreadInv
  <1>5. LockInv /\ HoldInv
    BY <1>1, ThreadFacts DEF Init, LockInv, HoldInv
  <1> QED BY <1>2, <1>3, <1>4, <1>5 DEF NodeInv

THEOREM NodeCorrect == Spec => []NodeInv
  BY NodeInit, NodeStep, PTL DEF Spec

(* Whatever the clients ask for and however their calls overlap, the map,  *)
(* the objects and the threads keep the types of iio_node.hpp and          *)
(* iio_attr_topic.hpp.                                                     *)
THEOREM TypeCorrect == Spec => []TypeOK
  <1>1. NodeInv => TypeOK
    BY DEF NodeInv
  <1> QED BY <1>1, NodeCorrect, PTL

(* m_mutex of a topic (iio_attr_topic.hpp) is held exactly by the one that  *)
(* reads and publishes or by the callback that writes, for every number of *)
(* topics, context and client, the unruly ones included.                   *)
THEOREM LockSafety == Spec => []LockInv
  <1>1. NodeInv => LockInv
    BY DEF NodeInv
  <1> QED BY <1>1, NodeCorrect, PTL

=============================================================================
