----------------------------- MODULE MCAttrTopic -----------------------------
(***************************************************************************)
(* Instances of AttrTopic for TLC.  "freq" is a channel attribute that     *)
(* works; "gain" is a device attribute whose transfers may fail and that   *)
(* is written through the debug attribute beside it.                       *)
(***************************************************************************)
EXTENDS AttrTopic, TLC

Topic(p, n, t) == [path |-> p, name |-> n, type |-> t]
Put(p, v)      == [path |-> p, value |-> v]
Msg(t, v)      == [type |-> t, text |-> v]

MCKind == ("freq" :> "channel") @@ ("gain" :> "device") @@ ("none" :> "no_context")
          @@ ("missing" :> "not_found") @@ ("bad" :> "invalid")
MCPaths    == DOMAIN MCKind
MCReadable == {<<"freq", "plain">>, <<"gain", "debug">>}
MCWritable == MCReadable

(* A number behind an INT topic that never fails and a STRING topic; what  *)
(* has a topic is not written by AttrWriteString.                          *)
MCEnable   == {Topic("freq", "n1", "INT"), Topic("gain", "n2", "STRING"),
               Topic("missing", "n1", "INT")}
MCPut      == {Put("bad", "2")}
MCMessages == {Msg("INT", "1"), Msg("INT", "2"), Msg("STRING", "2")}

(* One name, and an attribute beside it for AttrWriteString.               *)
MCProgressKind   == ("freq" :> "channel") @@ ("gain" :> "device") @@ ("bad" :> "invalid")
MCProgressPaths  == DOMAIN MCProgressKind
MCProgressEnable == {Topic("gain", "n1", "STRING"), Topic("bad", "n1", "INT")}
MCProgressPut    == {Put("freq", "1"), Put("freq", "2"), Put("bad", "1")}

(* The device attribute has both registers, one of them read-only.         *)
MCTwoReadable == MCReadable \cup {<<"gain", "plain">>}

(* Beside that a context attribute, an INT topic that a failed transfer     *)
(* ends, and a topic of another type.                                      *)
MCAnyKind     == ("uri" :> "context") @@ MCKind
MCAnyPaths    == DOMAIN MCAnyKind
MCAnyReadable == MCTwoReadable \cup {<<"uri", "plain">>}
MCAnyEnable   == {Topic("gain", "n1", "INT"), Topic("freq", "n2", "DOUBLE")}
MCAnyPut      == {Put("gain", "1"), Put("uri", "1")}
MCAnyMessages == {Msg("INT", "1"), Msg("DOUBLE", "1")}

(* Reads and writes beside the callback; any two at once, AttrReadString   *)
(* aside, which changes nothing; a topic disabled under its callback.      *)
MCAny     == {{t, u} : t, u \in Callers \ {"AttrReadString"}}
MCAccess  == {{t, u} : t, u \in {"AttrReadString", "AttrWriteString", Update}}
MCDisable == {{"AttrDisableTopic", Update}}

(* The hardware holds a 1 as a 1 or as a 2, where a 2 is one of its values. *)
MCRounds == [v \in Values |-> IF v = "1" THEN {"1", "2"} \cap Values ELSE {v}]

(* What the clients of MCAccess keep to.                                   *)
ASSUME OrderlyClients ==
    Overlap = MCAccess => MapUsersAlone /\ NumbersStay /\ NoOtherWriter /\ OneRegister

(* Answers go to the client and decide nothing.                            *)
NodeView == <<attr, map, objects, pc, job, text, rosOk, crash>>

TopicSymmetry == Permutations(Topics)

=============================================================================
