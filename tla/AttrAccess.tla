----------------------------- MODULE AttrAccess -----------------------------
(***************************************************************************)
(* IIONode::rwAttrPath (iio_node.cpp): what a path leads to and what one   *)
(* write or one read through it can do to the attributes of the context.   *)
(* A device attribute falls back to the debug attribute of the same name.  *)
(***************************************************************************)
CONSTANTS
    Paths,     \* the attribute paths clients name
    Kind,      \* what each path leads to
    Readable,  \* the registers <<path, "plain" or "debug">> the hardware reads
    Writable,  \* and those it writes
    Faulty,    \* the paths behind which a transfer may fail all the same
    Values,    \* what attributes hold, as text
    Rounds     \* what the hardware may make of each value written to it

Kinds     == {"context", "no_context", "device", "channel", "not_found", "invalid"}
Registers == Readable \cup Writable
Texts     == Values \cup {"", "error", "invalid_path"}
Result    == [ok : BOOLEAN, text : Texts]

ASSUME AttrAssumption ==
    /\ Kind \in [Paths -> Kinds]
    /\ Registers \subseteq Paths \X {"plain", "debug"}
    /\ \A p \in Paths : Kind[p] = "context" => <<p, "plain">> \in Readable
    /\ Faulty \subseteq Paths
    /\ Rounds \in [Values -> (SUBSET Values) \ {{}}]

VARIABLE attr   \* what each register holds

AttrTypeOK == attr \in [Registers -> Values]

------------------------------------------------------------------------------
(* The registers an access to p may end at: the debug one only for a device *)
(* attribute whose plain one failed.                                        *)
Lands(p, allowed) ==
    {r \in {<<p, "plain">>, <<p, "debug">>} \cap allowed :
        r[2] = "debug" => /\ Kind[p] = "device"
                          /\ <<p, "plain">> \notin allowed \/ p \in Faulty}

Fails(p, allowed) == p \in Faulty \/ Lands(p, allowed) = {}

(* Paths that reach the hardware.  The others are decided at once.         *)
Reaches(p) == Kind[p] \in {"device", "channel"}

(* A context attribute is read from the context and never written; what is *)
(* not found leaves the caller's empty result.                             *)
Unreached(p, write) ==
    CASE Kind[p] = "context" -> [ok |-> ~write, text |-> attr[<<p, "plain">>]]
      [] Kind[p] = "invalid" -> [ok |-> FALSE, text |-> "invalid_path"]
      [] OTHER               -> [ok |-> FALSE, text |-> ""]

(* strerror of the last attempt.                                           *)
Failure == [ok |-> FALSE, text |-> "error"]

(* The register takes one of the values the hardware can hold for it.      *)
WriteLands(p, value) ==
    \E r \in Lands(p, Writable), v \in Rounds[value] : attr' = [attr EXCEPT ![r] = v]

ReadResults(p) ==
    {[ok |-> TRUE, text |-> attr[r]] : r \in Lands(p, Readable)}
        \cup {f \in {Failure} : Fails(p, Readable)}

=============================================================================
