---------------------------- MODULE LibIIODevice ----------------------------
(***************************************************************************)
(* The buffers of one IIO device as libiio expects them to be used: a      *)
(* buffer is created, serves transfers one after the other, and is         *)
(* destroyed when no transfer uses it.  This is the abstract specification *)
(* that IIOBuffer implements.                                              *)
(***************************************************************************)
CONSTANT Handles

VARIABLE handle   \* the state of each libiio buffer of the device

States == {"free", "open", "busy"}

TypeOK == handle \in [Handles -> States]

Init == handle = [h \in Handles |-> "free"]

Idle == \A h \in Handles : handle[h] # "busy"

(* iio_device_create_buffer *)
Create(h) == /\ handle[h] = "free"
             /\ handle' = [handle EXCEPT ![h] = "open"]

(* iio_buffer_refill, iio_buffer_push, and the walk over the samples.      *)
Begin(h) == /\ Idle
            /\ handle[h] = "open"
            /\ handle' = [handle EXCEPT ![h] = "busy"]

End(h) == /\ handle[h] = "busy"
          /\ handle' = [handle EXCEPT ![h] = "open"]

(* iio_buffer_cancel and iio_buffer_destroy *)
Destroy(h) == /\ handle[h] = "open"
              /\ handle' = [handle EXCEPT ![h] = "free"]

Next == \E h \in Handles : Create(h) \/ Begin(h) \/ End(h) \/ Destroy(h)

Spec == Init /\ [][Next]_handle

=============================================================================
