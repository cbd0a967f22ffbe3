----------------------------- MODULE I2CTransfer -----------------------------
(***************************************************************************)
(* What class I2CMaster (i2c_driver.h) promises its caller, with no        *)
(* registers, interrupts or bus in it:                                     *)
(*                                                                         *)
(*   - finished() is true until a call is made, and false from then until  *)
(*     the transfer is over; nothing moves behind the caller's back;       *)
(*   - a transfer that ends without an error moved every byte it was asked *)
(*     to move, and no more;                                               *)
(*   - a call made too early, or for too much, is answered with an error.  *)
(***************************************************************************)
EXTENDS Naturals

VARIABLES status, outcome, wanted, moved

vars == <<status, outcome, wanted, moved>>

TypeOK ==
    /\ status \in {"finished", "busy"}
    /\ outcome \in {"none", "success", "failure"}
    /\ wanted \in Nat /\ moved \in Nat

Init == status = "finished" /\ outcome = "none" /\ wanted = 0 /\ moved = 0

\* write_async() or read_async() when finished() is true
Start ==
    /\ status = "finished" /\ status' = "busy"
    /\ outcome' = "none" /\ wanted' \in Nat /\ moved' = 0

\* The slave acknowledged or delivered one more byte.
Move ==
    /\ status = "busy" /\ outcome = "none" /\ moved < wanted
    /\ moved' = moved + 1
    /\ UNCHANGED <<status, outcome, wanted>>

\* A call that is turned down spoils the transfer it interrupts. Nothing is
\* promised about how far a failed transfer got, so moved is 0 then.
Refuse ==
    /\ outcome' = "failure" /\ wanted' \in Nat /\ moved' = 0
    /\ UNCHANGED status

End ==
    /\ status = "busy" /\ status' = "finished"
    /\ \/ outcome = "none" /\ moved = wanted
          /\ outcome' = "success" /\ moved' = moved
       \/ outcome' = "failure" /\ moved' = 0
    /\ UNCHANGED wanted

\* begin() or end()
Restart ==
    /\ status = "finished"
    /\ outcome' = "none" /\ moved' = 0
    /\ UNCHANGED <<status, wanted>>

Next == Start \/ Move \/ Refuse \/ End \/ Restart

Safety == Init /\ [][Next]_vars
Spec == Safety /\ WF_vars(End)
==============================================================================
