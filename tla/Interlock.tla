----------------------------- MODULE Interlock -----------------------------
(***************************************************************************)
(* What the power stage promises, without interrupts, registers or a main  *)
(* loop: bridges are energized one at a time and never under a fault that  *)
(* concerns them; latching a fault and removing the drive it forbids are   *)
(* one event; the only memory that is ever cleared is an isolated power    *)
(* alert, with nothing driving.                                            *)
(***************************************************************************)
CONSTANTS Drivers, PowerAlert

VARIABLES driving, latched

Forbidden(faults) ==
  IF PowerAlert \in faults THEN Drivers ELSE faults \cap Drivers

Init ==
  /\ driving = {}
  /\ latched \in {{}, {PowerAlert}}

Energize(d) ==
  /\ d \notin Forbidden(latched)
  /\ driving' = driving \cup {d}
  /\ UNCHANGED latched

Stop ==
  /\ driving' \in SUBSET driving
  /\ UNCHANGED latched

Latch ==
  \E faults \in SUBSET (Drivers \cup {PowerAlert}) :
    /\ latched' = latched \cup faults
    /\ driving' = driving \ Forbidden(faults)

ClearAlert ==
  /\ latched = {PowerAlert}
  /\ driving = {}
  /\ latched' = {}
  /\ UNCHANGED driving

Next ==
  \/ \E d \in Drivers : Energize(d)
  \/ Stop
  \/ Latch
  \/ ClearAlert

Spec == Init /\ [][Next]_<<driving, latched>>
=============================================================================
