----------------------------- MODULE MCSlotList -----------------------------
(* SlotList with the workloads TLC checks it on. *)
EXTENDS SlotList, Workloads
=============================================================================
