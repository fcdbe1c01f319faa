---------------------------- MODULE MCTimeSlots ----------------------------
(* TimeSlots with the workloads TLC checks it on. *)
EXTENDS TimeSlots, Workloads
=============================================================================
