----------------------------- MODULE ServerStatus -----------------------------
(***************************************************************************)
(* What the status of a Server promises to everyone who reads the row      *)
(* (dashboard, incidents, notifications), with no processes in it:         *)
(*                                                                         *)
(*   - 'unknown' is exactly "no sample has ever arrived", and is never     *)
(*     returned to;                                                        *)
(*   - a sample makes the box healthy or hot, at once with its baseline;   *)
(*   - only a baseline that has outlived a window makes it quiet;          *)
(*   - a box with a baseline may be reassessed as healthy or hot.          *)
(*                                                                         *)
(* ServerIncidents implements it: see StatusPromise there.                 *)
(***************************************************************************)
EXTENDS Integers

CONSTANT Windows
VARIABLES now, status, last_sample_at

Never == 0
Answering == {"healthy", "hot"}

Init == now = 1 /\ status = "unknown" /\ last_sample_at = Never

Tick == now' = now + 1 /\ UNCHANGED <<status, last_sample_at>>

Sample ==
  /\ status' \in Answering
  /\ last_sample_at' \in 1 .. now
  /\ UNCHANGED now

GoQuiet ==
  /\ status \in Answering
  /\ \E w \in Windows : now >= last_sample_at + w
  /\ status' = "quiet"
  /\ UNCHANGED <<now, last_sample_at>>

Reassess ==
  /\ last_sample_at # Never
  /\ status' \in Answering
  /\ UNCHANGED <<now, last_sample_at>>

Next == Tick \/ Sample \/ GoQuiet \/ Reassess

Spec == Init /\ [][Next]_<<now, status, last_sample_at>>
=============================================================================
