--------------------------- MODULE AttemptLedger ---------------------------
(***************************************************************************)
(* What the attempt pipeline promises, without saying how: rows are made   *)
(* only from accepted messages, at most one per message and session, and   *)
(* the acknowledged place of a partition is always one that has its row.   *)
(* It promises neither that every message gets a row nor that the places   *)
(* below the acknowledged one have theirs.                                 *)
(***************************************************************************)
EXTENDS Naturals

CONSTANTS Partitions, MaxLog

VARIABLES accepted, rows, acked, sessions

Place == [part : Partitions, off : 1 .. MaxLog]

vars == <<accepted, rows, acked, sessions>>

Init ==
  /\ accepted = [p \in Partitions |-> 0]
  /\ rows = [m \in Place |-> 0]
  /\ acked = [p \in Partitions |-> 0]
  /\ sessions = 1

Accept(p) ==
  /\ accepted' = [accepted EXCEPT ![p] = @ + 1]
  /\ UNCHANGED <<rows, acked, sessions>>

Record(m) ==
  /\ m.off <= accepted[m.part]
  /\ rows[m] < sessions
  /\ rows' = [rows EXCEPT ![m] = @ + 1]
  /\ UNCHANGED <<accepted, acked, sessions>>

Acknowledge(m) ==
  /\ rows[m] > 0
  /\ acked' = [acked EXCEPT ![m.part] = m.off]
  /\ UNCHANGED <<accepted, rows, sessions>>

NewSession ==
  /\ sessions' = sessions + 1
  /\ UNCHANGED <<accepted, rows, acked>>

Next ==
  \/ \E p \in Partitions : Accept(p)
  \/ \E m \in Place : Record(m) \/ Acknowledge(m)
  \/ NewSession

Spec == Init /\ [][Next]_vars
=============================================================================
