---------------------------- MODULE CanonicalLog ----------------------------
(***************************************************************************)
(* What the link promises about the records of one session: the node adds  *)
(* records at the end of a log, and the log the plane keeps is at all      *)
(* times a prefix of it that only grows.                                   *)
(***************************************************************************)
EXTENDS Naturals, Sequences

CONSTANT Record   \* the records a node may write

VARIABLES
  log,            \* the records written, oldest first
  stored          \* how many of them the plane has

Init == log = << >> /\ stored = 0

Write ==
  /\ \E r \in Record : /\ \A k \in DOMAIN log : log[k] # r
                       /\ log' = Append(log, r)
  /\ UNCHANGED stored

Store ==
  /\ stored' \in stored + 1 .. Len(log)
  /\ UNCHANGED log

Next == Write \/ Store

Spec == Init /\ [][Next]_<<log, stored>>
=============================================================================
