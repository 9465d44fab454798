------------------------------ MODULE AppendLog -------------------------------
(***************************************************************************)
(* What a pile chunk promises its user (the chain store): an append-only    *)
(* sequence of records, one per height.  An append is begun and then       *)
(* acknowledged; a crash of the process ends the session and keeps every   *)
(* acknowledged record, and the record being appended is either kept or    *)
(* lost as a whole.  A reopened chunk holds exactly such a prefix.          *)
(***************************************************************************)
EXTENDS Naturals, Sequences

CONSTANTS
  Vals,       \* record contents
  NoVal,      \* no record
  MaxLen      \* records a chunk can hold (ChunkUnit)

VARIABLES
  log,        \* the records of heights 1..Len(log)
  pending,    \* record of the append in progress, NoVal if none
  up          \* the chunk is open

vars == <<log, pending, up>>

Init == log = <<>> /\ pending = NoVal /\ up = TRUE

Begin(v) ==
  /\ up /\ pending = NoVal /\ Len(log) < MaxLen
  /\ pending' = v
  /\ UNCHANGED <<log, up>>

Commit ==
  /\ up /\ pending # NoVal
  /\ log' = Append(log, pending)
  /\ pending' = NoVal
  /\ UNCHANGED up

\* A crash or a close: an unacknowledged record survives whole or not at all.
Stop ==
  /\ log' \in {log} \cup (IF pending # NoVal THEN {Append(log, pending)} ELSE {})
  /\ pending' = NoVal
  /\ up' = FALSE

Reopen ==
  /\ ~up
  /\ up' = TRUE
  /\ UNCHANGED <<log, pending>>

Next == (\E v \in Vals : Begin(v)) \/ Commit \/ Stop \/ Reopen

Spec == Init /\ [][Next]_vars

=============================================================================
