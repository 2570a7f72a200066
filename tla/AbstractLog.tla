----------------------------- MODULE AbstractLog -----------------------------
(***************************************************************************)
(* What internal/log promises its single writer: an array of records over  *)
(* an interval of offsets that grows by one record at its end and shrinks  *)
(* at its beginning.  An offset is given out once and never skipped, and   *)
(* what is stored under it never changes.  Reading, flushing and rotating  *)
(* a segment do not show.                                                  *)
(***************************************************************************)
EXTENDS Naturals, Functions

CONSTANTS Values, InitialOffset

VARIABLES
  log,   \* offset -> the value stored there, on the readable offsets
  next   \* the offset the next record gets

Init == log = [o \in {} |-> 0] /\ next = InitialOffset

AppendValue(v) ==
  /\ log' = [o \in DOMAIN log \cup {next} |-> IF o = next THEN v ELSE log[o]]
  /\ next' = next + 1

\* At least the last record stays.
DropBelow(o) ==
  /\ o \in DOMAIN log
  /\ log' = Restrict(log, {x \in DOMAIN log : x >= o})
  /\ UNCHANGED next

Next ==
  \/ \E v \in Values : AppendValue(v)
  \/ \E o \in DOMAIN log : DropBelow(o)

Spec == Init /\ [][Next]_<<log, next>>

=============================================================================
