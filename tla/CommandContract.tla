-------------------------- MODULE CommandContract --------------------------
(***************************************************************************)
(* What the inverter task promises its clients about one command after the *)
(* other: a command is either refused, or taken, performed at most once    *)
(* and answered with a result that does not contradict what happened to    *)
(* the inverter.  Only a command whose result left its fate open may still *)
(* take effect after that result.                                          *)
(***************************************************************************)
EXTENDS Naturals, Sequences

CONSTANTS Kind,        \* kinds of commands
          Refused,     \* outcomes that deny any effect
          Performed,   \* outcomes that assert an effect
          Open,        \* outcomes that assert nothing about the write
          Unsettled    \* those of them that a command may end with while its frame is
                       \* still under way

VARIABLES busy,        \* a command is in hand
          log,         \* results published, one per command
          applied      \* numbers of the commands whose write was performed

vars == <<busy, log, applied>>

Serial == Len(log) + 1

(* A read never writes; a refusal of a semantic operation by the bus       *)
(* ("communication_error") means the write did not reach the inverter.     *)
Denies(kind, outcome) ==
  outcome \in Refused \/ kind = "read_registers"
  \/ (kind = "semantic" /\ outcome = "communication_error")

Init == busy = FALSE /\ log = <<>> /\ applied = {}

Refuse ==
  /\ ~busy
  /\ \E k \in Kind, o \in Refused : log' = Append(log, [kind |-> k, outcome |-> o])
  /\ UNCHANGED <<busy, applied>>

Take == ~busy /\ busy' = TRUE /\ UNCHANGED <<log, applied>>

Perform ==
  /\ busy /\ Serial \notin applied
  /\ applied' = applied \cup {Serial}
  /\ UNCHANGED <<busy, log>>

PerformLate ==
  /\ \E n \in DOMAIN log \ applied :
       /\ log[n].outcome \in Unsettled /\ ~Denies(log[n].kind, log[n].outcome)
       /\ applied' = applied \cup {n}
  /\ UNCHANGED <<busy, log>>

Answer ==
  /\ busy
  /\ \E k \in Kind, o \in Refused \cup Performed \cup Open :
       /\ Denies(k, o) => Serial \notin applied
       /\ o \in Performed => Serial \in applied
       /\ log' = Append(log, [kind |-> k, outcome |-> o])
  /\ busy' = FALSE
  /\ UNCHANGED applied

Next == Refuse \/ Take \/ Perform \/ PerformLate \/ Answer

Spec == Init /\ [][Next]_vars
=============================================================================
