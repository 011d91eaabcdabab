--------------------------- MODULE DurableConfig ---------------------------
(***************************************************************************)
(* What the configuration store promises its callers: a save or a factory  *)
(* reset that returned is what every later boot loads; one that failed or  *)
(* was cut short by a power loss took effect completely or not at all.     *)
(***************************************************************************)
CONSTANTS Config, Defaults

VARIABLES
  up,       \* the application runs
  cur,      \* the configuration in RAM
  acked,    \* what the last completed save, reset or boot established
  tried     \* what operations begun since then may have left behind

durable == <<up, cur, acked, tried>>

Init ==
  /\ up = FALSE
  /\ cur = Defaults
  /\ acked = Defaults
  /\ tried = {}

\* A boot settles the question for every operation that did not complete.
Boot ==
  /\ ~up /\ up'
  /\ cur' \in {acked} \cup tried
  /\ acked' = cur'
  /\ tried' = {}

Begin(c) ==
  /\ up
  /\ tried' = tried \cup {c}
  /\ UNCHANGED <<up, cur, acked>>

Complete(c) ==
  /\ up
  /\ c \in tried
  /\ cur' = c
  /\ acked' = c
  /\ tried' = {}
  /\ UNCHANGED up

PowerLoss ==
  /\ up /\ ~up'
  /\ UNCHANGED <<cur, acked, tried>>

Next ==
  \/ Boot
  \/ \E c \in Config : Begin(c) \/ Complete(c)
  \/ PowerLoss

Spec == Init /\ [][Next]_durable

=============================================================================
