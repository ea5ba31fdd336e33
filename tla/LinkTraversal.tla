---------------------------- MODULE LinkTraversal ----------------------------
(***************************************************************************)
(* What read_item of fathom/src/lang/core/binary/read.rs promises about    *)
(* links, whatever the formats are: a call meets positions while it runs,  *)
(* visits each of them at most once, in any order, and succeeds only when  *)
(* it has visited all it has met and has met none of them twice.           *)
(***************************************************************************)
CONSTANT Positions

VARIABLES
  status,     \* "idle", "running", "ok", "duplicate", "failed" or "panicked"
  met,        \* the positions the call has met
  twice,      \* those of them it has met more than once
  visited     \* the positions it has visited

vars == <<status, met, twice, visited>>

Init == status = "idle" /\ met = {} /\ twice = {} /\ visited = {}

\* A new call, on a context whose last call is over; it may fail at once.
Call ==
  /\ status \in {"idle", "ok", "duplicate", "failed"}
  /\ status' \in {"running", "failed"}
  /\ met' = {} /\ twice' = {} /\ visited' = {}

Meet(p) ==
  /\ status = "running"
  /\ met' = met \cup {p}
  /\ twice' = IF p \in met THEN twice \cup {p} ELSE twice
  /\ UNCHANGED <<status, visited>>

Visit(p) ==
  /\ status = "running" /\ p \in met \ visited
  /\ visited' = visited \cup {p}
  /\ UNCHANGED <<status, met, twice>>

Succeed ==
  /\ status = "running" /\ visited = met /\ twice = {}
  /\ status' = "ok"
  /\ UNCHANGED <<met, twice, visited>>

\* Visiting a second time what was met twice is an error of its own.
Refuse ==
  /\ status = "running" /\ twice \cap visited # {}
  /\ status' = "duplicate"
  /\ UNCHANGED <<met, twice, visited>>

\* Reading may fail, or panic, for reasons that have nothing to do with links.
Fail ==
  /\ status = "running"
  /\ status' \in {"failed", "panicked"}
  /\ UNCHANGED <<met, twice, visited>>

Next ==
  \/ Call \/ Succeed \/ Refuse \/ Fail
  \/ \E p \in Positions : Meet(p) \/ Visit(p)

Spec == Init /\ [][Next]_vars

=============================================================================
