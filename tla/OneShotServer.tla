----------------------------- MODULE OneShotServer -----------------------------
(***************************************************************************)
(* What the life of a test server looks like from outside: it is started   *)
(* at most once, serves until the one Stop that finds it running, and its  *)
(* resources are released one by one, never while its main loop still      *)
(* works and never while it serves.  There is no way back to serving.  A   *)
(* server that cannot be started has failed for good: it gives up one of   *)
(* its resources by itself, the others nobody releases.                    *)
(***************************************************************************)
CONSTANTS
  Resources   \* what the server opened and has to close

VARIABLES
  phase,     \* where the server is in its life
  work,      \* the main loop: has never, does, or did work
  open       \* the resources that are not closed

vars == <<phase, work, open>>

TypeOK ==
  /\ phase \in {"created", "starting", "failed", "serving", "draining",
                "abandoned", "stopped"}
  /\ work \in {"never", "working", "over"}
  /\ open \subseteq Resources

Init ==
  /\ phase = "created"
  /\ work = "never"
  /\ open = Resources

\* The node starts; a second start is refused.
Start ==
  /\ phase = "created"
  /\ phase' = "starting"
  /\ UNCHANGED <<work, open>>

\* The start itself fails, and what could not start closes itself.
FailStart ==
  /\ phase = "created"
  /\ phase' = "failed"
  /\ \E r \in open : open' = open \ {r}
  /\ UNCHANGED work

\* The initial block cannot be generated: the server will never serve.
Fail ==
  /\ phase = "starting"
  /\ work = "never"
  /\ phase' = "failed"
  /\ UNCHANGED <<work, open>>

\* The main loop begins before the server reports that it is running.
Work ==
  /\ phase = "starting"
  /\ work = "never"
  /\ work' = "working"
  /\ UNCHANGED <<phase, open>>

Serve ==
  /\ phase = "starting"
  /\ work # "never"
  /\ phase' = "serving"
  /\ UNCHANGED <<work, open>>

\* The loop ends by itself, or because it is told to.
Rest ==
  /\ work = "working"
  /\ work' = "over"
  /\ UNCHANGED <<phase, open>>

BeginStop ==
  /\ phase = "serving"
  /\ phase' = "draining"
  /\ UNCHANGED <<work, open>>

Release ==
  /\ phase = "draining"
  /\ work = "over"
  /\ \E r \in open : open' = open \ {r}
  /\ UNCHANGED <<phase, work>>

\* The caller of Stop would not wait for the loop any longer.
Abandon ==
  /\ phase = "draining"
  /\ open = Resources
  /\ phase' = "abandoned"
  /\ UNCHANGED <<work, open>>

EndStop ==
  /\ phase = "draining"
  /\ open = {}
  /\ phase' = "stopped"
  /\ UNCHANGED <<work, open>>

Next ==
  \/ Start \/ FailStart \/ Fail \/ Work \/ Serve \/ Rest
  \/ BeginStop \/ Release \/ Abandon \/ EndStop

Spec == Init /\ [][Next]_vars

================================================================================
