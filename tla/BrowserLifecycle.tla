-------------------------- MODULE BrowserLifecycle --------------------------
(***************************************************************************)
(* A session's browser as the rest of the gateway sees it: it is spawned,  *)
(* comes up or not, and is torn down before it counts as gone, unless its  *)
(* owner is dropped.  Chromium.tla (processes, signals and timers) and     *)
(* Gateway.tla (a browser per request) are both shown to implement it.     *)
(***************************************************************************)
VARIABLE state  \* "none", "starting", "up", "stopping" or "orphaned"

Init == state = "none"

Spawn == state = "none" /\ state' = "starting"

(* launch returns, or gives up and tears down what it has spawned.         *)
Publish == state = "starting" /\ state' = "up"
GiveUp == state = "starting" /\ state' = "stopping"

Stop == state = "up" /\ state' = "stopping"

(* Nobody of the process group is left, or lives for long.                 *)
TearDown == state = "stopping" /\ state' = "none"

Abandon == state \in {"starting", "up", "stopping"} /\ state' = "orphaned"

Next == Spawn \/ Publish \/ GiveUp \/ Stop \/ TearDown \/ Abandon

Spec == Init /\ [][Next]_state

(* A launch and a teardown end; an established browser may run for ever.   *)
Fairness == WF_state(Publish \/ GiveUp) /\ WF_state(TearDown)

FairSpec == Spec /\ Fairness
=============================================================================
