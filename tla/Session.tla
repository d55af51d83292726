------------------------------ MODULE Session ------------------------------
(***************************************************************************)
(* What the controller promises its users. While nobody's command comes    *)
(* upon the work of another one it serves only when asked to, it says that *)
(* it streams only once it serves, it says anything else only while it     *)
(* does not, and it takes an old "streaming" back before it serves again.  *)
(* Commands that come upon each other suspend the promise until a start or *)
(* a stop is left alone.                                                   *)
(***************************************************************************)
VARIABLES
    asked,    \* what the last start or stop asked for
    serving,  \* a server listens
    told,     \* the state the controller reports
    calm      \* the promise is in force

vars == <<asked, serving, told, calm>>

Init == asked = "off" /\ serving = FALSE /\ told = "idle" /\ calm = TRUE

(* Only a start or a stop can put the promise in force again. *)
Ask(wish) ==
    /\ asked' = wish
    /\ calm' \in BOOLEAN
    /\ UNCHANGED <<serving, told>>

Disturb ==
    /\ calm' = FALSE
    /\ UNCHANGED <<asked, serving, told>>

Begin ==
    /\ ~serving
    /\ calm => asked = "on" /\ told # "streaming"
    /\ serving' = TRUE
    /\ UNCHANGED <<asked, told, calm>>

(* The server is stopped, for good or to be started anew. What was told of *)
(* it stands until the controller tells otherwise.                         *)
End ==
    /\ serving
    /\ serving' = FALSE
    /\ UNCHANGED <<asked, told, calm>>

Tell(s) ==
    /\ calm => /\ serving <=> s = "streaming"
               /\ s = "error" => asked = "on"
    /\ told' = s
    /\ UNCHANGED <<asked, serving, calm>>

Next ==
    \/ \E wish \in {"on", "off"} : Ask(wish)
    \/ Disturb
    \/ Begin
    \/ End
    \/ \E s \in {"idle", "streaming", "error"} : Tell(s)

Spec == Init /\ [][Next]_vars
=============================================================================
