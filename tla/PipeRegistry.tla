---------------------------- MODULE PipeRegistry ----------------------------
(***************************************************************************)
(* What the rest of the server sees of tunnels: a proxy opens under a key  *)
(* (a server port and a protocol), taking it over from whoever had it, and *)
(* closes, clearing the key whoever has it; a crash of the server closes   *)
(* them all.  Frontend's Connect and Disconnect are the first two; Tunnel  *)
(* is how these come about.                                                *)
(***************************************************************************)
CONSTANTS Proxies, Keys, None

VARIABLES
    at,         \* proxy -> the key it is open under, or None
    pipes       \* key -> the proxy found there, or None

pipeVars == <<at, pipes>>

Init ==
    /\ at = [p \in Proxies |-> None]
    /\ pipes = [k \in Keys |-> None]

Open(p, k) ==
    /\ at[p] = None
    /\ at' = [at EXCEPT ![p] = k]
    /\ pipes' = [pipes EXCEPT ![k] = p]

Close(p) ==
    /\ at[p] # None
    /\ at' = [at EXCEPT ![p] = None]
    /\ pipes' = [pipes EXCEPT ![at[p]] = None]

CloseAll ==
    /\ at' = [p \in Proxies |-> None]
    /\ pipes' = [k \in Keys |-> None]

Next == CloseAll \/ \E p \in Proxies : Close(p) \/ \E k \in Keys : Open(p, k)

Spec == Init /\ [][Next]_pipeVars
=============================================================================
