----------------------------- MODULE HttpService -----------------------------
(***************************************************************************)
(* What `wado serve` promises a client, whatever its guest does: a request *)
(* the server took is replied to once, or its connection ends first, and a *)
(* server told to stop goes down, with no request left pending.            *)
(***************************************************************************)
CONSTANT Requests

VARIABLES phase,    \* of each request: absent, pending, replied or parted
          server    \* up, closing or down

vars == <<phase, server>>

TypeOK ==
    /\ phase \in [Requests -> {"absent", "pending", "replied", "parted"}]
    /\ server \in {"up", "closing", "down"}

Init == phase = [r \in Requests |-> "absent"] /\ server = "up"

Move(r, from, to) == phase[r] = from /\ phase' = [phase EXCEPT ![r] = to]

Arrive(r) == server # "down" /\ Move(r, "absent", "pending") /\ UNCHANGED server

Reply(r) == server # "down" /\ Move(r, "pending", "replied") /\ UNCHANGED server

Part(r) == Move(r, "pending", "parted") /\ UNCHANGED server

Shut == server = "up" /\ server' = "closing" /\ UNCHANGED phase

(* Going down ends every connection, and with it what was pending there.    *)
Down ==
    /\ server = "closing" /\ server' = "down"
    /\ phase' = [r \in Requests |-> IF phase[r] = "pending" THEN "parted" ELSE phase[r]]

Next == Shut \/ Down \/ \E r \in Requests : Arrive(r) \/ Reply(r) \/ Part(r)

Spec ==
    /\ Init /\ [][Next]_vars /\ WF_vars(Down)
    /\ \A r \in Requests : WF_vars(Reply(r) \/ Part(r))
=============================================================================
