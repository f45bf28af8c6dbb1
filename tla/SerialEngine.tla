---------------------------- MODULE SerialEngine ----------------------------
(***************************************************************************)
(* What the scheduler promises of an engine, without locks, phases or      *)
(* shutdown (src/src/decis/scheduler.py, the module docstring): a client   *)
(* asks, and is either refused without the engine having been entered, or  *)
(* enters it alone and comes out with the verdict of that one pass.        *)
(***************************************************************************)
CONSTANT Clients

VARIABLE stage    \* where each client's question stands

Stages == {"idle", "pending", "running", "served", "refused"}

SerialTypeOK == stage \in [Clients -> Stages]

SerialInit == stage = [c \in Clients |-> "idle"]

MoveTo(c, s) == stage' = [stage EXCEPT ![c] = s]

\* A client whose last question is settled may ask the next one.
Ask(c) == stage[c] \in {"idle", "served", "refused"} /\ MoveTo(c, "pending")

\* A refusal never follows work: only a question that has not started is refused.
Refuse(c) == stage[c] = "pending" /\ MoveTo(c, "refused")

\* The engine is not re-entrant: it is entered only when nobody is inside.
Enter(c) ==
    /\ stage[c] = "pending"
    /\ \A d \in Clients : stage[d] # "running"
    /\ MoveTo(c, "running")

Leave(c) == stage[c] = "running" /\ MoveTo(c, "served")

SerialNext == \E c \in Clients : Ask(c) \/ Refuse(c) \/ Enter(c) \/ Leave(c)

SerialSpec == SerialInit /\ [][SerialNext]_stage
=============================================================================
