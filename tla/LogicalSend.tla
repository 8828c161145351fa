------------------------------ MODULE LogicalSend ------------------------------
(***************************************************************************)
(* What the outbound email path promises of one logical send, whatever     *)
(* happens between the mailbox API and the provider: the provider takes at *)
(* most one copy, a send closed as sent was taken, a send closed as unsent *)
(* was not taken and never will be, and when the cell cannot know it says  *)
(* so (docs/agent-email.md, "Outbound worker and Cloudflare adapter").     *)
(***************************************************************************)
EXTENDS Naturals

CONSTANT Sends

VARIABLES
    copies,   \* copies of the send the provider took
    verdict   \* what the cell says of the send

sendVars == <<copies, verdict>>

Verdicts == {"absent", "open", "sent", "unsent", "unknown"}

Init == /\ copies = [s \in Sends |-> 0]
        /\ verdict = [s \in Sends |-> "absent"]

Becomes(s, n, v) == copies'[s] = n /\ verdict'[s] = v

Accept(s) == verdict[s] = "absent" /\ Becomes(s, copies[s], "open")

\* A copy may still be taken after the cell stopped waiting for news of it.
Take(s) == /\ verdict[s] \in {"open", "unknown"}
           /\ copies[s] = 0
           /\ Becomes(s, 1, verdict[s])

Close(s, v) == /\ verdict[s] = "open"
               /\ v = "sent" => copies[s] = 1
               /\ v = "unsent" => copies[s] = 0
               /\ Becomes(s, copies[s], v)

Rest(s) == Becomes(s, copies[s], verdict[s])

\* One statement of the cell may close several sends; each send goes its own way.
Next == /\ copies' \in [Sends -> {0, 1}]
        /\ verdict' \in [Sends -> Verdicts]
        /\ \A s \in Sends : \/ Accept(s) \/ Take(s) \/ Rest(s)
                            \/ \E v \in {"sent", "unsent", "unknown"} : Close(s, v)

Spec == Init /\ [][Next]_sendVars
=============================================================================
