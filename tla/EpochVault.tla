----------------------------- MODULE EpochVault -----------------------------
(***************************************************************************)
(* What an agent's vault promises to whoever holds its current key: every  *)
(* stored secret opens with that one key, a rotation moves all of them to  *)
(* a key never used before in one step, and a key given up never returns.  *)
(***************************************************************************)
CONSTANTS Deks, Keys, NoKey

VARIABLES
    key,     \* the key in force, or NoKey before the first one
    spent,   \* keys that can never be in force again
    opens    \* opens[d] is the key that opens d, NoKey if there is no d

vars == <<key, spent, opens>>

Init == key = NoKey /\ spent = {} /\ opens = [d \in Deks |-> NoKey]

Begin(k) == key = NoKey /\ key' = k /\ UNCHANGED <<spent, opens>>

Rotate(k) ==
    /\ key # NoKey /\ k \notin spent \cup {key}
    /\ key' = k
    /\ spent' = spent \cup {key}
    /\ opens' = [d \in Deks |-> IF opens[d] = NoKey THEN NoKey ELSE k]

Discard(k) ==
    /\ k \notin spent \cup {key}
    /\ spent' = spent \cup {k}
    /\ UNCHANGED <<key, opens>>

Seal(d) ==
    /\ key # NoKey /\ opens[d] = NoKey
    /\ opens' = [opens EXCEPT ![d] = key]
    /\ UNCHANGED <<key, spent>>

Drop(d) == opens' = [opens EXCEPT ![d] = NoKey] /\ UNCHANGED <<key, spent>>

Next ==
    \/ \E k \in Keys : Begin(k) \/ Rotate(k) \/ Discard(k)
    \/ \E d \in Deks : Seal(d) \/ Drop(d)

Spec == Init /\ [][Next]_vars
=============================================================================
