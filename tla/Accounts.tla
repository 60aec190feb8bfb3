------------------------------- MODULE Accounts -------------------------------
(***************************************************************************)
(* What the user store promises, without buckets, indexes or transactions: *)
(* an account is opened with a seed phrase and a token nobody has seen,    *)
(* under a name no open account has.  Its phrase recovers it until it is   *)
(* closed, for good; of its tokens only the last one opens it, until it is *)
(* renewed, expired or closed.                                             *)
(***************************************************************************)
CONSTANTS Usernames, Tokens, Seeds, None

VARIABLES
    holder,     \* seed -> the name its account is open under, or None
    opens,      \* token -> the seed of the account it opens, or None
    spent       \* the tokens and seeds that were ever given out

accountVars == <<holder, opens, spent>>

Init ==
    /\ holder = [s \in Seeds |-> None]
    /\ opens = [k \in Tokens |-> None]
    /\ spent = {}

\* The tokens of the accounts S open nothing any more.
Revoked(S) == [k \in Tokens |-> IF opens[k] \in S THEN None ELSE opens[k]]

Open(s, n, k) ==
    /\ {s, k} \cap spent = {}
    /\ \A r \in Seeds : holder[r] # n
    /\ holder' = [holder EXCEPT ![s] = n]
    /\ opens' = [opens EXCEPT ![k] = s]
    /\ spent' = spent \cup {s, k}

Renew(s, k) ==
    /\ holder[s] # None
    /\ k \notin spent
    /\ opens' = [Revoked({s}) EXCEPT ![k] = s]
    /\ spent' = spent \cup {k}
    /\ UNCHANGED holder

Expire(S) ==
    /\ opens' = Revoked(S)
    /\ UNCHANGED <<holder, spent>>

Close(s) ==
    /\ holder[s] # None
    /\ holder' = [holder EXCEPT ![s] = None]
    /\ opens' = Revoked({s})
    /\ UNCHANGED spent

Next ==
    \/ \E s \in Seeds, k \in Tokens :
        Renew(s, k) \/ \E n \in Usernames : Open(s, n, k)
    \/ \E s \in Seeds : Close(s)
    \/ \E S \in SUBSET Seeds : Expire(S)

Spec == Init /\ [][Next]_accountVars
=============================================================================
