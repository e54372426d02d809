----------------------------- MODULE IdealBucket -----------------------------
(* What limiter.TokenBucketStrategy promises: a bucket of Capacity units    *)
(* that gains Rate units each second and gives Cost units to every request  *)
(* it admits.  A request reaches the bucket some time after it was made and *)
(* is served as of then, so the bucket may get back up to Slack units that  *)
(* time generates in between, and may refuse a request for lack of them.    *)
EXTENDS Integers

CONSTANTS Requests, Capacity, Rate, Cost, Slack

VARIABLES
    level,      \* units in the bucket
    answer      \* what each request was told: "none", "yes" or "no"

bucketVars == <<level, answer>>

Smaller(a, b) == IF a <= b THEN a ELSE b

Init ==
    /\ level = Capacity
    /\ answer = [r \in Requests |-> "none"]

Second ==
    /\ level' = Smaller(Capacity, level + Rate)
    /\ UNCHANGED answer

Admit(r) ==
    /\ answer[r] = "none"
    /\ level >= Cost
    /\ level' \in (level - Cost)..Smaller(Capacity, level - Cost + Slack)
    /\ answer' = [answer EXCEPT ![r] = "yes"]

Refuse(r) ==
    /\ answer[r] = "none"
    /\ level < Cost + Slack
    /\ answer' = [answer EXCEPT ![r] = "no"]
    /\ UNCHANGED level

Next == Second \/ \E r \in Requests : Admit(r) \/ Refuse(r)

Spec == Init /\ [][Next]_bucketVars
=============================================================================
