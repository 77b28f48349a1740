---------------------------- MODULE TokenBucket ----------------------------
(* What rate limiting promises: every client has one token bucket of its own,
   from the beginning and for ever.  A request is admitted when the bucket of
   its client holds a token, which it takes, and refused only when the bucket is
   empty.  No table, no eviction, no objects.                                 *)
EXTENDS Naturals

CONSTANTS Clients, Threads, Rate, Burst, NoClient

VARIABLES bucket,   \* bucket[k]: the tokens of client k
          serving,  \* serving[t]: the client whose request t carries, or NoClient
          outcome   \* outcome[t]: "admitted", "refused" or "none"

bucketVars == <<bucket, serving, outcome>>

Refilled(n) == IF n + Rate > Burst THEN Burst ELSE n + Rate

Init ==
  /\ bucket = [k \in Clients |-> Burst]
  /\ serving = [t \in Threads |-> NoClient]
  /\ outcome = [t \in Threads |-> "none"]

Arrive(t, k) ==
  /\ serving[t] = NoClient
  /\ serving' = [serving EXCEPT ![t] = k]
  /\ UNCHANGED <<bucket, outcome>>

Admit(t) ==
  /\ serving[t] # NoClient /\ outcome[t] = "none"
  /\ bucket[serving[t]] > 0
  /\ bucket' = [bucket EXCEPT ![serving[t]] = @ - 1]
  /\ outcome' = [outcome EXCEPT ![t] = "admitted"]
  /\ UNCHANGED serving

Refuse(t) ==
  /\ serving[t] # NoClient /\ outcome[t] = "none"
  /\ bucket[serving[t]] = 0
  /\ outcome' = [outcome EXCEPT ![t] = "refused"]
  /\ UNCHANGED <<bucket, serving>>

Finish(t) ==
  /\ outcome[t] # "none"
  /\ serving' = [serving EXCEPT ![t] = NoClient]
  /\ outcome' = [outcome EXCEPT ![t] = "none"]
  /\ UNCHANGED bucket

Refill ==
  /\ bucket' = [k \in Clients |-> Refilled(bucket[k])]
  /\ UNCHANGED <<serving, outcome>>

Next ==
  \/ \E t \in Threads : \/ \E k \in Clients : Arrive(t, k)
                        \/ Admit(t) \/ Refuse(t) \/ Finish(t)
  \/ Refill

Spec == Init /\ [][Next]_bucketVars
=============================================================================
