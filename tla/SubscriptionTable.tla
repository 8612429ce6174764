------------------------- MODULE SubscriptionTable -------------------------
(***************************************************************************)
(* What the router promises, without a tree: a table from the live         *)
(* subscription keys to their filters, and for each published topic the    *)
(* keys whose filter matches it.  Router is shown to implement this.       *)
(*                                                                         *)
(* The promise is made to clients that keep the rule of pubsub.proto that  *)
(* a subscription_id is unique per subscription within a connection, so a  *)
(* live key is not subscribed again.                                       *)
(***************************************************************************)
EXTENDS TopicMatch

CONSTANTS
    SubscriptionKey,  \* the (client_id, subscription_id) pairs
    Filters,          \* the filters that can be subscribed
    Topics            \* the topics that can be published

VARIABLES
    table,    \* the filter of each live subscription
    answer    \* what the last call returned

vars == <<table, answer>>

\* The return value of a call that returns nothing.
Nothing == [topic |-> <<>>, keys |-> {}]

Init ==
    /\ table = [k \in {} |-> <<>>]
    /\ answer = Nothing

Subscribe(k, f) ==
    /\ k \notin DOMAIN table
    /\ table' = [j \in DOMAIN table \cup {k} |-> IF j = k THEN f ELSE table[j]]
    /\ answer' = Nothing

\* Cancelling a key that is not live has no effect.
Unsubscribe(k) ==
    /\ table' = [j \in DOMAIN table \ {k} |-> table[j]]
    /\ answer' = Nothing

Publish(t) ==
    /\ UNCHANGED table
    /\ answer' = [topic |-> t,
                  keys |-> {k \in DOMAIN table : Matches(table[k], t)}]

Next ==
    \/ \E t \in Topics : Publish(t)
    \/ \E k \in SubscriptionKey : Unsubscribe(k)
    \/ \E k \in SubscriptionKey, f \in Filters : Subscribe(k, f)

Spec == Init /\ [][Next]_vars

=============================================================================
