---------------------------- MODULE MCSubscription ----------------------------
(* Instances of Subscription for TLC: short periods, three attempts. *)
EXTENDS Subscription

Periods == [monthly |-> 3, yearly |-> 4]
Retries == <<1, 2>>
================================================================================
