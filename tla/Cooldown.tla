------------------------------ MODULE Cooldown ------------------------------
(***************************************************************************)
(* internal/notify/cooldown.go: the rate limiter shared by all alerts.     *)
(* A map lastSent gives each key the age, in ticks, of the last alert that *)
(* was let through, or Never.  Ages stop counting at the duration, where   *)
(* Allow no longer tells them apart.                                       *)
(***************************************************************************)
EXTENDS Integers

Never == -1

Ages(duration) == {Never} \cup 0..duration

\* Variant: a key never becomes free again.
AllowOnce(lastSent, key, duration) == lastSent[key] = Never

\* Allow: the first alert of a key and any alert after the full duration.
Allow(lastSent, key, duration) ==
  lastSent[key] = Never \/ lastSent[key] >= duration

\* The map after Allow(key): the time is taken only when the alert is let through.
AfterAllow(lastSent, key, duration) ==
  IF Allow(lastSent, key, duration) THEN [lastSent EXCEPT ![key] = 0] ELSE lastSent

Older(age, duration) == IF age = Never \/ age >= duration THEN age ELSE age + 1

\* One tick later.
Aged(lastSent, duration) ==
  [key \in DOMAIN lastSent |-> Older(lastSent[key], duration)]

\* The code never removes an entry.  A key whose duration is over is as free as
\* one that was never used, and a model that asks no more may forget it.
Forgotten(lastSent, duration) ==
  [key \in DOMAIN lastSent |-> IF Allow(lastSent, key, duration) THEN Never ELSE lastSent[key]]
=============================================================================
