------------------------------ MODULE AlertRelay ------------------------------
(***************************************************************************)
(* The relay of alerts (apps/alert_relay/main.py): an alert goes to the    *)
(* target of its channel and to its shadow, each with retries.  A pure     *)
(* function of what the addresses answer to one post after the other.      *)
(***************************************************************************)
EXTENDS Naturals, FiniteSets, SequencesExt, FiniteSetsExt

CONSTANT NoUrl  \* no address is set

\* What a post may end with: a status of 400 and over is retried or not as it is
\* configured; an error that is neither a timeout nor a refused connection is not.
Retried == {"timeout", "refused", "status retried"}
Outcomes == {"ok", "status", "broken"} \cup Retried

\* Mutant: the retries are all the posts there are.
RetriesOnly(retries) == retries

\* _forward, _retry_count
Attempts(retries) == retries + 1

\* The number of the post after which no other follows.
LastPost(outcomes, retries) ==
  Min({Attempts(retries)} \cup {i \in 1 .. Attempts(retries) : outcomes[i] \notin Retried})

\* _forward: how many posts, and whether the last was taken.
Forward(outcomes, retries) ==
  LET n == LastPost(outcomes, retries) IN
  [posts |-> n, taken |-> n > 0 /\ outcomes[n] = "ok"]

\* webhook: the addresses, the shadow's only if it is another one.
Addresses(target, shadow) ==
  (IF target # NoUrl THEN <<target>> ELSE <<>>)
    \o (IF shadow \notin {NoUrl, target} THEN <<shadow>> ELSE <<>>)

\* webhook: every address is tried; the answer tells of errors if it is to.
\* `outcomes` has the posts' outcomes of each address.
Relay(target, shadow, outcomes, retries, failOnError) ==
  LET urls == Addresses(target, shadow)
      results == [i \in DOMAIN urls |-> Forward(outcomes[urls[i]], retries)]
      errors == {i \in DOMAIN urls : ~results[i].taken} IN
  [urls |-> urls, results |-> results,
   status |-> IF errors # {} /\ failOnError THEN 502 ELSE 200]

-----------------------------------------------------------------------------
(* Property. *)

\* An address that would take the alert after at most `retries` failures of the
\* kind that passes gets it, once, whatever the other does; none is posted to
\* after it took the alert or more than retries + 1 times; and when errors are
\* told, the answer is well exactly when every address took the alert.
Delivered(target, shadow, outcomes, retries, failOnError) ==
  LET r == Relay(target, shadow, outcomes, retries, failOnError) IN
  /\ {target, shadow} \ {NoUrl} = ToSet(r.urls) /\ IsInjective(r.urls)
  /\ \A i \in DOMAIN r.urls :
       LET seen == outcomes[r.urls[i]] IN
       /\ r.results[i].posts <= retries + 1
       /\ r.results[i].taken <=>
            \E n \in 1 .. retries + 1 : seen[n] = "ok" /\ \A k \in 1 .. n - 1 : seen[k] \in Retried
       /\ \A k \in 1 .. r.results[i].posts - 1 : seen[k] # "ok"
  /\ failOnError =>
       (r.status = 200 <=> \A i \in DOMAIN r.urls : r.results[i].taken)
=============================================================================
