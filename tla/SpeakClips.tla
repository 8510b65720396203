------------------------------ MODULE SpeakClips ------------------------------
(***************************************************************************)
(* What speak's clip preparer promises about each clip, without its queues, *)
(* workers, timers and waiters: a clip is asked for, made by one synthesis  *)
(* at a time, tried at most MaxAttempts times per request, and given up,    *)
(* retried, kept or forgotten.  SpeakPreparer is shown to implement this.   *)
(***************************************************************************)
EXTENDS Naturals

CONSTANTS Keys,         \* the clips
          MaxAttempts   \* maxAttempts: syntheses a clip gets per request

VARIABLES work,     \* [Keys -> what is being done about the clip]
          tries,    \* [Keys -> syntheses started since it was asked for]
          stored    \* the clips in the cache

vars == <<work, tries, stored>>

Doing == {"idle", "queued", "generating", "retrying", "failed"}

TypeOK ==
  /\ work \in [Keys -> Doing]
  /\ tries \in [Keys -> 0..MaxAttempts]
  /\ stored \subseteq Keys

Init ==
  /\ work = [k \in Keys |-> "idle"]
  /\ tries = [k \in Keys |-> 0]
  /\ stored \in SUBSET Keys

Become(S, what) == work' = [k \in Keys |-> IF k \in S THEN what ELSE work[k]]
Restart(S) == tries' = [k \in Keys |-> IF k \in S THEN 0 ELSE tries[k]]

\* Clips neither stored nor being made are asked for.
Ask(S) ==
  /\ \A k \in S : k \notin stored /\ work[k] \in {"idle", "failed"}
  /\ Become(S, "queued")
  /\ Restart(S)
  /\ UNCHANGED stored

\* A clip waiting to be retried goes back to work, its count kept.
Resume(k) ==
  /\ work[k] = "retrying"
  /\ Become({k}, "queued")
  /\ UNCHANGED <<tries, stored>>

\* A synthesis starts: only of a clip that waits for one.
Start(k) ==
  /\ work[k] = "queued"
  /\ tries[k] < MaxAttempts
  /\ Become({k}, "generating")
  /\ tries' = [tries EXCEPT ![k] = @ + 1]
  /\ UNCHANGED stored

\* The clip is made: nothing is left to do about it.
Made(k) ==
  /\ work[k] = "generating"
  /\ Become({k}, "idle")
  /\ Restart({k})
  /\ UNCHANGED stored

\* The synthesis failed and another one, within the attempts, will follow.
Retry(k) ==
  /\ work[k] = "generating"
  /\ tries[k] < MaxAttempts
  /\ Become({k}, "retrying")
  /\ UNCHANGED <<tries, stored>>

\* The clip failed for good, and what nobody waits for (S) may be called off.
GiveUp(k, S) ==
  /\ work[k] = "generating"
  /\ \A s \in S : work[s] \in {"queued", "retrying"}
  /\ work' = [s \in Keys |-> IF s = k THEN "failed"
                             ELSE IF s \in S THEN "idle" ELSE work[s]]
  /\ Restart(S)
  /\ UNCHANGED stored

\* Clips are no longer wanted; one being made is left to finish.
Forget(S) ==
  /\ \A k \in S : work[k] \in {"queued", "retrying", "failed"}
  /\ Become(S, "idle")
  /\ Restart(S)
  /\ UNCHANGED stored

\* The cache gains a clip (a synthesis stores it before it ends, another
\* endpoint stores its own) or loses one to its limits.
Store(k) == stored' = stored \union {k} /\ UNCHANGED <<work, tries>>
Evict(k) == stored' = stored \ {k} /\ UNCHANGED <<work, tries>>

Next ==
  \/ \E S \in SUBSET Keys : Ask(S) \/ Forget(S)
  \/ \E k \in Keys :
       \/ Resume(k) \/ Start(k) \/ Made(k) \/ Retry(k) \/ Store(k) \/ Evict(k)
       \/ \E S \in SUBSET (Keys \ {k}) : GiveUp(k, S)

Spec == Init /\ [][Next]_vars
===============================================================================
