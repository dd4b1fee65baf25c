----------------------------- MODULE Coalescer -----------------------------
(***************************************************************************)
(* What a debounced scheduler promises its callers, with no fibers and no  *)
(* clock: requests accumulate into one owed tier, one run at a time serves *)
(* everything owed, and while the scheduler's scope is open nothing owed   *)
(* is ever forgotten.                                                      *)
(***************************************************************************)
EXTENDS Tiers

VARIABLES
  owed,       \* The tier requested and not yet begun, or NoTier.
  inFlight,   \* The tier of the run in progress, or NoTier.
  open        \* FALSE once the scope the scheduler was built under closed.

vars == <<owed, inFlight, open>>

Init == /\ owed = NoTier
        /\ inFlight = NoTier
        /\ open = TRUE

Request(t) == /\ owed' = MergeTier(owed, t)
              /\ UNCHANGED <<inFlight, open>>

\* A run begins only when no other is in progress, and takes all that is owed.
Begin == /\ owed # NoTier
         /\ inFlight = NoTier
         /\ inFlight' = owed
         /\ owed' = NoTier
         /\ UNCHANGED open

End == /\ inFlight # NoTier
       /\ inFlight' = NoTier
       /\ UNCHANGED <<owed, open>>

Close == /\ open' = FALSE
         /\ UNCHANGED <<owed, inFlight>>

\* Closing is the only licence to drop work, owed or in progress.
Abandon == /\ ~open
           /\ \E less \in TierOption : Within(less, owed) /\ owed' = less
           /\ inFlight' \in {inFlight, NoTier}
           /\ UNCHANGED open

Next == \/ \E t \in Tier : Request(t)
        \/ Begin
        \/ End
        \/ Close
        \/ Abandon

Fairness == /\ WF_vars(open /\ Begin)
            /\ WF_vars(open /\ End)

Spec == Init /\ [][Next]_vars /\ Fairness
=============================================================================
