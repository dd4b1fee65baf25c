------------------------------- MODULE Tiers -------------------------------
(***************************************************************************)
(* The two revalidation tiers of the language server and how a scheduler   *)
(* merges them. "edit" skips provenance, "full" runs everything; NoTier    *)
(* stands for an absent Option.                                            *)
(***************************************************************************)

Tier == {"edit", "full"}
NoTier == "none"
TierOption == Tier \union {NoTier}

\* The two-value maximum: "full" wins.
MaxTier(a, b) == IF a = "full" \/ b = "full" THEN "full" ELSE "edit"

\* Folding a newly requested tier into a possibly absent earlier one.
MergeTier(prior, next) == IF prior = NoTier THEN next ELSE MaxTier(prior, next)

\* The greater of two possibly absent tiers.
JoinTier(a, b) == IF b = NoTier THEN a ELSE MergeTier(a, b)

\* a asks for no more than b does.
Within(a, b) == JoinTier(a, b) = b
=============================================================================
