------------------------------- MODULE Trust -------------------------------
(***************************************************************************)
(* The trust signal of a concept (profiles/src/Trust.ts) and the           *)
(* selections `okfit verify` makes from it (engine/src/verify/select.ts),  *)
(* as operators over a bundle, a function from concept ids to concepts.    *)
(* A concept is what those functions read of a file: its type, its content *)
(* (what the digest covers), status, stale_after, the `verified` list and  *)
(* the integrity.verified binding.  A digest is the content it was         *)
(* computed from.                                                          *)
(***************************************************************************)
EXTENDS Integers, Sequences, FiniteSets, SequencesExt

CONSTANTS Humans,      \* actors of the form human:<id>
          AllowList,   \* [actors].humans; the empty set allows anyone
          Unhashable,  \* contents that have no canonical form
          Required     \* the types declared with require_verified

NoBinding == [by |-> "nobody", at |-> 0, content |-> "nothing"]
Never == 0             \* no stale_after

Allowed(a) == AllowList = {} \/ a \in AllowList

(* Entries are named by their places in the list. *)
Own(c, a) == {i \in DOMAIN c.verified : c.verified[i].by = a}

(* The latest entry of a human; of two at the same time, the later in the list. *)
HumanEntries(c) == {i \in DOMAIN c.verified : c.verified[i].by \in Humans}
LatestHuman(c) ==
  LET es == c.verified IN
  es[CHOOSE i \in HumanEntries(c) :
       \A j \in HumanEntries(c) : es[j].at < es[i].at \/ (es[j].at = es[i].at /\ j <= i)]

BoundEntry(c) ==
  /\ HumanEntries(c) # {}
  /\ c.binding # NoBinding
  /\ c.binding.by = LatestHuman(c).by
  /\ c.binding.at = LatestHuman(c).at

(* Why a human verification does not bind the concept; "current" when it does. *)
Evaluate(c) ==
  IF HumanEntries(c) = {} THEN "none"
  ELSE IF c.binding = NoBinding THEN "unbound"
  ELSE IF ~BoundEntry(c) THEN "entry-superseded"
  ELSE IF ~Allowed(c.binding.by) THEN "actor-not-allowed"
  ELSE IF c.content \in Unhashable THEN "content-unhashable"
  ELSE IF c.content = c.binding.content THEN "current"
  ELSE "content-changed"

Drifted(c) == Evaluate(c) \notin {"none", "current"}

IsStale(c, now) == c.stale # Never /\ now >= c.stale

(* Deprecated and draft concepts are never linted: verify refuses them. *)
LintDrift(bundle) ==
  {id \in DOMAIN bundle : bundle[id].status \notin {"draft", "deprecated"} /\ Drifted(bundle[id])}

AttestedBy(c, a) == Evaluate(c) = "current" /\ c.binding.by = a

(* A selection that asks for an entry by the actor, not for one that binds. *)
AttestableUnlessListed(bundle, types, drifted, a) ==
  {id \in DOMAIN bundle :
     /\ bundle[id].type \in types \/ (drifted /\ Drifted(bundle[id]))
     /\ bundle[id].status \notin {"draft", "deprecated"}
     /\ Own(bundle[id], a) = {}}

(* A batch with explicit types takes those types; without, the required ones *)
(* and whatever has drifted.                                                 *)
Attestable(bundle, types, drifted, a) ==
  {id \in DOMAIN bundle :
     /\ bundle[id].type \in types \/ (drifted /\ Drifted(bundle[id]))
     /\ bundle[id].status \notin {"draft", "deprecated"}
     /\ ~AttestedBy(bundle[id], a)}

PickerRows(bundle, a) ==
  {id \in DOMAIN bundle :
     /\ bundle[id].type \in Required \/ Drifted(bundle[id])
     /\ bundle[id].status # "deprecated"
     /\ ~AttestedBy(bundle[id], a)}

StaleRows(bundle, now) ==
  {id \in DOMAIN bundle : IsStale(bundle[id], now) /\ bundle[id].status # "deprecated"}
=============================================================================
