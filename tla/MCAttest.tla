------------------------------ MODULE MCAttest ------------------------------
(* Two concepts, two people, and a third who has left the allow-list. *)
EXTENDS Attest

CONSTANTS c1, c2, c3, ann, bob, cyd

Unverified(type, status, odd) ==
  [type |-> type, content |-> c1, status |-> status, stale |-> 1, odd |-> odd,
   verified |-> <<>>, binding |-> NoBinding]
VerifiedBy(a, f) ==
  [f EXCEPT !.verified = <<[by |-> a, at |-> 1]>>,
            !.binding = [by |-> a, at |-> 1, content |-> f.content]]

Decision == Unverified("decision", "stable", {})
Note == Unverified("note", "stable", {})
MCBundles ==
  {<<Decision, g>> : g \in {VerifiedBy(ann, Note), VerifiedBy(cyd, Unverified("note", "draft", {})),
                            VerifiedBy(bob, Unverified("note", "deprecated", {"integrity"}))}}
=============================================================================
