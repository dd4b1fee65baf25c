------------------------------- MODULE Actions -------------------------------
(***************************************************************************)
(* Who is writing (profiles/src/Derivation.ts) and the code actions and    *)
(* commands an editor is offered on a concept (lsp/src/features/actions.ts, *)
(* commands.ts, edits.ts), as the concept each of them would leave.  The   *)
(* target is the text the editor holds: a concept of Lint with the keys    *)
(* whose YAML cannot be spliced (`odd`).                                    *)
(***************************************************************************)
EXTENDS Lint

CONSTANTS Roster,     \* the literal entries of [actors].humans, in order
          Folded,     \* an actor in lower case
          Invalid     \* values of git config okfit.actor that name no human

Spelled(a) == SelectSeq(Roster, LAMBDA e : Folded[e] = Folded[a])

(* git: the value of okfit.actor, and the actors that the address and the   *)
(* name of the user would make.                                             *)
HumanActorId(git) ==
  LET listed == SelectSeq(Roster, LAMBDA e : Folded[e] \in {Folded[a] : a \in {git.local, git.slug} \ {None}})
  IN IF listed # <<>> THEN Head(listed) ELSE IF git.local # None THEN git.local ELSE git.slug
GeneratedBy(git) ==
  CASE git.chosen = None -> HumanActorId(git)
    [] git.chosen \in Invalid -> None
    [] OTHER -> IF Spelled(git.chosen) # <<>> THEN Head(Spelled(git.chosen)) ELSE git.chosen
Verifier(git) == {GeneratedBy(git)} \ ({None} \cup {a \in Humans : ~Allowed(a)})

----------------------------------------------------------------------------
(* edits.ts: the concept after an edit, or nothing when it is refused.      *)

StatusEdit(t, status) == {u \in {[t EXCEPT !.status = status, !.keys = @ \cup {"status"}]} : "status" \notin t.odd}

(* An actor that has an entry, whatever it covers. *)
AlreadyListed(t, a) == Own(t, a) # {}
(* Whether the actor's verification still covers the content, whoever may   *)
(* verify: Trust.evaluate with an empty allow-list.                         *)
AlreadyBound(t, a) == BoundEntry(t) /\ t.binding.content = t.content /\ t.binding.by = a
Verified(t, a, at) ==
  [t EXCEPT !.verified = Append(@, [by |-> a, at |-> at]), !.binding = [by |-> a, at |-> at, content |-> t.content],
            !.keys = @ \cup {"verified", "integrity"}]
Verifiable(t, a) == t.content \notin Unhashable /\ ~AlreadyBound(t, a) /\ {"verified", "integrity"} \cap t.odd = {}
VerifiedEdit(t, a, at) == {u \in {Verified(t, a, at)} : t.status \notin {"draft", "deprecated"} /\ Verifiable(t, a)}
VerifiedStableEdit(t, a, at) ==
  {u \in {[Verified(t, a, at) EXCEPT !.status = "stable"]} :
     t.status = "draft" /\ Verifiable(t, a) /\ "status" \notin t.odd}

----------------------------------------------------------------------------
(* actions.ts: `codes` are the diagnostics the client sent, `only` the kinds *)
(* it asked for (none: any), `inside` whether its range is in the frontmatter.*)

Action(kind, fixes, edits) == {[kind |-> kind, fixes |-> fixes, after |-> u] : u \in edits}
Wants(only, kind) == only = {} \/ kind \in only
Offers(only, inside, kind) == IF only = {} THEN inside ELSE kind \in only

QuickStatuses(codes, only) ==
  IF "status-missing" \in codes /\ Wants(only, "quickfix") THEN {"draft", "stable"} ELSE {}
Reverify(t, codes, only, actors, at) ==
  IF "verified-drift" \in codes /\ Wants(only, "quickfix") THEN UNION {VerifiedEdit(t, a, at) : a \in actors} ELSE {}
CodeActions(t, codes, only, inside, actors, at) ==
  LET quick == QuickStatuses(codes, only)
      again == Reverify(t, codes, only, actors, at)
      statuses == IF Offers(only, inside, "okfit.status") THEN {"draft", "stable", "deprecated"} \ ({t.status} \cup quick)
                  ELSE {}
      verify == IF Offers(only, inside, "okfit.verify") THEN actors ELSE {}
  IN UNION {Action("quickfix", "status-missing", StatusEdit(t, s)) : s \in quick}
     \cup Action("quickfix", "verified-drift", again)
     \cup UNION {Action("okfit.status", None, StatusEdit(t, s)) : s \in statuses}
     \cup UNION {Action("okfit.verify", None, VerifiedStableEdit(t, a, at)) : a \in verify}
     \cup (IF again # {} THEN {} ELSE UNION {Action("okfit.verify", None, VerifiedEdit(t, a, at)) : a \in verify})

(* commands.ts: the same edits by name; the status is checked before the    *)
(* actor is asked for.                                                      *)
Command(t, name, status, actors, at) ==
  CASE name = "okfit.lsp.setStatus" -> StatusEdit(t, status)
    [] name = "okfit.lsp.markVerified" -> UNION {VerifiedEdit(t, a, at) : a \in actors}
    [] name = "okfit.lsp.verifyAndMarkStable" -> UNION {VerifiedStableEdit(t, a, at) : a \in actors}
    [] OTHER -> {}

----------------------------------------------------------------------------
(* A fix that is offered removes the finding it is for, and neither a fix   *)
(* nor a verification brings a finding the concept did not have (edits.ts:  *)
(* 234, Trust.ts:90); a drift that can be verified away is always offered   *)
(* its fix; a command does what the action of the same name does.  Entries  *)
(* dated in the future are left out: no verification supersedes them.       *)
Codes(t, config) == {r.code : r \in Findings({t}, {t.path}, {}, config, t)}
FixesHold(t, config, git, inside) ==
  LET at == config.now
      actors == Verifier(git)
      codes == Codes(t, config)
      offered == CodeActions(t, codes, {}, inside, actors, at)
      new(u) == Codes(u, config) \ codes
  IN /\ \A x \in offered : x.kind # "okfit.status" => new(x.after) = {} /\ x.fixes \notin Codes(x.after, config)
     /\ ("verified-drift" \in codes /\ actors # {} /\ t.odd = {} /\ t.content \notin Unhashable)
          => \E x \in offered : x.fixes = "verified-drift"
     /\ inside => \A name \in {"okfit.lsp.markVerified", "okfit.lsp.verifyAndMarkStable"} :
          Command(t, name, None, actors, at) \subseteq {x.after : x \in offered}
=============================================================================
