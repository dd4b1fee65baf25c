------------------------------- MODULE Splice -------------------------------
(***************************************************************************)
(* Editing the frontmatter of a concept in place: engine/src/verify/       *)
(* locate.ts, splice.ts, integrity.ts, revoke.ts, edits/FrontmatterEdits.ts*)
(* and the splices of sync/generated.ts.  A text is a sequence of cells,   *)
(* the key of a line, its scalar, an item of its list or a slot of its     *)
(* mapping, each with the top-level key it belongs to; an offset is a      *)
(* position between cells.  Quotes, indentation and newlines are left out. *)
(***************************************************************************)
EXTENDS Integers, Sequences, FiniteSets, SequencesExt

Cell(k, p, v) == [k |-> k, p |-> p, v |-> v]
Key(k) == Cell(k, "key", 0)

Cells(t, k) == {i \in DOMAIN t : t[i].k = k}
Lowest(S) == CHOOSE i \in S : \A j \in S : i <= j
Highest(S) == CHOOSE i \in S : \A j \in S : j <= i
Has(t, k) == Cells(t, k) # {}
KeyAt(t, k) == Lowest(Cells(t, k))
EndOf(t, k) == Highest(Cells(t, k)) + 1
Part(t, k, p) == {i \in Cells(t, k) : t[i].p = p}
IsBare(t, k) == EndOf(t, k) = KeyAt(t, k) + 1     \* a key without a value

(* An edit replaces `len` cells at `at`; length zero is an insertion. *)
Replace(at, len, put) == [at |-> at, len |-> len, put |-> put]
Insert(at, put) == Replace(at, 0, put)
AppendLines(t, put) == Insert(Len(t) + 1, put)

----------------------------------------------------------------------------
(* Where each key is edited, and with what. *)

(* A flow document, an alias, a merge key, a scalar where a list is wanted: *)
(* none of them is edited.                                                  *)
Odd(t, k) == Part(t, k, "odd") # {}

(* verified: a list in block or flow style gains an item; a bare mapping    *)
(* becomes the first item of a list; an absent key is appended as the last. *)
VerifiedEdit(t, e) ==
  LET k == "verified" IN
  CASE ~Has(t, k) -> AppendLines(t, <<Key(k), Cell(k, "item", e)>>)
    [] Part(t, k, "item") # {} -> Insert(EndOf(t, k), <<Cell(k, "item", e)>>)
    [] Part(t, k, "flow") # {} ->
         LET i == KeyAt(t, k) + 1 IN Replace(i, 1, <<Cell(k, "flow", Append(t[i].v, e))>>)
    [] Part(t, k, "bare") # {} ->
         LET i == KeyAt(t, k) + 1 IN Replace(i, 1, <<Cell(k, "item", t[i].v), Cell(k, "item", e)>>)

VerifiedOdd(t) == Odd(t, "verified") \/ (Has(t, "verified") /\ IsBare(t, "verified"))

(* A refresh rewrites the time of the actor's last item, where it finds one. *)
OwnItems(t, a) == {i \in Part(t, "verified", "item") : t[i].v.by = a}
RefreshEdit(t, e) ==
  IF OwnItems(t, e.by) = {} THEN VerifiedEdit(t, e)
  ELSE Replace(Highest(OwnItems(t, e.by)), 1, <<Cell("verified", "item", e)>>)

(* A scalar is replaced, or inserted below title, else below type. *)
ScalarOdd(t, k) == Odd(t, k) \/ (Has(t, k) /\ IsBare(t, k))
ScalarEdit(t, k, v) ==
  IF Has(t, k) THEN Replace(KeyAt(t, k) + 1, 1, <<Cell(k, "value", v)>>)
  ELSE Insert(EndOf(t, IF Has(t, "title") THEN "title" ELSE "type"), <<Key(k), Cell(k, "value", v)>>)

(* integrity: the slot is rewritten, or added: generated before the first,   *)
(* verified behind the last, which is rewritten with it so that an insertion *)
(* below the block keeps its place.                                          *)
SlotEdit(t, slot, v) ==
  LET k == "integrity"
      cell == Cell(k, slot, v)
  IN CASE ~Has(t, k) -> AppendLines(t, <<Key(k), cell>>)
       [] Has(t, k) /\ IsBare(t, k) -> Replace(KeyAt(t, k), 1, <<Key(k), cell>>)
       [] Part(t, k, slot) # {} -> Replace(Lowest(Part(t, k, slot)), 1, <<cell>>)
       [] OTHER -> IF slot = "generated" THEN Insert(KeyAt(t, k) + 1, <<cell>>)
                   ELSE Replace(EndOf(t, k) - 1, 1, <<t[EndOf(t, k) - 1], cell>>)

(* generated.at is replaced or added as the block's last key; a whole block *)
(* is appended, or written over a bare `generated:`.                        *)
GeneratedEdit(t, at) ==
  LET k == "generated"
      own == Part(t, k, "at")
  IN IF own # {} THEN Replace(Lowest(own), 1, <<Cell(k, "at", at)>>)
     ELSE Insert(EndOf(t, k), <<Cell(k, "at", at)>>)
BlockEdit(t, by, at) ==
  LET k == "generated"
      block == <<Key(k), Cell(k, "by", by), Cell(k, "at", at)>>
  IN IF Has(t, k) THEN Replace(KeyAt(t, k), 1, block) ELSE AppendLines(t, block)

LegacyRemovals(t) ==
  LET own == Part(t, "generated", "body_sha256") IN
  IF own = {} THEN <<>> ELSE <<Replace(Lowest(own), 1, <<>>)>>

----------------------------------------------------------------------------
(* Several edits of one write. *)

(* Sorted by offset; at one offset in the order given. *)
RECURSIVE InsertEdit(_, _)
InsertEdit(es, e) ==
  IF es = <<>> \/ es[Len(es)].at <= e.at THEN Append(es, e)
  ELSE Append(InsertEdit(Front(es), e), es[Len(es)])
Sorted(es) == FoldLeft(InsertEdit, <<>>, es)

(* An insertion folds into the edit behind it that starts where it stands. *)
MergeNothing(es) == es
MergeSameOffset(es) ==
  FoldLeft(LAMBDA out, e :
             IF out # <<>> /\ Last(out).len = 0 /\ Last(out).at = e.at
             THEN Append(Front(out), Replace(e.at, e.len, Last(out).put \o e.put))
             ELSE Append(out, e),
           <<>>, es)

(* What the library refuses: edits that overlap or stand at one offset. *)
Clash(es) == \E i \in 1 .. Len(es) - 1 : es[i].at + es[i].len > es[i + 1].at \/ es[i].at = es[i + 1].at
ApplyAll(t, es) ==
  FoldRight(LAMBDA e, out : SubSeq(out, 1, e.at - 1) \o e.put \o SubSeq(out, e.at + e.len, Len(out)), es, t)

(* status before verified before integrity where they meet. *)
VerifyEdits(t, e, status) ==
  MergeSameOffset(Sorted((IF status = "keep" THEN <<>> ELSE <<ScalarEdit(t, "status", status)>>)
                         \o <<VerifiedEdit(t, e), SlotEdit(t, "verified", e)>>))
VerifyOdd(t, status) ==
  VerifiedOdd(t) \/ Odd(t, "integrity") \/ (status # "keep" /\ ScalarOdd(t, "status"))

RefreshEdits(t, e, until) ==
  Sorted(MergeSameOffset(Sorted(<<RefreshEdit(t, e), SlotEdit(t, "verified", e)>>))
         \o (IF Has(t, "stale_after") THEN <<ScalarEdit(t, "stale_after", until)>> ELSE <<>>))

SyncEdits(t, at, agent, body) ==
  MergeSameOffset(Sorted(
    <<IF Has(t, "generated") /\ ~IsBare(t, "generated") THEN GeneratedEdit(t, at) ELSE BlockEdit(t, agent, at)>>
    \o LegacyRemovals(t) \o <<SlotEdit(t, "generated", body)>>))

(* All items of the actor, with the key when none is left, and the slot, *)
(* with the block when it is the only one.                               *)
RevokeItems(t, a) ==
  LET k == "verified"
      items == Part(t, k, "item") \cup Part(t, k, "bare")
      own == {i \in items : t[i].v.by = a}
  IN IF own = items THEN <<Replace(KeyAt(t, k), 1 + Cardinality(items), <<>>)>>
     ELSE SetToSeq({Replace(i, 1, <<>>) : i \in own})
RevokeSlot(t, a) ==
  LET k == "integrity"
      slot == {i \in Part(t, k, "verified") : t[i].v.by = a}
  IN IF slot = {} THEN <<>>
     ELSE IF EndOf(t, k) = KeyAt(t, k) + 2 THEN <<Replace(KeyAt(t, k), 2, <<>>)>>
     ELSE <<Replace(Lowest(slot), 1, <<>>)>>
RevokeEdits(t, a) == Sorted(RevokeItems(t, a) \o RevokeSlot(t, a))
RevokeOdd(t) == VerifiedOdd(t) \/ Odd(t, "integrity") \/ Part(t, "verified", "flow") # {}

----------------------------------------------------------------------------
(* What the edits must amount to, by the meaning of the text. *)

Entries(t) ==
  IF ~Has(t, "verified") THEN <<>>
  ELSE IF Part(t, "verified", "flow") # {} THEN t[KeyAt(t, "verified") + 1].v
  ELSE [i \in 1 .. EndOf(t, "verified") - KeyAt(t, "verified") - 1 |-> t[KeyAt(t, "verified") + i].v]
Value(t, k, p) == IF Part(t, k, p) = {} THEN <<>> ELSE <<t[Lowest(Part(t, k, p))].v>>
Scalar(t, k) == Value(t, k, "value")
Rest(t, touched) == SelectSeq(t, LAMBDA c : <<c.k, c.p>> \notin touched)

(* One key cell per key, before the rest of its cells, and nothing between. *)
WellFormed(t, before) ==
  /\ \A i \in DOMAIN t : t[i].p = "key" <=> i = KeyAt(t, t[i].k)
  /\ \A i \in DOMAIN t : Cardinality(Cells(t, t[i].k)) = EndOf(t, t[i].k) - KeyAt(t, t[i].k)
  /\ \A i \in DOMAIN t : IsBare(t, t[i].k) => Has(before, t[i].k) /\ IsBare(before, t[i].k)

VerifyExact(t, e, status) ==
  LET es == VerifyEdits(t, e, status)
      r == ApplyAll(t, es)
      mine == ({"verified"} \X {"key", "item", "flow", "bare"}) \cup ({"integrity"} \X {"key", "verified"})
              \cup (IF status = "keep" THEN {} ELSE {"status"} \X {"key", "value"})
  IN VerifyOdd(t, status) \/
     /\ ~Clash(es) /\ WellFormed(r, t)
     /\ Entries(r) = Append(Entries(t), e) /\ Value(r, "integrity", "verified") = <<e>>
     /\ status # "keep" => Scalar(r, "status") = <<status>>
     /\ Rest(r, mine) = Rest(t, mine)

RefreshExact(t, e, until) ==
  LET es == RefreshEdits(t, e, until)
      r == ApplyAll(t, es)
      mine == ({"verified"} \X {"key", "item", "flow", "bare"}) \cup ({"integrity"} \X {"key", "verified"})
              \cup {<<"stale_after", "value">>}
  IN VerifyOdd(t, "keep") \/ ScalarOdd(t, "stale_after") \/
     /\ ~Clash(es) /\ WellFormed(r, t)
     /\ e \in ToSet(Entries(r)) /\ Value(r, "integrity", "verified") = <<e>>
     /\ Scalar(r, "stale_after") = (IF Has(t, "stale_after") THEN <<until>> ELSE <<>>)
     /\ Rest(r, mine) = Rest(t, mine)

SyncExact(t, at, agent, body) ==
  LET es == SyncEdits(t, at, agent, body)
      r == ApplyAll(t, es)
      mine == ({"generated"} \X {"key", "by", "at", "body_sha256"}) \cup ({"integrity"} \X {"key", "generated"})
  IN Odd(t, "integrity") \/
     /\ ~Clash(es) /\ WellFormed(r, t)
     /\ Value(r, "generated", "at") = <<at>> /\ Value(r, "integrity", "generated") = <<body>>
     /\ Part(r, "generated", "body_sha256") = {}
     /\ Part(t, "generated", "by") # {} => Value(r, "generated", "by") = Value(t, "generated", "by")
     /\ Rest(r, mine) = Rest(t, mine)

(* Revoking takes back exactly what verifying added. *)
RevokeExact(t, a) ==
  LET es == RevokeEdits(t, a)
      r == ApplyAll(t, es)
  IN RevokeOdd(t) \/ SelectSeq(Entries(t), LAMBDA e : e.by = a) = <<>> \/
     /\ ~Clash(es) /\ WellFormed(r, t)
     /\ Entries(r) = SelectSeq(Entries(t), LAMBDA e : e.by # a)
     /\ Value(r, "integrity", "verified") \in {<<>>, Value(t, "integrity", "verified")}
     /\ ~\E i \in Part(r, "integrity", "verified") : r[i].v.by = a
     /\ Rest(r, {"verified", "integrity"} \X {"key", "item", "bare", "verified"})
          = Rest(t, {"verified", "integrity"} \X {"key", "item", "bare", "verified"})
=============================================================================
