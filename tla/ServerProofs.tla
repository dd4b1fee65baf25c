----------------------------- MODULE ServerProofs -----------------------------
(* Theorems about Server, for any number of messages. *)
EXTENDS Server, SequenceTheorems, TLAPS

USE DEF Messages, Sentinel

----------------------------------------------------------------------------
(* Types. *)
\* What was sent is among the messages, and stays what it is.
LEMMA Sent ==
  ASSUME TypeOK
  PROVE  /\ Len(kind) \in Nat /\ \A kinds : Of(kinds) \subseteq 1 .. Len(kind) /\ Of(kinds) \subseteq Messages
         /\ \A kinds : kind' = kind => Of(kinds)' = Of(kinds)
BY ServerAssumption DEF TypeOK, Of

LEMMA SentKept ==
  ASSUME TypeOK, NEW k \in Kind, kind' = Append(kind, k)
  PROVE  /\ kind' \in Seq(Kind) /\ Len(kind') = Len(kind) + 1
         /\ \A kinds : Of(kinds)' = Of(kinds) \cup IF k \in kinds THEN {Len(kind) + 1} ELSE {}
<1>1. /\ kind \in Seq(Kind) /\ Len(kind) \in Nat /\ Len(kind') = Len(kind) + 1 /\ kind' \in Seq(Kind)
      /\ \A i \in 1 .. Len(kind) : kind'[i] = kind[i]
      /\ kind'[Len(kind) + 1] = k
  BY DEF TypeOK
<1>. QED
  BY <1>1 DEF Of

\* A sequence over a set is one over a larger set.
LEMMA SeqGrows ==
  ASSUME NEW S, NEW T, S \subseteq T, NEW s \in Seq(S)
  PROVE  s \in Seq(T)
BY ElementOfSeq, SeqDef

\* Appending to a sequence, and taking its first element off.
LEMMA Appended ==
  ASSUME NEW S, NEW s \in Seq(S), NEW e \in S
  PROVE  /\ Append(s, e) \in Seq(S) /\ Len(Append(s, e)) = Len(s) + 1 /\ Len(s) \in Nat
         /\ \A n \in 1 .. Len(s) : Append(s, e)[n] = s[n]
         /\ Append(s, e)[Len(s) + 1] = e
OBVIOUS

LEMMA TakenOff ==
  ASSUME NEW S, NEW s \in Seq(S), s # <<>>
  PROVE  /\ Head(s) = s[1] /\ s[1] \in S /\ Len(s) \in Nat \ {0}
         /\ Tail(s) \in Seq(S) /\ Len(Tail(s)) = Len(s) - 1
         /\ \A n \in 1 .. Len(s) - 1 : Tail(s)[n] = s[n + 1]
OBVIOUS

LEMMA TypeInit == Init => TypeOK
<1>. SUFFICES ASSUME Init
              PROVE  TypeOK
  OBVIOUS
<1>1. /\ kind \in Seq(Kind) /\ Len(kind) <= MaxSent /\ wire \in Seq(Of(Kind) \union {Sentinel})
      /\ work \in Seq(Of({"note", "shutdown"}))
  BY ServerAssumption DEF Init
<1>2. drain \in [{"fallback", "sentinel"} ->
                 [at : {"sleeping", "emptying", "writing", "over"}, awaits : SUBSET Messages]]
  BY DEF Init, Over
<1>. QED
  BY <1>1, <1>2 DEF Init, TypeOK

LEMMA TypeStep == TypeOK /\ [Next]_vars => TypeOK'
<1>. SUFFICES ASSUME TypeOK, [Next]_vars
              PROVE  TypeOK'
  OBVIOUS
<1>. USE Sent
<1>1. ASSUME NEW k \in Kind, Send(k)
      PROVE  TypeOK'
  <2>1. /\ kind' = Append(kind, k) /\ wire' = Append(wire, Len(kind) + 1) /\ Len(kind) < MaxSent
        /\ UNCHANGED <<input, reads, slow, handler, reply, work, slot, owed, running, taken, drain, sentinelSeen, outcome, scope>>
    BY <1>1 DEF Send, session, ending
  <2>2. /\ kind' \in Seq(Kind) /\ Len(kind') = Len(kind) + 1
        /\ \A kinds : Of(kinds)' = Of(kinds) \cup IF k \in kinds THEN {Len(kind) + 1} ELSE {}
    BY <2>1, SentKept
  <2>3. Of(Kind)' = Of(Kind) \cup {Len(kind) + 1}
    BY <2>2
  <2>4. \A kinds : Of(kinds) \subseteq Of(kinds)'
    BY <2>2
  <2>5. wire' \in Seq(Of(Kind)' \union {Sentinel})
    <3>1. wire \in Seq(Of(Kind)' \union {Sentinel})
      BY <2>4, SeqGrows DEF TypeOK
    <3>. QED
      BY <3>1, <2>1, <2>3
  <2>6. work' \in Seq(Of({"note", "shutdown"})')
    BY <2>4, <2>1, SeqGrows DEF TypeOK
  <2>7. \A is \in {owed', running', taken'} : is \subseteq Of({"note"})'
    BY <2>4, <2>1 DEF TypeOK
  <2>. HIDE DEF Messages, Sentinel
  <2>8. kind' \in Seq(Kind) /\ Len(kind') <= MaxSent
    BY <2>1, <2>2, ServerAssumption
  <2>. QED
    BY <2>1, <2>5, <2>6, <2>7, <2>8 DEF TypeOK, Sentinel
<1>2. CASE UNCHANGED vars
  BY <1>2 DEF vars, TypeOK
<1>3. CASE StopReading
  BY <1>3 DEF StopReading, TypeOK, session, ending
<1>4. ASSUME NEW how \in {"ended", "cut"}, InputEnds(how)
      PROVE  TypeOK'
  <2>1. /\ wire' = wire \/ wire' = Append(wire, Sentinel)
        /\ UNCHANGED <<kind, reads, slow, handler, reply, work, slot, owed, running, taken, sentinelSeen, outcome, scope>>
        /\ input' = how /\ drain' = [drain EXCEPT !.fallback = Sleeping]
    BY <1>4 DEF InputEnds, session
  <2>2. wire' \in Seq(Of(Kind) \union {Sentinel})
    <3>1. wire \in Seq(Of(Kind) \union {0})
      BY DEF TypeOK
    <3>2. 0 \in Of(Kind) \union {0}
      OBVIOUS
    <3>3. Append(wire, 0) \in Seq(Of(Kind) \union {0})
      BY <3>1, <3>2, Appended
    <3>. QED
      BY <3>1, <3>3, <2>1
  <2>3. drain' \in [{"fallback", "sentinel"} ->
                 [at : {"sleeping", "emptying", "writing", "over"}, awaits : SUBSET Messages]]
    BY <2>1 DEF TypeOK, Sleeping
  <2>. QED
    BY <2>1, <2>2, <2>3 DEF TypeOK
<1>5. CASE DispatchHandled
  BY <1>5 DEF DispatchHandled, First, TypeOK, client, session, ending
<1>6. CASE DispatchExit
  BY <1>6 DEF DispatchExit, Finish, TypeOK, client, session
<1>7. CASE DispatchSentinel
  BY <1>7 DEF DispatchSentinel, SentinelDrain, MessagesInFlight, Over, TypeOK, client, session
<1>8. ASSUME NEW i \in Messages, Enqueue(i) \/ ShutdownStarts(i)
      PROVE  TypeOK'
  <2>1. i \in Of({"note", "shutdown"}) /\ work' = Append(work, i)
    BY <1>8 DEF Enqueue, ShutdownStarts, Marked, Of
  <2>2. work' \in Seq(Of({"note", "shutdown"}))
    BY <2>1 DEF TypeOK
  <2>3. UNCHANGED <<kind, input, reads, slow, wire, reply, slot, owed, running, taken, drain, sentinelSeen, outcome, scope>>
    BY <1>8 DEF Enqueue, ShutdownStarts, Marked, client, session, ending
  <2>4. handler' \in [Messages -> {"none", "ready", "asking", "draining", "settling", "over"}]
    BY <1>8 DEF Enqueue, ShutdownStarts, Marked, TypeOK
  <2>. QED
    BY <2>2, <2>3, <2>4 DEF TypeOK
<1>9. ASSUME NEW i \in Messages, AskStarts(i) \/ AskAnswers(i) \/ ShutdownAnswers(i) \/ Written(i)
      PROVE  TypeOK'
  <2>1. UNCHANGED <<kind, input, reads, slow, wire, work, slot, owed, running, taken, drain, sentinelSeen, outcome, scope>>
    BY <1>9 DEF AskStarts, AskAnswers, ShutdownAnswers, Respond, Written, client, session, ending
  <2>2. handler' \in [Messages -> {"none", "ready", "asking", "draining", "settling", "over"}]
    BY <1>9 DEF AskStarts, AskAnswers, ShutdownAnswers, Respond, Written, TypeOK
  <2>3. reply' \in [Messages -> {"none", "writing", "written"}]
    BY <1>9 DEF AskStarts, AskAnswers, ShutdownAnswers, Respond, Written, TypeOK
  <2>. QED
    BY <2>1, <2>2, <2>3 DEF TypeOK
<1>10. CASE Work
  BY <1>10 DEF Work, Schedule, TypeOK, client, ending
<1>11. CASE WorkDies \/ Mark
  <2>1. UNCHANGED <<kind, input, reads, slow, wire, reply, slot, owed, running, taken, drain, sentinelSeen, outcome, scope>>
    BY <1>11 DEF WorkDies, Mark, client, session, ending
  <2>2. work # <<>> /\ work' = Tail(work)
    BY <1>11 DEF WorkDies, AfterDefect, Mark
  <2>3. work' \in Seq(Of({"note", "shutdown"}))
    BY <2>2 DEF TypeOK
  <2>4. handler' \in [Messages -> {"none", "ready", "asking", "draining", "settling", "over"}]
    BY <1>11 DEF WorkDies, Mark, TypeOK
  <2>. QED
    BY <2>1, <2>3, <2>4 DEF TypeOK
<1>12. CASE Chain
  BY <1>12 DEF Chain, Claim, RunEnds, Continue, Schedule, TypeOK, client, ending
<1>13. CASE Expire
  BY <1>13 DEF Expire, Over, TypeOK, client, session
<1>14. ASSUME NEW d \in {"fallback", "sentinel"}, Emptied(d)
       PROVE  TypeOK'
  <2>1. UNCHANGED <<kind, input, reads, slow, wire, handler, reply, work, slot, owed, running, taken, sentinelSeen, outcome, scope>>
    BY <1>14 DEF Emptied, client, session
  <2>2. Awaits(d) \subseteq Messages
    BY DEF Awaits, WritesInFlight, MessagesInFlight, TypeOK
  <2>3. drain' = [drain EXCEPT ![d] = [at |-> "writing", awaits |-> Awaits(d)]]
    BY <1>14 DEF Emptied
  <2>. QED
    BY <2>1, <2>2, <2>3 DEF TypeOK
<1>15. ASSUME NEW d \in {"fallback", "sentinel"}, Drained(d)
       PROVE  TypeOK'
  BY <1>15 DEF Drained, Over, Finish, TypeOK, client, session
<1>16. CASE CloseScope
  BY <1>16 DEF CloseScope, Over, TypeOK, client
<1>. QED
  BY <1>1, <1>2, <1>3, <1>4, <1>5, <1>6, <1>7, <1>8, <1>9, <1>10, <1>11, <1>12, <1>13, <1>14, <1>15, <1>16
     DEF Next, Client, Dispatch, Handle, Worker, Drains

----------------------------------------------------------------------------
(* The reader: nothing behind the sentinel, nothing lost. *)
\* What each message is.
LEMMA Kinds ==
  ASSUME TypeOK
  PROVE  /\ Of(Kind) = 1 .. Len(kind) /\ Handled \subseteq Of(Kind) /\ Of({"exit"}) \subseteq Of(Kind)
         /\ Handled \cap Of({"exit"}) = {} /\ Of({"note"}) \subseteq Handled
         /\ Of({"ask"}) \subseteq Handled /\ Of({"shutdown"}) \subseteq Handled
         /\ Of({"note"}) \cap Of({"ask", "shutdown"}) = {}
         /\ Of({"ask", "shutdown"}) = Of({"ask"}) \cup Of({"shutdown"})
         /\ Of(Kind) \subseteq Handled \cup Of({"exit"})
<1>1. kind \in [1 .. Len(kind) -> Kind]
  BY DEF TypeOK
<1>. QED
  BY <1>1 DEF Of, Handled, Kind

\* A step that dispatches nothing leaves the reader's order.
LEMMA WireStays ==
  ASSUME TypeOK, WireInv, UNCHANGED <<kind, input, wire>>, scope' = scope \/ scope' = "closed",
         Dispatched' = Dispatched, outcome # "none" => outcome' # "none"
  PROVE  WireInv'
<1>1. \A kinds : Of(kinds)' = Of(kinds)
  BY DEF Of
<1>. QED
  BY <1>1 DEF WireInv

\* Dispatching the first message, which is handled, an exit, or the sentinel.
LEMMA WireTail ==
  ASSUME TypeOK, WireInv, wire # <<>>, wire' = Tail(wire), UNCHANGED <<kind, input, scope>>,
         Dispatched' = Dispatched \/ (First \in Messages /\ Dispatched' = Dispatched \cup {First}),
         First \in Of(Kind) => First \in Dispatched' \/ (First \in Of({"exit"}) /\ outcome' # "none"),
         outcome # "none" => outcome' # "none"
  PROVE  WireInv'
<1>1. \A kinds : Of(kinds)' = Of(kinds)
  BY DEF Of
<1>2. /\ First = wire[1] /\ Len(wire) \in Nat \ {0} /\ Len(wire') = Len(wire) - 1
      /\ \A n \in 1 .. Len(wire) - 1 : wire'[n] = wire[n + 1]
  BY TakenOff DEF TypeOK, First
<1>3. \A n \in 1 .. Len(wire)' : \A m \in 1 .. n - 1 :
         wire'[m] # Sentinel /\ (wire'[n] # Sentinel => wire'[m] < wire'[n])
  <2>. SUFFICES ASSUME NEW n \in 1 .. Len(wire'), NEW m \in 1 .. n - 1
                PROVE  wire'[m] # Sentinel /\ (wire'[n] # Sentinel => wire'[m] < wire'[n])
    OBVIOUS
  <2>1. n + 1 \in 1 .. Len(wire) /\ m + 1 \in 1 .. (n + 1) - 1 /\ wire'[n] = wire[n + 1] /\ wire'[m] = wire[m + 1]
    BY <1>2
  <2>. QED
    BY <2>1 DEF WireInv
<1>4. \A n \in 1 .. Len(wire') : \A i \in Dispatched' : wire'[n] # Sentinel => i < wire'[n]
  <2>. SUFFICES ASSUME NEW n \in 1 .. Len(wire'), NEW i \in Dispatched', wire'[n] # Sentinel
                PROVE  i < wire'[n]
    OBVIOUS
  <2>1. n + 1 \in 1 .. Len(wire) /\ 1 \in 1 .. (n + 1) - 1 /\ wire'[n] = wire[n + 1]
    BY <1>2
  <2>. QED
    BY <2>1, <1>2 DEF WireInv
<1>5. \A n \in 1 .. Len(wire') : wire'[n] = Sentinel => input' # "open"
  <2>. SUFFICES ASSUME NEW n \in 1 .. Len(wire'), wire'[n] = Sentinel
                PROVE  input' # "open"
    OBVIOUS
  <2>1. n + 1 \in 1 .. Len(wire) /\ wire'[n] = wire[n + 1]
    BY <1>2
  <2>. QED
    BY <2>1 DEF WireInv
<1>6. ASSUME scope' = "open", NEW i \in Of(Kind)
      PROVE  \/ \E n \in 1 .. Len(wire') : wire'[n] = i
             \/ i \in Dispatched'
             \/ i \in Of({"exit"}) /\ outcome' # "none"
  <2>1. CASE i \in Dispatched \/ (i \in Of({"exit"}) /\ outcome # "none")
    BY <2>1
  <2>2. ASSUME NEW n \in 1 .. Len(wire), wire[n] = i
        PROVE  \/ \E k \in 1 .. Len(wire') : wire'[k] = i
               \/ i \in Dispatched'
               \/ i \in Of({"exit"}) /\ outcome' # "none"
    <3>1. CASE n = 1
      BY <3>1, <2>2, <1>2
    <3>2. CASE n # 1
      <4>1. n - 1 \in 1 .. Len(wire') /\ wire'[n - 1] = i
        BY <3>2, <2>2, <1>2
      <4>. QED
        BY <4>1
    <3>. QED
      BY <3>1, <3>2
  <2>. QED
    BY <2>1, <2>2, <1>6 DEF WireInv
<1>. QED
  BY <1>1, <1>3, <1>4, <1>5, <1>6 DEF WireInv

LEMMA WireStep == ServerInv /\ [Next]_vars => WireInv'
<1>. SUFFICES ASSUME TypeOK, WireInv, HandlerInv, WorkInv, DrainInv, [Next]_vars
              PROVE  WireInv'
  BY DEF ServerInv
<1>. USE Sent, Kinds
<1>1. ASSUME NEW k \in Kind, Send(k)
      PROVE  WireInv'
  <2>1. /\ kind' = Append(kind, k) /\ wire' = Append(wire, Len(kind) + 1) /\ input = "open" /\ scope = "open"
        /\ UNCHANGED <<input, handler, outcome, scope>>
    BY <1>1 DEF Send, ending
  <2>2. \A kinds : Of(kinds)' = Of(kinds) \cup IF k \in kinds THEN {Len(kind) + 1} ELSE {}
    BY <2>1, SentKept
  <2>3. wire \in Seq(Nat)
    <3>1. Of(Kind) \cup {0} \subseteq Nat
      OBVIOUS
    <3>. QED
      BY <3>1, SeqGrows DEF TypeOK
  <2>4. /\ Len(wire') = Len(wire) + 1 /\ Len(wire) \in Nat /\ \A n \in 1 .. Len(wire) : wire'[n] = wire[n]
        /\ wire'[Len(wire) + 1] = Len(kind) + 1
    BY <2>1, <2>3, Appended
  <2>5. \A n \in 1 .. Len(wire) : wire[n] \in 1 .. Len(kind)
    <3>1. \A n \in 1 .. Len(wire) : wire[n] \in Of(Kind) \cup {0}
      BY DEF TypeOK
    <3>. QED
      BY <3>1, <2>1 DEF WireInv
  <2>6. Dispatched' = Dispatched /\ \A i \in Dispatched : i \in 1 .. Len(kind)
    BY <2>1 DEF Dispatched, HandlerInv
  <2>7. \A n \in 1 .. Len(wire') : \A m \in 1 .. n - 1 :
          wire'[m] # Sentinel /\ (wire'[n] # Sentinel => wire'[m] < wire'[n])
    BY <2>4, <2>5 DEF WireInv
  <2>8. \A n \in 1 .. Len(wire') : \A i \in Dispatched' : wire'[n] # Sentinel => i < wire'[n]
    BY <2>4, <2>5, <2>6 DEF WireInv
  <2>9. \A n \in 1 .. Len(wire') : wire'[n] = Sentinel => input' # "open"
    BY <2>4, <2>5
  <2>10. ASSUME NEW i \in Of(Kind)'
         PROVE  \/ \E n \in 1 .. Len(wire') : wire'[n] = i
                \/ i \in Dispatched'
                \/ i \in Of({"exit"})' /\ outcome' # "none"
    <3>1. CASE i = Len(kind) + 1
      BY <3>1, <2>4
    <3>2. CASE i # Len(kind) + 1
      <4>1. i \in Of(Kind)
        BY <3>2, <2>2
      <4>2. \/ \E n \in 1 .. Len(wire) : wire[n] = i
            \/ i \in Dispatched
            \/ i \in Of({"exit"}) /\ outcome # "none"
        BY <4>1, <2>1 DEF WireInv
      <4>3. ASSUME NEW n \in 1 .. Len(wire), wire[n] = i
            PROVE  n \in 1 .. Len(wire') /\ wire'[n] = i
        BY <4>3, <2>4
      <4>. QED
        BY <4>2, <4>3, <2>6, <2>2, <2>1
    <3>. QED
      BY <3>1, <3>2
  <2>. QED
    BY <2>7, <2>8, <2>9, <2>10 DEF WireInv
<1>2. ASSUME NEW how \in {"ended", "cut"}, InputEnds(how)
      PROVE  WireInv'
  <2>1. /\ wire' = wire \/ wire' = Append(wire, Sentinel)
        /\ UNCHANGED <<kind, handler, outcome, scope>>
        /\ input' # "open" /\ input = "open"
    BY <1>2 DEF InputEnds
  <2>2. wire \in Seq(Nat)
    <3>1. Of(Kind) \cup {0} \subseteq Nat
      OBVIOUS
    <3>. QED
      BY <3>1, SeqGrows DEF TypeOK
  <2>3. Dispatched' = Dispatched /\ \A kinds : Of(kinds)' = Of(kinds)
    BY <2>1 DEF Dispatched, Of
  <2>4. CASE wire' = wire
    BY <2>4, <2>1, <2>3 DEF WireInv
  <2>5. CASE wire' = Append(wire, Sentinel)
    <3>1. /\ Len(wire') = Len(wire) + 1 /\ Len(wire) \in Nat /\ \A n \in 1 .. Len(wire) : wire'[n] = wire[n]
          /\ wire'[Len(wire) + 1] = 0
      BY <2>5, <2>2, Appended
    <3>2. \A n \in 1 .. Len(wire') : \A m \in 1 .. n - 1 :
            wire'[m] # Sentinel /\ (wire'[n] # Sentinel => wire'[m] < wire'[n])
      BY <3>1, <2>1 DEF WireInv
    <3>3. \A n \in 1 .. Len(wire') : \A i \in Dispatched' : wire'[n] # Sentinel => i < wire'[n]
      BY <3>1, <2>3 DEF WireInv
    <3>4. ASSUME scope' = "open", NEW i \in Of(Kind)'
          PROVE  \/ \E n \in 1 .. Len(wire') : wire'[n] = i
                 \/ i \in Dispatched'
                 \/ i \in Of({"exit"})' /\ outcome' # "none"
      <4>1. \/ \E n \in 1 .. Len(wire) : wire[n] = i
            \/ i \in Dispatched
            \/ i \in Of({"exit"}) /\ outcome # "none"
        BY <3>4, <2>1, <2>3 DEF WireInv
      <4>2. ASSUME NEW n \in 1 .. Len(wire), wire[n] = i
            PROVE  n \in 1 .. Len(wire') /\ wire'[n] = i
        BY <4>2, <3>1
      <4>. QED
        BY <4>1, <4>2, <2>1, <2>3
    <3>. QED
      BY <3>2, <3>3, <3>4, <2>1 DEF WireInv
  <2>. QED
    BY <2>1, <2>4, <2>5
<1>3. CASE DispatchHandled
  <2>1. /\ wire # <<>> /\ First \in Handled /\ wire' = Tail(wire) /\ handler' = [handler EXCEPT ![First] = "ready"]
        /\ UNCHANGED <<kind, input, scope, outcome>>
    BY <1>3 DEF DispatchHandled, Handled, client, ending
  <2>2. First \in Messages /\ Dispatched' = Dispatched \cup {First}
    BY <2>1 DEF Dispatched, TypeOK
  <2>. QED
    BY <2>1, <2>2, WireTail
<1>4. CASE DispatchExit
  <2>1. /\ wire # <<>> /\ First \in Of({"exit"}) /\ wire' = Tail(wire)
        /\ UNCHANGED <<kind, input, scope, handler>> /\ outcome' # "none"
    BY <1>4 DEF DispatchExit, Finish, client
  <2>2. Dispatched' = Dispatched
    BY <2>1 DEF Dispatched
  <2>. QED
    BY <2>1, <2>2, WireTail
<1>5. CASE DispatchSentinel
  <2>1. /\ wire # <<>> /\ First = 0 /\ wire' = Tail(wire)
        /\ UNCHANGED <<kind, input, scope, handler, outcome>>
    BY <1>5 DEF DispatchSentinel, client
  <2>2. Dispatched' = Dispatched
    BY <2>1 DEF Dispatched
  <2>. QED
    BY <2>1, <2>2, WireTail
<1>6. ASSUME NEW i \in Messages, Handle(i)
      PROVE  WireInv'
  <2>1. UNCHANGED <<kind, input, scope, wire, outcome>> /\ handler[i] # "none"
    BY <1>6 DEF Handle, Enqueue, AskStarts, AskAnswers, ShutdownStarts, ShutdownAnswers, Marked, Respond, Starts, client, ending
  <2>2. \E h \in {"over", "asking", "draining"} : handler' = [handler EXCEPT ![i] = h]
    BY <1>6 DEF Handle, Enqueue, AskStarts, AskAnswers, ShutdownStarts, ShutdownAnswers, Marked, Respond
  <2>3. Dispatched' = Dispatched
    BY <2>1, <2>2 DEF Dispatched, TypeOK
  <2>. QED
    BY <2>1, <2>3, WireStays
<1>7. CASE Mark
  <2>1. UNCHANGED <<kind, input, scope, wire, outcome>> /\ handler' = [handler EXCEPT ![Head(work)] = "settling"]
        /\ Head(work) \in Messages
    BY <1>7 DEF Mark, client, ending
  <2>2. handler[Head(work)] # "none"
    <3>1. work # <<>>
      BY <1>7 DEF Mark
    <3>2. Head(work) = work[1] /\ 1 \in 1 .. Len(work)
      BY <3>1, TakenOff DEF TypeOK
    <3>. QED
      BY <3>2 DEF WorkInv, Begun
  <2>3. Dispatched' = Dispatched
    BY <2>1, <2>2 DEF Dispatched, TypeOK
  <2>. QED
    BY <2>1, <2>3, WireStays
<1>8. CASE Drains
  <2>1. UNCHANGED <<kind, input, scope, wire, handler>> /\ (outcome # "none" => outcome' # "none")
    BY <1>8 DEF Drains, Expire, Emptied, Drained, Finish, client
  <2>2. Dispatched' = Dispatched
    BY <2>1 DEF Dispatched
  <2>. QED
    BY <2>1, <2>2, WireStays
<1>9. CASE CloseScope
  <2>1. wire' = <<>> /\ scope' = "closed"
    BY <1>9 DEF CloseScope
  <2>. QED
    BY <2>1 DEF WireInv
<1>10. CASE UNCHANGED vars \/ StopReading \/ (\E i \in Messages : Written(i)) \/ Work \/ WorkDies \/ Chain
  <2>1. UNCHANGED <<kind, input, scope, wire, handler, outcome>>
    BY <1>10 DEF vars, StopReading, Written, Work, WorkDies, Chain, Claim, RunEnds, Continue, client, ending
  <2>2. Dispatched' = Dispatched
    BY <2>1 DEF Dispatched
  <2>. QED
    BY <2>1, <2>2, WireStays
<1>. QED
  BY <1>1, <1>2, <1>3, <1>4, <1>5, <1>6, <1>7, <1>8, <1>9, <1>10 DEF Next, Client, Dispatch, Worker

----------------------------------------------------------------------------
(* The handlers: dispatched, and begun, in the order they were sent. *)
\* A step that neither dispatches nor moves a handler leaves their order.
LEMMA HandlersStay ==
  ASSUME TypeOK, HandlerInv, UNCHANGED <<kind, handler, scope>>,
         \A i \in Messages : reply[i] # "none" => reply'[i] # "none"
  PROVE  HandlerInv'
<1>1. \A kinds : Of(kinds)' = Of(kinds)
  BY DEF Of
<1>. QED
  BY <1>1, Sent DEF HandlerInv, Dispatched, Begun, Handled

LEMMA HandlerStep == ServerInv /\ [Next]_vars => HandlerInv'
<1>. SUFFICES ASSUME TypeOK, WireInv, HandlerInv, WorkInv, DrainInv, [Next]_vars
              PROVE  HandlerInv'
  BY DEF ServerInv
<1>. USE Sent, Kinds
<1>1. ASSUME NEW k \in Kind, Send(k)
      PROVE  HandlerInv'
  <2>1. kind' = Append(kind, k) /\ UNCHANGED <<handler, reply, scope>>
    BY <1>1 DEF Send, ending
  <2>2. \A kinds : Of(kinds)' = Of(kinds) \cup IF k \in kinds THEN {Len(kind) + 1} ELSE {}
    BY <2>1, SentKept
  <2>3. Dispatched' = Dispatched /\ Begun' = Begun /\ Begun \subseteq Dispatched
        /\ \A i \in Dispatched : i \in 1 .. Len(kind)
    BY <2>1 DEF Dispatched, Begun, HandlerInv
  <2>4. Handled \subseteq Handled' /\ \A j \in 1 .. Len(kind) : j \in Handled' => j \in Handled
    BY <2>2 DEF Handled
  <2>5. Dispatched' \subseteq Handled' /\ \A i \in Dispatched' : \A j \in 1 .. i - 1 : j \in Handled' => j \in Dispatched'
    BY <2>3, <2>4 DEF HandlerInv
  <2>6. \A i \in Begun' : \A j \in 1 .. i - 1 : j \in Handled' => j \in Begun'
    BY <2>3, <2>4 DEF HandlerInv
  <2>7. \A i \in Messages : i \notin 1 .. Len(kind) => handler[i] = "none"
    BY <2>3 DEF Dispatched
  <2>8. \A i \in Of({"note"})' : handler'[i] \in {"none", "ready", "over"}
    <3>. TAKE i \in Of({"note"})'
    <3>1. CASE i \in Of({"note"})
      BY <3>1, <2>1 DEF HandlerInv
    <3>2. CASE i \notin Of({"note"})
      <4>1. i = Len(kind) + 1
        BY <3>2, <2>2
      <4>2. handler[i] = "none" \/ i \notin Messages
        BY <4>1, <2>7
      <4>3. i \in 1 .. Len(kind)' /\ Len(kind)' = Len(kind) + 1 /\ TypeOK'
        BY <4>1, SentKept, TypeStep, <2>1
      <4>. QED
        BY <4>2, <4>3, <2>1 DEF TypeOK
    <3>. QED
      BY <3>1, <3>2
  <2>9. /\ \A i \in Messages : handler'[i] = "asking" => i \in Of({"ask"})'
        /\ \A i \in Messages : handler'[i] \in {"draining", "settling"} => i \in Of({"shutdown"})'
    BY <2>1, <2>2 DEF HandlerInv
  <2>10. \A i \in Of({"ask", "shutdown"})' : handler'[i] = "over" => i \in Of({"ask", "shutdown"})
    <3>. SUFFICES ASSUME NEW i \in Of({"ask", "shutdown"})', handler'[i] = "over", i \notin Of({"ask", "shutdown"})
                  PROVE  FALSE
      OBVIOUS
    <3>1. i = Len(kind) + 1
      BY <2>2
    <3>2. i \in Messages
      BY <3>1, SentKept, TypeStep, <2>1 DEF TypeOK
    <3>. QED
      BY <3>1, <3>2, <2>7, <2>1
  <2>. QED
    BY <2>1, <2>5, <2>6, <2>8, <2>9, <2>10 DEF HandlerInv
<1>2. CASE DispatchHandled
  <2>. DEFINE f == First
  <2>1. /\ wire # <<>> /\ f \in Handled /\ handler' = [handler EXCEPT ![f] = "ready"]
        /\ UNCHANGED <<kind, scope, reply>>
    BY <1>2 DEF DispatchHandled, Handled, client, ending
  <2>2. f = wire[1] /\ Len(wire) \in Nat \ {0} /\ scope = "open"
    BY <2>1, TakenOff DEF TypeOK, First, DrainInv
  <2>. HIDE DEF f
  <2>3. f \notin Dispatched /\ f \in Messages
    <3>1. 1 \in 1 .. Len(wire) /\ f # 0
      BY <2>1, <2>2
    <3>2. \A i \in Dispatched : i < f
      BY <3>1, <2>2 DEF WireInv
    <3>. QED
      BY <3>2, <2>1
  <2>4. Dispatched' = Dispatched \cup {f} /\ Begun' = Begun /\ Handled' = Handled /\ \A kinds : Of(kinds)' = Of(kinds)
    BY <2>1, <2>3 DEF Dispatched, Begun, Handled, TypeOK
  <2>5. \A j \in 1 .. f - 1 : j \in Handled => j \in Dispatched
    <3>. SUFFICES ASSUME NEW j \in 1 .. f - 1, j \in Handled
                  PROVE  j \in Dispatched
      OBVIOUS
    <3>1. ASSUME NEW n \in 1 .. Len(wire), wire[n] = j
          PROVE  FALSE
      <4>1. n # 1
        BY <3>1, <2>2, <2>3
      <4>2. 1 \in 1 .. n - 1
        BY <4>1
      <4>. QED
        BY <4>2, <3>1, <2>2, <2>3 DEF WireInv
    <3>. QED
      BY <3>1, <2>2 DEF WireInv
  <2>6. \A i \in Messages : i # f => handler'[i] = handler[i]
    BY <2>1 DEF TypeOK
  <2>7. handler'[f] = "ready"
    BY <2>1, <2>3 DEF TypeOK
  <2>8. /\ Dispatched' \subseteq Handled'
        /\ \A i \in Dispatched' : \A j \in 1 .. i - 1 : j \in Handled' => j \in Dispatched'
    BY <2>4, <2>5, <2>1 DEF HandlerInv
  <2>9. \A i \in Of({"note"})' : handler'[i] \in {"none", "ready", "over"}
    BY <2>4, <2>6, <2>7 DEF HandlerInv
  <2>. QED
    BY <2>1, <2>2, <2>4, <2>6, <2>7, <2>8, <2>9 DEF HandlerInv
<1>3. ASSUME NEW i \in Messages, NEW h \in {"over", "asking", "draining"},
             Starts(i), handler' = [handler EXCEPT ![i] = h], UNCHANGED <<kind, reply, scope>>,
             h = "over" => i \in Of({"note"}), h = "asking" => i \in Of({"ask"}), h = "draining" => i \in Of({"shutdown"})
      PROVE  HandlerInv'
  <2>1. Dispatched' = Dispatched /\ Begun' = Begun \cup {i} /\ Handled' = Handled /\ \A kinds : Of(kinds)' = Of(kinds)
    BY <1>3 DEF Starts, Dispatched, Begun, Handled, TypeOK
  <2>2. \A j \in 1 .. i - 1 : j \in Handled => j \in Begun
    BY <1>3 DEF Starts, HandlerInv, Dispatched, Begun
  <2>3. /\ Dispatched' \subseteq Handled'
        /\ \A k \in Dispatched' : \A j \in 1 .. k - 1 : j \in Handled' => j \in Dispatched'
    BY <2>1 DEF HandlerInv
  <2>4. \A k \in Begun' : \A j \in 1 .. k - 1 : j \in Handled' => j \in Begun'
    BY <2>1, <2>2 DEF HandlerInv
  <2>5. handler'[i] = h /\ \A k \in Messages : k # i => handler'[k] = handler[k]
    BY <1>3 DEF TypeOK
  <2>6. \A k \in Of({"note"})' : handler'[k] \in {"none", "ready", "over"}
    BY <2>1, <2>5, <1>3 DEF HandlerInv
  <2>7. /\ \A k \in Messages : handler'[k] = "asking" => k \in Of({"ask"})'
        /\ \A k \in Messages : handler'[k] \in {"draining", "settling"} => k \in Of({"shutdown"})'
    BY <2>1, <2>5, <1>3 DEF HandlerInv
  <2>8. scope' = "open" => \A k \in Of({"ask", "shutdown"})' : handler'[k] = "over" => reply'[k] # "none"
    BY <2>1, <2>5, <1>3 DEF HandlerInv
  <2>. QED
    BY <2>3, <2>4, <2>6, <2>7, <2>8 DEF HandlerInv
<1>4. ASSUME NEW i \in Messages, Respond(i), handler[i] \in {"asking", "settling"}, UNCHANGED <<kind, scope>>
      PROVE  HandlerInv'
  <2>1. /\ handler'[i] = "over" /\ reply'[i] = "writing"
        /\ \A k \in Messages : k # i => handler'[k] = handler[k] /\ reply'[k] = reply[k]
    BY <1>4 DEF Respond, TypeOK
  <2>2. Dispatched' = Dispatched /\ Begun' = Begun /\ Handled' = Handled /\ \A kinds : Of(kinds)' = Of(kinds)
    BY <2>1, <1>4 DEF Dispatched, Begun, Handled
  <2>. QED
    BY <2>1, <2>2, <1>4 DEF HandlerInv
<1>5. CASE Mark
  <2>. DEFINE h == Head(work)
  <2>1. work # <<>> /\ h \in Of({"shutdown"}) /\ handler' = [handler EXCEPT ![h] = "settling"] /\ UNCHANGED <<kind, reply, scope>>
    BY <1>5 DEF Mark, client, ending
  <2>2. h \in Begun
    <3>1. h = work[1] /\ 1 \in 1 .. Len(work)
      BY <2>1, TakenOff DEF TypeOK
    <3>. QED
      BY <3>1 DEF WorkInv
  <2>. HIDE DEF h
  <2>3. handler'[h] = "settling" /\ h \in Messages /\ \A k \in Messages : k # h => handler'[k] = handler[k]
    BY <2>1 DEF TypeOK
  <2>4. Dispatched' = Dispatched /\ Begun' = Begun /\ Handled' = Handled /\ \A kinds : Of(kinds)' = Of(kinds)
    BY <2>1, <2>2, <2>3 DEF Dispatched, Begun, Handled
  <2>5. h \notin Of({"note"})
    BY <2>1
  <2>6. \A k \in Of({"note"})' : handler'[k] \in {"none", "ready", "over"}
    BY <2>3, <2>4, <2>5 DEF HandlerInv
  <2>. QED
    BY <2>1, <2>3, <2>4, <2>6 DEF HandlerInv
<1>6. CASE CloseScope
  <2>1. /\ handler' = [i \in Messages |-> IF handler[i] = "none" THEN "none" ELSE "over"]
        /\ scope' = "closed" /\ kind' = kind
    BY <1>6 DEF CloseScope, client
  <2>2. Dispatched' = Dispatched /\ Begun' = Dispatched /\ Handled' = Handled /\ \A kinds : Of(kinds)' = Of(kinds)
    BY <2>1 DEF Dispatched, Begun, Handled
  <2>. QED
    BY <2>1, <2>2 DEF HandlerInv
<1>7. ASSUME NEW i \in Messages, Enqueue(i) \/ AskStarts(i) \/ ShutdownStarts(i)
      PROVE  HandlerInv'
  <2>1. Starts(i) /\ UNCHANGED <<kind, reply, scope>>
    BY <1>7 DEF Enqueue, AskStarts, ShutdownStarts, client, ending
  <2>2. \/ i \in Of({"note"}) /\ handler' = [handler EXCEPT ![i] = "over"]
        \/ i \in Of({"ask"}) /\ handler' = [handler EXCEPT ![i] = "asking"]
        \/ i \in Of({"shutdown"}) /\ handler' = [handler EXCEPT ![i] = "draining"]
    BY <1>7 DEF Enqueue, AskStarts, ShutdownStarts, Marked
  <2>. QED
    BY <2>1, <2>2, <1>3
<1>8. ASSUME NEW i \in Messages, AskAnswers(i) \/ ShutdownAnswers(i)
      PROVE  HandlerInv'
  <2>1. Respond(i) /\ handler[i] \in {"asking", "settling"} /\ UNCHANGED <<kind, scope>>
    BY <1>8 DEF AskAnswers, ShutdownAnswers, client, ending
  <2>. QED
    BY <2>1, <1>4
<1>9. ASSUME NEW i \in Messages, Written(i)
      PROVE  HandlerInv'
  <2>1. UNCHANGED <<kind, handler, scope>> /\ reply' = [reply EXCEPT ![i] = "written"]
    BY <1>9 DEF Written, client, ending
  <2>2. \A k \in Messages : reply[k] # "none" => reply'[k] # "none"
    BY <2>1 DEF TypeOK
  <2>. QED
    BY <2>1, <2>2, HandlersStay
<1>10. CASE \/ UNCHANGED vars \/ StopReading \/ Work \/ WorkDies \/ Chain \/ Drains
            \/ (\E how \in {"ended", "cut"} : InputEnds(how)) \/ DispatchExit \/ DispatchSentinel
  <2>1. UNCHANGED <<kind, handler, scope, reply>>
    BY <1>10 DEF vars, StopReading, Work, WorkDies, Chain, Claim, RunEnds, Continue, Drains, Expire, Emptied, Drained,
                 InputEnds, DispatchExit, DispatchSentinel, client, ending
  <2>. QED
    BY <2>1, HandlersStay
<1>. QED
  BY <1>1, <1>2, <1>5, <1>6, <1>7, <1>8, <1>9, <1>10 DEF Next, Client, Dispatch, Worker, Handle

----------------------------------------------------------------------------
(* The queue: in the order of the handlers that filled it. *)
LEMMA WorkStays ==
  ASSUME TypeOK, WorkInv, UNCHANGED <<kind, work>>, Begun \subseteq Begun',
         \A i \in Messages : handler'[i] = "settling" => handler[i] = "settling",
         \A i \in Messages : handler[i] = "draining" => handler'[i] = "draining",
         slot' = "idle" => owed' = {} /\ running' = {}, slot' = "pending" => running' = {}
  PROVE  WorkInv'
<1>1. \A kinds : Of(kinds)' = Of(kinds)
  BY DEF Of
<1>. QED
  BY <1>1, Sent DEF WorkInv

\* The first unit of work comes off the queue.
LEMMA WorkTail ==
  ASSUME TypeOK, WorkInv, work # <<>>, work' = Tail(work), kind' = kind, Begun \subseteq Begun',
         \A i \in Messages : handler'[i] = "settling" => handler[i] = "settling" \/ i = work[1],
         \A i \in Messages : i # work[1] => handler'[i] = handler[i],
         slot' = "idle" => owed' = {} /\ running' = {}, slot' = "pending" => running' = {}
  PROVE  WorkInv'
<1>1. /\ Len(work) \in Nat \ {0} /\ Len(work') = Len(work) - 1
      /\ \A n \in 1 .. Len(work) - 1 : work'[n] = work[n + 1]
      /\ \A n \in 1 .. Len(work) : work[n] \in Messages
  BY TakenOff, Sent DEF TypeOK
<1>2. \A kinds : Of(kinds)' = Of(kinds)
  BY DEF Of
<1>3. \A n \in 1 .. Len(work') : n + 1 \in 1 .. Len(work) /\ work'[n] = work[n + 1] /\ work[1] < work[n + 1] /\ work'[n] # work[1]
  <2>. TAKE n \in 1 .. Len(work')
  <2>1. n + 1 \in 1 .. Len(work) /\ work'[n] = work[n + 1] /\ 1 \in 1 .. (n + 1) - 1 /\ 1 \in 1 .. Len(work)
    BY <1>1
  <2>2. work[1] < work[n + 1]
    BY <2>1 DEF WorkInv
  <2>. QED
    BY <2>1, <2>2, <1>1
<1>4. \A n \in 1 .. Len(work') : \A m \in 1 .. n - 1 : work'[m] < work'[n]
  <2>. SUFFICES ASSUME NEW n \in 1 .. Len(work'), NEW m \in 1 .. n - 1
                PROVE  work'[m] < work'[n]
    OBVIOUS
  <2>1. n + 1 \in 1 .. Len(work) /\ m + 1 \in 1 .. (n + 1) - 1 /\ work'[n] = work[n + 1] /\ work'[m] = work[m + 1]
    BY <1>1
  <2>. QED
    BY <2>1 DEF WorkInv
<1>5. \A n \in 1 .. Len(work') : work'[n] \in Begun'
  BY <1>3 DEF WorkInv
<1>6. \A n \in 1 .. Len(work') : work'[n] \in Of({"shutdown"})' => handler'[work'[n]] = "draining"
  <2>. SUFFICES ASSUME NEW n \in 1 .. Len(work'), work'[n] \in Of({"shutdown"})
                PROVE  handler'[work'[n]] = "draining"
    BY <1>2
  <2>1. handler[work[n + 1]] = "draining" /\ work[n + 1] \in Messages /\ work[n + 1] # work[1]
    BY <1>1, <1>3 DEF WorkInv
  <2>. QED
    BY <2>1, <1>3
<1>7. ASSUME NEW i \in Messages, handler'[i] = "settling", NEW n \in 1 .. Len(work')
      PROVE  i < work'[n]
  <2>1. CASE i = work[1]
    BY <2>1, <1>3
  <2>2. CASE handler[i] = "settling"
    BY <2>2, <1>3 DEF WorkInv
  <2>. QED
    BY <2>1, <2>2, <1>7
<1>. QED
  BY <1>4, <1>5, <1>6, <1>7 DEF WorkInv

LEMMA WorkStep == ServerInv /\ [Next]_vars => WorkInv'
<1>. SUFFICES ASSUME TypeOK, WireInv, HandlerInv, WorkInv, DrainInv, [Next]_vars
              PROVE  WorkInv'
  BY DEF ServerInv
<1>. USE Sent, Kinds
<1>0. slot = "idle" => owed = {} /\ running = {}
  BY DEF WorkInv
<1>00. slot = "pending" => running = {}
  BY DEF WorkInv
<1>1. ASSUME NEW k \in Kind, Send(k)
      PROVE  WorkInv'
  <2>1. kind' = Append(kind, k) /\ UNCHANGED <<handler, work, slot, owed, running>>
    BY <1>1 DEF Send, session
  <2>2. \A kinds : Of(kinds)' = Of(kinds) \cup IF k \in kinds THEN {Len(kind) + 1} ELSE {}
    BY <2>1, SentKept
  <2>3. Begun' = Begun /\ \A n \in 1 .. Len(work) : work[n] \in 1 .. Len(kind)
    BY <2>1 DEF Begun, TypeOK
  <2>4. \A n \in 1 .. Len(work) : work[n] \in Of({"shutdown"})' => work[n] \in Of({"shutdown"})
    BY <2>2, <2>3
  <2>. QED
    BY <2>1, <2>3, <2>4 DEF WorkInv
<1>2. ASSUME NEW i \in Messages, Enqueue(i) \/ ShutdownStarts(i)
      PROVE  WorkInv'
  <2>1. /\ work' = Append(work, i) /\ Starts(i) /\ i \in Handled
        /\ UNCHANGED <<kind, slot, owed, running>>
        /\ i \in Of({"note"}) => handler' = [handler EXCEPT ![i] = "over"]
        /\ i \in Of({"shutdown"}) => handler' = [handler EXCEPT ![i] = "draining"]
    BY <1>2 DEF Enqueue, ShutdownStarts, Marked, client, session
  <2>2. \/ i \in Of({"note"}) /\ handler' = [handler EXCEPT ![i] = "over"]
        \/ i \in Of({"shutdown"}) /\ handler' = [handler EXCEPT ![i] = "draining"]
    BY <1>2 DEF Enqueue, ShutdownStarts, Marked
  <2>3. /\ Len(work) \in Nat /\ Len(work') = Len(work) + 1 /\ work'[Len(work) + 1] = i
        /\ \A n \in 1 .. Len(work) : work'[n] = work[n] /\ work[n] \in Messages
    <3>1. work \in Seq(Messages)
      BY SeqGrows DEF TypeOK
    <3>2. Len(work) \in Nat /\ \A n \in 1 .. Len(work) : work[n] \in Messages
      BY <3>1, ElementOfSeq, LenProperties
    <3>3. /\ Len(work') = Len(work) + 1 /\ work'[Len(work) + 1] = i
          /\ \A n \in 1 .. Len(work) : work'[n] = work[n]
      BY <3>1, <2>1, Appended
    <3>. QED
      BY <3>2, <3>3
  <2>40. handler[i] = "ready" /\ (handler' = [handler EXCEPT ![i] = "over"] \/ handler' = [handler EXCEPT ![i] = "draining"])
    BY <2>1, <2>2 DEF Starts
  <2>4. /\ i \notin Begun /\ Begun' = Begun \cup {i} /\ handler[i] = "ready" /\ handler'[i] \in {"over", "draining"}
        /\ \A k \in Messages : k # i => handler'[k] = handler[k]
    <3>1. /\ handler'[i] \in {"over", "draining"}
          /\ \A k \in Messages : k # i => handler'[k] = handler[k]
      BY <2>40 DEF TypeOK
    <3>. QED
      BY <3>1, <2>40 DEF Begun
  <2>5. \A k \in Begun : k < i
    <3>. SUFFICES ASSUME NEW k \in Begun
                  PROVE  k < i
      OBVIOUS
    <3>1. k \in Messages /\ k # i
      BY <2>4 DEF Begun
    <3>2. i < k => i \in 1 .. k - 1
      BY <3>1
    <3>. QED
      BY <3>1, <3>2, <2>1, <2>4 DEF HandlerInv
  <2>6. \A kinds : Of(kinds)' = Of(kinds)
    BY <2>1
  <2>7. \A n \in 1 .. Len(work') : work'[n] \in Begun' /\ \A m \in 1 .. n - 1 : work'[m] < work'[n]
    <3>. TAKE n \in 1 .. Len(work')
    <3>1. CASE n = Len(work) + 1
      <4>1. \A m \in 1 .. n - 1 : m \in 1 .. Len(work) /\ work[m] \in Begun
        BY <3>1, <2>3 DEF WorkInv
      <4>. QED
        BY <4>1, <3>1, <2>3, <2>4, <2>5
    <3>2. CASE n \in 1 .. Len(work)
      <4>1. \A m \in 1 .. n - 1 : m \in 1 .. Len(work)
        BY <3>2, <2>3
      <4>2. work[n] \in Begun /\ \A m \in 1 .. n - 1 : work[m] < work[n]
        BY <3>2 DEF WorkInv
      <4>. QED
        BY <4>1, <4>2, <3>2, <2>3, <2>4
    <3>. QED
      BY <3>1, <3>2, <2>3
  <2>8. \A n \in 1 .. Len(work') : work'[n] \in Of({"shutdown"})' => handler'[work'[n]] = "draining"
    <3>. SUFFICES ASSUME NEW n \in 1 .. Len(work'), work'[n] \in Of({"shutdown"})
                  PROVE  handler'[work'[n]] = "draining"
      BY <2>6
    <3>1. CASE n = Len(work) + 1
      <4>1. work'[n] = i
        BY <3>1, <2>3
      <4>2. i \in Of({"shutdown"})
        BY <4>1
      <4>. QED
        BY <4>1, <4>2, <2>1 DEF TypeOK
    <3>2. CASE n \in 1 .. Len(work)
      <4>1. work'[n] = work[n] /\ work[n] \in Begun /\ work[n] \in Messages
        BY <3>2, <2>3 DEF WorkInv
      <4>2. handler[work[n]] = "draining" /\ work[n] # i
        BY <4>1, <3>2, <2>4 DEF WorkInv
      <4>. QED
        BY <4>1, <4>2, <2>4
    <3>. QED
      BY <3>1, <3>2, <2>3
  <2>9. \A k \in Messages : handler'[k] = "settling" => \A n \in 1 .. Len(work') : k < work'[n]
    <3>. SUFFICES ASSUME NEW k \in Messages, handler'[k] = "settling", NEW n \in 1 .. Len(work')
                  PROVE  k < work'[n]
      OBVIOUS
    <3>1. handler[k] = "settling" /\ k \in Begun
      BY <2>4 DEF Begun
    <3>2. CASE n = Len(work) + 1
      BY <3>1, <3>2, <2>3, <2>5
    <3>3. CASE n \in 1 .. Len(work)
      BY <3>1, <3>3, <2>3 DEF WorkInv
    <3>. QED
      BY <3>2, <3>3, <2>3
  <2>. QED
    BY <2>1, <2>7, <2>8, <2>9, <1>0, <1>00 DEF WorkInv
<1>3. ASSUME NEW i \in Messages, AskStarts(i) \/ AskAnswers(i) \/ ShutdownAnswers(i)
      PROVE  WorkInv'
  <2>1. UNCHANGED <<kind, work, slot, owed, running>> /\ handler[i] \notin {"none", "draining"}
    BY <1>3 DEF AskStarts, AskAnswers, ShutdownAnswers, Starts, client, session
  <2>2. \E h \in {"over", "asking"} : handler' = [handler EXCEPT ![i] = h]
    BY <1>3 DEF AskStarts, AskAnswers, ShutdownAnswers, Respond
  <2>3. Begun \subseteq Begun'
    BY <2>1, <2>2 DEF Begun, TypeOK
  <2>4. /\ \A k \in Messages : handler'[k] = "settling" => handler[k] = "settling"
        /\ \A k \in Messages : handler[k] = "draining" => handler'[k] = "draining"
    BY <2>1, <2>2 DEF TypeOK
  <2>. QED
    BY <2>1, <2>3, <2>4, <1>0, <1>00, WorkStays
<1>4. CASE DispatchHandled
  <2>. DEFINE f == First
  <2>1. /\ wire # <<>> /\ handler' = [handler EXCEPT ![f] = "ready"]
        /\ UNCHANGED <<kind, work, slot, owed, running>> /\ f \in Handled
    BY <1>4 DEF DispatchHandled, Handled, client, session
  <2>2. f = wire[1] /\ 1 \in 1 .. Len(wire) /\ f # 0
    BY <2>1, TakenOff DEF TypeOK, First
  <2>. HIDE DEF f
  <2>3. f \in Messages /\ handler[f] = "none"
    <3>1. \A i \in Dispatched : i < f
      BY <2>2 DEF WireInv
    <3>. QED
      BY <3>1, <2>1 DEF Dispatched
  <2>4. Begun \subseteq Begun'
    BY <2>1, <2>3 DEF Begun, TypeOK
  <2>5. /\ \A k \in Messages : handler'[k] = "settling" => handler[k] = "settling"
        /\ \A k \in Messages : handler[k] = "draining" => handler'[k] = "draining"
    BY <2>1, <2>3 DEF TypeOK
  <2>. QED
    BY <2>1, <2>4, <2>5, <1>0, <1>00, WorkStays
<1>5. CASE Work \/ WorkDies
  <2>1. work # <<>> /\ work' = Tail(work) /\ UNCHANGED <<kind, handler, running>>
    BY <1>5 DEF Work, WorkDies, AfterDefect, client, session
  <2>2. /\ slot' = "idle" => owed' = {} /\ running' = {}
        /\ slot' = "pending" => running' = {}
    BY <1>5, <1>0, <1>00 DEF Work, Schedule, WorkDies, session, TypeOK
  <2>3. Begun' = Begun
    BY <2>1 DEF Begun
  <2>. QED
    BY <2>1, <2>2, <2>3, WorkTail
<1>6. CASE Mark
  <2>1. work # <<>> /\ work' = Tail(work) /\ UNCHANGED <<kind, slot, owed, running>> /\ Head(work) \in Messages
        /\ handler' = [handler EXCEPT ![Head(work)] = "settling"]
    BY <1>6 DEF Mark, client, session
  <2>2. Head(work) = work[1]
    BY <2>1, TakenOff DEF TypeOK
  <2>3. Begun \subseteq Begun'
    BY <2>1 DEF Begun, TypeOK
  <2>4. \A k \in Messages : k # work[1] => handler'[k] = handler[k]
    BY <2>1, <2>2 DEF TypeOK
  <2>. QED
    BY <2>1, <2>3, <2>4, <1>0, <1>00, WorkTail
<1>7. CASE Chain
  <2>1. UNCHANGED <<kind, handler, work>>
    BY <1>7 DEF Chain, Claim, RunEnds, Continue, client
  <2>2. /\ slot' = "idle" => owed' = {} /\ running' = {}
        /\ slot' = "pending" => running' = {}
    BY <1>7, <1>0, <1>00 DEF Chain, Claim, RunEnds, Continue, Schedule, TypeOK
  <2>3. Begun' = Begun
    BY <2>1 DEF Begun
  <2>. QED
    BY <2>1, <2>2, <2>3, WorkStays
<1>8. CASE CloseScope
  <2>1. /\ work' = <<>> /\ slot' = "idle" /\ owed' = {} /\ running' = {}
    BY <1>8 DEF CloseScope
  <2>. QED
    BY <2>1 DEF WorkInv
<1>9. CASE \/ UNCHANGED vars \/ StopReading \/ Drains \/ (\E i \in Messages : Written(i))
           \/ (\E how \in {"ended", "cut"} : InputEnds(how)) \/ DispatchExit \/ DispatchSentinel
  <2>1. UNCHANGED <<kind, handler, work, slot, owed, running>>
    BY <1>9 DEF vars, StopReading, Drains, Expire, Emptied, Drained, Written, InputEnds, DispatchExit, DispatchSentinel,
                client, session
  <2>2. Begun' = Begun
    BY <2>1 DEF Begun
  <2>. QED
    BY <2>1, <2>2, <1>0, <1>00, WorkStays
<1>. QED
  BY <1>1, <1>2, <1>3, <1>4, <1>5, <1>6, <1>7, <1>8, <1>9 DEF Next, Client, Dispatch, Worker, Handle

----------------------------------------------------------------------------
(* The drains: they begin on an empty reader, and await what is in flight. *)
Drainers == {"fallback", "sentinel"}

\* What is asked of each of them.
DrainSafe(d) ==
  ~slow => /\ drain[d].at \in {"emptying", "writing"} => wire = <<>>
           /\ drain[d].at = "writing" => InProgress = {} /\ WritesInFlight \subseteq drain[d].awaits

LEMMA DrainParts ==
  DrainInv <=> /\ input = "open" => outcome # "closed" /\ \A d \in Drainers : drain[d].at = "over"
               /\ scope = "closed" => outcome # "none" /\ wire = <<>>
               /\ \A d \in Drainers : DrainSafe(d)
               /\ ExitWins
BY DEF DrainInv, DrainSafe, Drainers

\* Nothing is in progress on a drain that awaits writes: what then moves no handler and
\* starts no write leaves the drains as they are.
LEMMA DrainStays ==
  ASSUME TypeOK, DrainInv, UNCHANGED <<kind, input, wire, slow, outcome, scope, drain>>,
         \/ InProgress # {}
         \/ handler' = handler /\ \A i \in Messages : reply'[i] = "writing" => reply[i] = "writing"
  PROVE  DrainInv'
<1>1. ExitWins'
  BY DEF DrainInv, ExitWins, Of
<1>2. InProgress = {} => InProgress' = {} /\ WritesInFlight' \subseteq WritesInFlight
  BY DEF InProgress, WritesInFlight
<1>. QED
  BY <1>1, <1>2 DEF DrainInv

\* What a step of one drain has to show.
LEMMA DrainMoves ==
  ASSUME TypeOK, WireInv, DrainInv, NEW d \in Drainers, NEW next, drain' = [drain EXCEPT ![d] = next],
         UNCHANGED <<kind, input, wire, slow, handler, reply, scope>>, input # "open",
         outcome' = outcome \/ (outcome = "none" /\ outcome' = "closed"),
         next.at \in {"emptying", "writing"} => slow \/ wire = <<>>,
         next.at = "writing" => slow \/ (InProgress = {} /\ WritesInFlight \subseteq next.awaits),
         ExitWins'
  PROVE  DrainInv'
<1>1. drain'[d] = next /\ \A e \in Drainers : e # d => drain'[e] = drain[e]
  BY DEF TypeOK, Drainers
<1>2. InProgress' = InProgress /\ WritesInFlight' = WritesInFlight
  BY DEF InProgress, WritesInFlight
<1>3. \A e \in Drainers : DrainSafe(e)'
  <2>. TAKE e \in Drainers
  <2>1. CASE e = d
    <3>1. drain'[e] = next
      BY <2>1, <1>1
    <3>. QED
      BY <3>1, <1>2 DEF DrainSafe
  <2>2. CASE e # d
    <3>1. drain'[e] = drain[e] /\ DrainSafe(e)
      BY <2>2, <1>1, DrainParts
    <3>. QED
      BY <3>1, <1>2 DEF DrainSafe
  <2>. QED
    BY <2>1, <2>2
<1>. QED
  BY <1>3 DEF DrainInv, DrainSafe, Drainers

LEMMA SecondOf == \A n \in Nat \ {0} : n # 1 => 2 \in 1 .. n /\ 1 \in 1 .. 2 - 1
OBVIOUS

LEMMA DrainStep == ServerInv /\ [Next]_vars => DrainInv'
<1>. SUFFICES ASSUME TypeOK, WireInv, HandlerInv, WorkInv, DrainInv, [Next]_vars
              PROVE  DrainInv'
  BY DEF ServerInv
<1>. USE Sent, Kinds
<1>1. ASSUME NEW k \in Kind, Send(k)
      PROVE  DrainInv'
  <2>1. /\ input = "open" /\ scope = "open" /\ UNCHANGED <<input, outcome, scope, drain>>
    BY <1>1 DEF Send, ending
  <2>. QED
    BY <2>1 DEF DrainInv, ExitWins
<1>2. ASSUME NEW how \in {"ended", "cut"}, InputEnds(how)
      PROVE  DrainInv'
  <2>1. /\ input = "open" /\ scope = "open" /\ input' # "open" /\ UNCHANGED <<outcome, scope, slow, kind>>
        /\ drain' = [drain EXCEPT !["fallback"] = Sleeping]
    BY <1>2 DEF InputEnds
  <2>2. drain'["fallback"].at = "sleeping" /\ drain'["sentinel"].at = "over"
    BY <2>1 DEF DrainInv, TypeOK, Sleeping
  <2>. QED
    BY <2>1, <2>2 DEF DrainInv, ExitWins
<1>3. CASE DispatchHandled \/ DispatchExit
  <2>1. /\ wire # <<>> /\ wire' = Tail(wire) /\ UNCHANGED <<kind, input, slow, scope, drain>>
        /\ outcome' = outcome \/ (outcome = "none" /\ outcome' = "exit")
    BY <1>3 DEF DispatchHandled, DispatchExit, Finish, client, ending
  <2>2. scope = "open"
    BY <2>1 DEF DrainInv, TypeOK
  <2>3. ExitWins'
    BY <2>1 DEF DrainInv, ExitWins
  <2>4. ~slow => \A d \in {"fallback", "sentinel"} : drain[d].at \notin {"emptying", "writing"}
    BY <2>1 DEF DrainInv
  <2>. QED
    BY <2>1, <2>2, <2>3, <2>4 DEF DrainInv
<1>4. CASE DispatchSentinel
  <2>1. /\ wire # <<>> /\ First = Sentinel /\ wire' = Tail(wire) /\ UNCHANGED <<kind, input, slow, scope, outcome>>
        /\ drain' = [fallback |-> Over, sentinel |-> IF outcome = "none" THEN SentinelDrain ELSE Over]
    BY <1>4 DEF DispatchSentinel, client
  <2>2. First = wire[1] /\ Len(wire) \in Nat \ {0}
    BY <2>1, TakenOff DEF TypeOK, First
  <2>3. Len(wire) = 1
    <3>. SUFFICES ASSUME Len(wire) # 1
                  PROVE  FALSE
      OBVIOUS
    <3>1. 2 \in 1 .. Len(wire) /\ 1 \in 1 .. 2 - 1
      BY <2>2, SecondOf, Zenon
    <3>. QED
      BY <3>1, <2>1, <2>2 DEF WireInv
  <2>4. wire' = <<>>
    <3>1. wire' \in Seq(Of(Kind) \union {0}) /\ Len(wire') = 0
      BY <2>1, <2>3, TakenOff DEF TypeOK
    <3>. QED
      BY <3>1, EmptySeq
  <2>5. input # "open"
    BY <2>1, <2>2, <2>3 DEF WireInv
  <2>6. drain'["fallback"].at = "over" /\ drain'["sentinel"].at \in {"emptying", "over"}
    BY <2>1 DEF Over, SentinelDrain
  <2>7. scope' = "open" /\ input' # "open"
    BY <2>1, <2>5 DEF DrainInv, TypeOK
  <2>8. ExitWins'
    BY <2>1 DEF DrainInv, ExitWins
  <2>. QED
    BY <2>4, <2>6, <2>7, <2>8 DEF DrainInv
<1>5. ASSUME NEW i \in Messages, Handle(i)
      PROVE  DrainInv'
  <2>1. handler[i] \notin {"none", "over"} /\ UNCHANGED <<kind, input, wire, slow, outcome, scope, drain>>
    BY <1>5 DEF Handle, Enqueue, AskStarts, AskAnswers, ShutdownStarts, ShutdownAnswers, Starts, client, ending
  <2>. QED
    BY <2>1, DrainStays DEF InProgress
<1>6. CASE Mark
  <2>1. work # <<>> /\ Head(work) \in Of({"shutdown"}) /\ UNCHANGED <<kind, input, wire, slow, outcome, scope, drain>>
    BY <1>6 DEF Mark, client, ending
  <2>2. handler[Head(work)] = "draining"
    <3>1. Head(work) = work[1] /\ 1 \in 1 .. Len(work)
      BY <2>1, TakenOff DEF TypeOK
    <3>. QED
      BY <3>1, <2>1 DEF WorkInv
  <2>. QED
    BY <2>1, <2>2, DrainStays DEF InProgress
<1>7. CASE UNCHANGED vars \/ Work \/ WorkDies \/ Chain \/ StopReading
  <2>1. UNCHANGED <<kind, input, wire, slow, outcome, scope, drain, handler, reply>>
    BY <1>7 DEF vars, Work, WorkDies, Chain, Claim, RunEnds, Continue, StopReading, client, ending
  <2>. QED
    BY <2>1, DrainStays
<1>8. ASSUME NEW i \in Messages, Written(i)
      PROVE  DrainInv'
  <2>1. UNCHANGED <<kind, input, wire, slow, outcome, scope, drain, handler>> /\ reply' = [reply EXCEPT ![i] = "written"]
    BY <1>8 DEF Written, client, ending
  <2>2. \A k \in Messages : reply'[k] = "writing" => reply[k] = "writing"
    BY <2>1 DEF TypeOK
  <2>. QED
    BY <2>1, <2>2, DrainStays
<1>9. CASE CloseScope
  <2>1. /\ outcome # "none" /\ wire' = <<>> /\ UNCHANGED <<kind, input, slow, outcome>>
        /\ drain' = [fallback |-> Over, sentinel |-> Over]
    BY <1>9 DEF CloseScope, client
  <2>2. \A d \in {"fallback", "sentinel"} : drain'[d].at = "over"
    BY <2>1 DEF Over
  <2>3. ExitWins'
    BY <2>1 DEF DrainInv, ExitWins
  <2>. QED
    BY <2>1, <2>2, <2>3 DEF DrainInv
<1>10. CASE Expire
  <2>. DEFINE next == IF sentinelSeen THEN Over ELSE [at |-> "emptying", awaits |-> {}]
  <2>1. /\ drain["fallback"].at = "sleeping" /\ (slow \/ wire = <<>>)
        /\ drain' = [drain EXCEPT !["fallback"] = next]
        /\ UNCHANGED <<kind, input, wire, slow, handler, reply, scope, outcome>>
    BY <1>10 DEF Expire, client
  <2>2. next.at \in {"over", "emptying"}
    BY DEF Over
  <2>3. input # "open" /\ "fallback" \in Drainers
    BY <2>1 DEF DrainInv, Drainers
  <2>4. ExitWins'
    BY <2>1 DEF DrainInv, ExitWins
  <2>. HIDE DEF next
  <2>. QED
    BY <2>1, <2>2, <2>3, <2>4, DrainMoves
<1>11. ASSUME NEW d \in Drainers, Emptied(d)
       PROVE  DrainInv'
  <2>. DEFINE next == [at |-> "writing", awaits |-> Awaits(d)]
  <2>1. /\ drain[d].at = "emptying" /\ InProgress = {} /\ drain' = [drain EXCEPT ![d] = next]
        /\ UNCHANGED <<kind, input, wire, slow, handler, reply, scope, outcome>>
    BY <1>11 DEF Emptied, client
  <2>2. next.at = "writing" /\ next.awaits = Awaits(d) /\ WritesInFlight \subseteq Awaits(d)
    BY DEF Awaits
  <2>3. input # "open" /\ (slow \/ wire = <<>>)
    BY <2>1 DEF DrainInv, Drainers
  <2>4. ExitWins'
    BY <2>1 DEF DrainInv, ExitWins
  <2>. HIDE DEF next
  <2>. QED
    BY <2>1, <2>2, <2>3, <2>4, DrainMoves
<1>12. ASSUME NEW d \in Drainers, Drained(d)
       PROVE  DrainInv'
  <2>1. /\ drain[d].at = "writing" /\ drain' = [drain EXCEPT ![d] = Over]
        /\ UNCHANGED <<kind, input, wire, slow, handler, reply, scope>>
        /\ outcome' = IF outcome = "none" THEN "closed" ELSE outcome
    BY <1>12 DEF Drained, Finish, client
  <2>2. Over.at = "over"
    BY DEF Over
  <2>3. input # "open" /\ (slow \/ wire = <<>>)
    BY <2>1 DEF DrainInv, Drainers
  <2>4. ExitWins'
    <3>. SUFFICES ASSUME outcome' = "closed", ~slow
                  PROVE  Of({"exit"}) = {}
      BY <2>1 DEF ExitWins
    <3>1. CASE outcome # "none"
      BY <3>1, <2>1 DEF DrainInv, ExitWins
    <3>2. CASE outcome = "none"
      <4>1. scope = "open" /\ wire = <<>> /\ Dispatched \subseteq Handled
        BY <3>2, <2>3 DEF DrainInv, TypeOK, HandlerInv
      <4>2. \A i \in Of({"exit"}) : i \in Of(Kind) /\ i \notin Dispatched
        BY <4>1
      <4>3. \A i \in Of({"exit"}) : \E n \in 1 .. Len(wire) : wire[n] = i
        BY <4>1, <4>2, <3>2 DEF WireInv
      <4>. QED
        BY <4>3, <4>1
    <3>. QED
      BY <3>1, <3>2
  <2>. QED
    BY <2>1, <2>2, <2>3, <2>4, DrainMoves
<1>. QED
  BY <1>1, <1>2, <1>3, <1>4, <1>5, <1>6, <1>7, <1>8, <1>9, <1>10, <1>11, <1>12
     DEF Next, Client, Dispatch, Worker, Handle, Drains, Drainers

----------------------------------------------------------------------------
LEMMA ServerInit == Init => ServerInv
<1>. SUFFICES ASSUME Init
              PROVE  ServerInv
  OBVIOUS
<1>1. TypeOK
  BY TypeInit
<1>2. Dispatched = {} /\ Begun = {} /\ Of(Kind) = {} /\ Of({"note"}) = {} /\ Of({"ask", "shutdown"}) = {} /\ Len(kind) = 0
  BY DEF Init, Dispatched, Begun, Of
<1>3. WireInv /\ HandlerInv /\ WorkInv
  BY <1>2 DEF Init, WireInv, HandlerInv, WorkInv, Handled
<1>4. DrainInv
  BY DEF Init, DrainInv, ExitWins, Over
<1>. QED
  BY <1>1, <1>3, <1>4 DEF ServerInv

LEMMA ServerInductive == Spec => []ServerInv
<1>1. ServerInv /\ [Next]_vars => ServerInv'
  BY TypeStep, WireStep, HandlerStep, WorkStep, DrainStep DEF ServerInv
<1>. QED
  BY ServerInit, <1>1, PTL DEF Spec

\* The types of the server's state (server.ts, reference.ts).
THEOREM TypeCorrect == Spec => []TypeOK
<1>1. ServerInv => TypeOK
  BY DEF ServerInv
<1>. QED
  BY <1>1, ServerInductive, PTL

\* An exit that reached the reader is what listen resolves with, never "closed", however
\* the input ends after it (reference.ts 100-102).
THEOREM ExitIsNeverLost == Spec => []ExitWins
<1>1. ServerInv => ExitWins
  BY DEF ServerInv, DrainInv
<1>. QED
  BY <1>1, ServerInductive, PTL

\* shutdown is answered after every notification the client sent before it has been
\* worked, and none of them is pending or in the run in progress (server.ts 94-98).
THEOREM ShutdownCoversWhatWasSent == Spec => ShutdownCovers
<1>1. ServerInv /\ [Next]_vars => [ShutdownAnswered]_vars
  <2>. SUFFICES ASSUME ServerInv, [Next]_vars
                PROVE  ShutdownAnswered
    OBVIOUS
  <2>. USE Sent, Kinds DEF ServerInv
  <2>. SUFFICES ASSUME NEW i \in Of({"shutdown"}), NEW j \in Of({"note"}), j < i,
                       handler[i] = "settling", handler'[i] = "over", scope' = "open"
                PROVE  /\ handler[j] = "over"
                       /\ j \notin Queued \union owed \union running
    BY DEF ShutdownAnswered
  <2>0. i \in Messages /\ j \in Messages /\ j \in 1 .. i - 1 /\ j \in Handled /\ i \notin Of({"note"})
    OBVIOUS
  <2>1. slot = "idle"
    <3>1. ASSUME NEW k \in Messages, Handle(k) \/ Written(k)
          PROVE  slot = "idle"
      <4>1. CASE ShutdownAnswers(k)
        BY <4>1 DEF ShutdownAnswers
      <4>2. CASE AskAnswers(k)
        <5>1. k # i /\ handler' = [handler EXCEPT ![k] = "over"]
          BY <4>2 DEF AskAnswers, Respond
        <5>. QED
          BY <5>1, <2>0 DEF TypeOK
      <4>3. CASE Enqueue(k) \/ AskStarts(k) \/ ShutdownStarts(k)
        <5>1. k # i /\ \E h \in {"over", "asking", "draining"} : handler' = [handler EXCEPT ![k] = h]
          BY <4>3 DEF Enqueue, AskStarts, ShutdownStarts, Marked, Starts
        <5>. QED
          BY <5>1, <2>0 DEF TypeOK
      <4>4. CASE Written(k)
        BY <4>4 DEF Written
      <4>. QED
        BY <3>1, <4>1, <4>2, <4>3, <4>4 DEF Handle
    <3>2. CASE DispatchHandled
      <4>1. handler' = [handler EXCEPT ![First] = "ready"]
        BY <3>2 DEF DispatchHandled
      <4>. QED
        BY <4>1, <2>0 DEF TypeOK
    <3>3. CASE Mark
      <4>1. handler' = [handler EXCEPT ![Head(work)] = "settling"]
        BY <3>3 DEF Mark
      <4>. QED
        BY <4>1, <2>0 DEF TypeOK
    <3>4. CASE CloseScope
      BY <3>4 DEF CloseScope
    <3>5. CASE UNCHANGED vars \/ Client \/ DispatchExit \/ DispatchSentinel \/ Work \/ WorkDies \/ Chain \/ Drains
      <4>1. handler' = handler
        BY <3>5 DEF vars, Client, Send, StopReading, InputEnds, DispatchExit, DispatchSentinel, Work, WorkDies,
                    Chain, Claim, RunEnds, Continue, Drains, Expire, Emptied, Drained
      <4>. QED
        BY <4>1
    <3>. QED
      BY <3>1, <3>2, <3>3, <3>4, <3>5 DEF Next, Dispatch, Worker
  <2>2. owed = {} /\ running = {}
    BY <2>1 DEF WorkInv
  <2>3. handler[j] = "over"
    <3>1. i \in Begun
      BY <2>0 DEF Begun
    <3>2. j \in Begun
      BY <3>1, <2>0 DEF HandlerInv
    <3>. QED
      BY <3>2 DEF Begun, HandlerInv
  <2>4. j \notin Queued
    <3>1. \A n \in 1 .. Len(work) : i < work[n]
      BY <2>0 DEF WorkInv
    <3>. QED
      BY <3>1, <2>0 DEF Queued
  <2>. QED
    BY <2>2, <2>3, <2>4
<1>. QED
  BY <1>1, ServerInductive, PTL DEF Spec, ShutdownCovers

\* listen resolves "closed" only when no handler is in progress and, for a client that
\* still reads, every request it sent is answered (reference.ts 98-106).
THEOREM ClosedMeansDrained == Spec => ClosedIsDrained
<1>1. ServerInv /\ [Next]_vars => [Closed]_vars
  <2>. SUFFICES ASSUME ServerInv, [Next]_vars, outcome = "none", outcome' = "closed", ~slow
                PROVE  /\ wire = <<>>
                       /\ InProgress = {}
                       /\ reads => \A i \in Of({"ask", "shutdown"}) : reply[i] = "written"
    BY DEF Closed
  <2>. USE Sent, Kinds DEF ServerInv
  <2>1. PICK d \in Drainers : Drained(d)
    BY DEF Next, vars, Client, Send, StopReading, InputEnds, ending, Dispatch, DispatchHandled, DispatchExit, Finish,
           DispatchSentinel, Handle, Enqueue, AskStarts, AskAnswers, ShutdownStarts, ShutdownAnswers, Written, Worker,
           Work, WorkDies, Mark, Chain, Claim, RunEnds, Continue, Drains, Expire, Emptied, CloseScope, Drainers
  <2>2. /\ drain[d].at = "writing" /\ WritesDone(d)
    BY <2>1 DEF Drained
  <2>3. wire = <<>> /\ InProgress = {} /\ WritesInFlight \subseteq drain[d].awaits /\ scope = "open"
    BY <2>2 DEF DrainInv, Drainers, TypeOK
  <2>4. ASSUME reads, NEW i \in Of({"ask", "shutdown"})
        PROVE  reply[i] = "written"
    <3>1. i \in Of(Kind) /\ i \in Messages /\ i \notin Of({"exit"})
      BY DEF Handled
    <3>2. i \in Dispatched
      <4>1. ~ \E n \in 1 .. Len(wire) : wire[n] = i
        BY <2>3
      <4>. QED
        BY <4>1, <3>1, <2>3 DEF WireInv
    <3>3. handler[i] = "over"
      BY <3>1, <3>2, <2>3 DEF Dispatched, InProgress
    <3>4. reply[i] \in {"writing", "written"}
      BY <3>1, <3>3, <2>3 DEF HandlerInv, TypeOK
    <3>5. CASE reply[i] = "writing"
      BY <3>5, <3>1, <2>3, <2>2, <2>4 DEF WritesInFlight, WritesDone
    <3>. QED
      BY <3>4, <3>5
  <2>. QED
    BY <2>3, <2>4
<1>. QED
  BY <1>1, ServerInductive, PTL DEF Spec, ClosedIsDrained
=============================================================================
