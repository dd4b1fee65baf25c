-------------------------- MODULE DiagnosticsProofs --------------------------
(* Theorems about Diagnostics, for any documents, sessions and number of acts. *)
EXTENDS Diagnostics, SequenceTheorems, TLAPS

----------------------------------------------------------------------------
(* Types, and what each step does to the sessions. *)
LEMMA Constants ==
  /\ Gone \in Session /\ Fresh \in Session /\ NoOverlay \in [Docs -> Text \union {Absent}]
  /\ Fresh.open /\ ~Fresh.owed /\ Fresh.run = "none" /\ Fresh.todo = {} /\ Fresh.found = {} /\ Fresh.sending = NoDoc
  /\ Fresh.published = {} /\ Fresh.overlay = NoOverlay
  /\ ~Gone.open /\ ~Gone.owed /\ Gone.run = "none" /\ Gone.todo = {} /\ Gone.found = {} /\ Gone.sending = NoDoc
  /\ Gone.published = {}
  /\ Idle.at = "idle" /\ Idle.old = NoHandle /\ Idle.uris = {}
  /\ [Fresh EXCEPT !.owed = TRUE] \in Session /\ [Fresh EXCEPT !.owed = TRUE].open /\ [Fresh EXCEPT !.owed = TRUE].owed
  /\ [Fresh EXCEPT !.owed = TRUE].run = "none" /\ [Fresh EXCEPT !.owed = TRUE].todo = {}
  /\ [Fresh EXCEPT !.owed = TRUE].found = {}
  /\ [Fresh EXCEPT !.owed = TRUE].sending = NoDoc /\ [Fresh EXCEPT !.owed = TRUE].published = {}
BY DEF Gone, Fresh, NoOverlay, Session, Idle

\* A session replaced by another.
LEMMA Put ==
  ASSUME TypeOK, NEW h \in Handles, NEW s \in Session, session' = [session EXCEPT ![h] = s]
  PROVE  session' \in [Handles -> Session] /\ session'[h] = s /\ \A g \in Handles : g # h => session'[g] = session[g]
BY DEF TypeOK

Others(h) == \A g \in Handles : g # h => session'[g] = session[g]

\* The worker as it moves along.
LEMMA Workers ==
  ASSUME TypeOK
  PROVE  \A at \in {"idle", "looked", "rebuilding", "closing", "awaiting", "clearing", "reopening", "retrying"},
            old \in Handles \union {NoHandle}, uris \in SUBSET Docs :
           /\ LET w == [worker EXCEPT !.at = at] IN w.at = at /\ w.old = worker.old /\ w.uris = worker.uris
           /\ LET w == [worker EXCEPT !.at = at, !.uris = uris] IN w.at = at /\ w.old = worker.old /\ w.uris = uris
           /\ LET w == [worker EXCEPT !.uris = uris] IN w.at = worker.at /\ w.old = worker.old /\ w.uris = uris
           /\ LET w == [Idle EXCEPT !.at = at] IN w.at = at /\ w.old = NoHandle /\ w.uris = {}
           /\ LET w == [Idle EXCEPT !.at = at, !.old = old] IN w.at = at /\ w.old = old /\ w.uris = {}
BY DEF TypeOK, Idle

Worker == [at : {"idle", "looked", "rebuilding", "closing", "awaiting", "clearing", "reopening", "retrying"},
           old : Handles \union {NoHandle}, uris : SUBSET Docs]

LEMMA WorkerTyped ==
  ASSUME TypeOK
  PROVE  /\ worker \in Worker /\ Idle \in Worker
         /\ \A at \in {"idle", "looked", "rebuilding", "closing", "awaiting", "clearing", "reopening", "retrying"},
               old \in Handles \union {NoHandle}, uris \in SUBSET Docs :
              /\ [worker EXCEPT !.at = at] \in Worker /\ [worker EXCEPT !.at = at, !.uris = uris] \in Worker
              /\ [worker EXCEPT !.uris = uris] \in Worker
              /\ [Idle EXCEPT !.at = at] \in Worker /\ [Idle EXCEPT !.at = at, !.old = old] \in Worker
<1>1. worker \in Worker /\ Idle \in Worker
  BY DEF TypeOK, Worker, Idle
<1>. QED
  BY <1>1 DEF Worker

LEMMA Runs ==
  ASSUME TypeOK, NEW h \in Handles
  PROVE  /\ BeginRun(h) => /\ session[h].open /\ session[h].owed /\ session[h].run = "none"
                           /\ session'[h].run = "reading" /\ ~session'[h].owed /\ session'[h].todo = Docs
                           /\ UNCHANGED <<session[h].open, session[h].overlay, session[h].published, session[h].found, session[h].sending>>
         /\ \A d \in Docs : Read(h, d) => /\ session[h].run = "reading" /\ d \in session[h].todo
                             /\ session'[h].todo = session[h].todo \ {d}
                             /\ session'[h].found = With(session[h].found, d, TextOf(h, d) = "bad")
                             /\ UNCHANGED <<session[h].open, session[h].overlay, session[h].published, session[h].owed, session[h].run, session[h].failed, session[h].sending>>
         /\ Fail(h) => /\ session[h].run = "reading" /\ session'[h].run = "none" /\ session'[h].todo = {} /\ session'[h].found = {}
                       /\ session'[h].failed
                       /\ UNCHANGED <<session[h].open, session[h].overlay, session[h].owed, session[h].published, session[h].sending>>
         /\ Revalidate(h) => /\ session[h].run = "reading" /\ session[h].todo = {} /\ session'[h].run = "publishing"
                             /\ session'[h].published = session[h].found /\ session'[h].found = {}
                             /\ session'[h].todo = Changed(session[h].published, session[h].found)
                             /\ UNCHANGED <<session[h].open, session[h].overlay, session[h].owed, session[h].sending>>
         /\ \A d \in Docs : Send(h, d) => /\ session[h].run = "publishing" /\ session[h].sending = NoDoc /\ d \in session[h].todo
                             /\ session'[h].todo = session[h].todo \ {d} /\ session'[h].sending = d
                             /\ UNCHANGED <<session[h].open, session[h].overlay, session[h].owed, session[h].run, session[h].published, session[h].found, session[h].failed>>
         /\ Remember(h) => /\ session[h].sending # NoDoc /\ session'[h].sending = NoDoc
                           /\ UNCHANGED <<session[h].open, session[h].overlay, session[h].owed, session[h].run, session[h].published, session[h].todo, session[h].found, session[h].failed>>
         /\ EndRun(h) => /\ session[h].run = "publishing" /\ session[h].todo = {} /\ session[h].sending = NoDoc
                         /\ session'[h].run = "none"
                         /\ UNCHANGED <<session[h].open, session[h].overlay, session[h].owed, session[h].published, session[h].todo, session[h].found, session[h].failed, session[h].sending>>
         /\ Abort(h) => /\ ~session[h].open /\ session[h].run # "none" /\ session[h].sending = NoDoc
                        /\ session'[h].run = "none" /\ session'[h].todo = {} /\ session'[h].found = {} /\ session'[h].sending = NoDoc
                        /\ UNCHANGED <<session[h].open, session[h].overlay, session[h].owed, session[h].published>>
         /\ Run(h) => session' \in [Handles -> Session] /\ Others(h)
                      /\ UNCHANGED <<outside, work, live, memory, worker, request>>
                      /\ (early' = early \/ \E d \in Docs : Send(h, d))
<1>0. session \in [Handles -> Session] /\ session[h] \in Session /\ session[h].todo \in SUBSET Docs /\ session[h].found \in SUBSET Docs
      /\ session[h].published \in SUBSET Docs
  BY DEF TypeOK, Session
<1>. DEFINE Goal == session' \in [Handles -> Session] /\ Others(h)
<1>1. PICK no \in BOOLEAN : no = FALSE
  OBVIOUS
<1>2. PICK yes \in BOOLEAN : yes = TRUE
  OBVIOUS
<1>3. ASSUME BeginRun(h)
      PROVE  /\ session'[h].run = "reading" /\ session'[h].owed = no /\ session'[h].todo = Docs
             /\ UNCHANGED <<session[h].open, session[h].overlay, session[h].published, session[h].found, session[h].sending>>
             /\ Goal
  <2>1. PICK all \in SUBSET Docs : all = Docs
    OBVIOUS
  <2>2. PICK n : n = [session[h] EXCEPT !.owed = no, !.run = "reading", !.todo = all]
    OBVIOUS
  <2>3. session' = [session EXCEPT ![h] = n]
    <3>1. session' = [session EXCEPT ![h].owed = no, ![h].run = "reading", ![h].todo = all]
      BY <1>1, <1>3, <2>1 DEF BeginRun
    <3>. QED
      BY <1>0, <2>2, <3>1
  <2>4. n \in Session
    BY <1>0, <2>2 DEF Session
  <2>5. n.owed = no /\ n.run = "reading" /\ n.todo = all
    BY <1>0, <2>2 DEF Session
  <2>6. n.open = session[h].open
    BY <1>0, <2>2 DEF Session
  <2>7. n.overlay = session[h].overlay /\ n.published = session[h].published /\ n.found = session[h].found /\ n.sending = session[h].sending
    BY <1>0, <2>2 DEF Session
  <2>8. session' \in [Handles -> Session] /\ session'[h] = n /\ Others(h)
    BY <2>3, <2>4, Put DEF Others
  <2>. QED
    BY <2>1, <2>5, <2>6, <2>7, <2>8
<1>4. ASSUME NEW d \in Docs, Read(h, d)
      PROVE  /\ session'[h].todo = session[h].todo \ {d} /\ session'[h].found = With(session[h].found, d, TextOf(h, d) = "bad")
             /\ UNCHANGED <<session[h].open, session[h].overlay, session[h].published, session[h].owed, session[h].run, session[h].failed, session[h].sending>>
             /\ Goal
  <2>1. PICK rest \in SUBSET Docs : rest = session[h].todo \ {d}
    BY <1>0
  <2>2. With(session[h].found, d, TextOf(h, d) = "bad") \in SUBSET Docs
    BY <1>0 DEF With
  <2>3. PICK found \in SUBSET Docs : found = With(session[h].found, d, TextOf(h, d) = "bad")
    BY <2>2
  <2>4. PICK n : n = [session[h] EXCEPT !.todo = rest, !.found = found]
    OBVIOUS
  <2>5. session' = [session EXCEPT ![h] = n]
    <3>1. session' = [session EXCEPT ![h].todo = rest, ![h].found = found]
      BY <1>0, <1>4, <2>1, <2>3 DEF Read
    <3>. QED
      BY <1>0, <2>4, <3>1
  <2>6. n \in Session /\ n.todo = rest /\ n.found = found
    BY <1>0, <2>4 DEF Session
  <2>7. n.open = session[h].open
    BY <1>0, <2>4 DEF Session
  <2>8. n.owed = session[h].owed
    BY <1>0, <2>4 DEF Session
  <2>9. n.failed = session[h].failed
    BY <1>0, <2>4 DEF Session
  <2>10. n.overlay = session[h].overlay /\ n.published = session[h].published /\ n.run = session[h].run /\ n.sending = session[h].sending
    BY <1>0, <2>4 DEF Session
  <2>11. session' \in [Handles -> Session] /\ session'[h] = n /\ Others(h)
    BY <2>5, <2>6, Put DEF Others
  <2>. QED
    BY <2>1, <2>3, <2>6, <2>7, <2>8, <2>9, <2>10, <2>11
<1>5. ASSUME Fail(h)
      PROVE  /\ session'[h].run = "none" /\ session'[h].todo = {} /\ session'[h].found = {} /\ session'[h].failed = yes
             /\ UNCHANGED <<session[h].open, session[h].overlay, session[h].owed, session[h].published, session[h].sending>>
             /\ Goal
  <2>1. PICK none \in SUBSET Docs : none = {}
    OBVIOUS
  <2>2. PICK n : n = [session[h] EXCEPT !.run = "none", !.todo = none, !.found = none, !.failed = yes]
    OBVIOUS
  <2>3. session' = [session EXCEPT ![h] = n]
    <3>1. session' = [session EXCEPT ![h].run = "none", ![h].todo = none, ![h].found = none, ![h].failed = yes]
      BY <1>2, <1>5, <2>1 DEF Fail
    <3>. QED
      BY <1>0, <2>2, <3>1
  <2>4. n \in Session
    BY <1>0, <2>2 DEF Session
  <2>5. n.run = "none" /\ n.todo = none /\ n.found = none /\ n.failed = yes
    BY <1>0, <2>2 DEF Session
  <2>6. n.open = session[h].open
    BY <1>0, <2>2 DEF Session
  <2>7. n.owed = session[h].owed
    BY <1>0, <2>2 DEF Session
  <2>8. n.overlay = session[h].overlay /\ n.published = session[h].published /\ n.sending = session[h].sending
    BY <1>0, <2>2 DEF Session
  <2>9. session' \in [Handles -> Session] /\ session'[h] = n /\ Others(h)
    BY <2>3, <2>4, Put DEF Others
  <2>. QED
    BY <2>1, <2>5, <2>6, <2>7, <2>8, <2>9
<1>6. ASSUME Revalidate(h)
      PROVE  /\ session'[h].run = "publishing" /\ session'[h].published = session[h].found /\ session'[h].found = {}
             /\ session'[h].todo = Changed(session[h].published, session[h].found)
             /\ UNCHANGED <<session[h].open, session[h].overlay, session[h].owed, session[h].sending>>
             /\ Goal
  <2>0. Changed(session[h].published, session[h].found) \in SUBSET Docs
    BY <1>0 DEF Changed
  <2>1. PICK none \in SUBSET Docs, found \in SUBSET Docs, todo \in SUBSET Docs :
          none = {} /\ found = session[h].found /\ todo = Changed(session[h].published, session[h].found)
    BY <1>0, <2>0
  <2>2. PICK n : n = [session[h] EXCEPT !.run = "publishing", !.todo = todo, !.published = found, !.found = none, !.failed = no]
    OBVIOUS
  <2>3. session' = [session EXCEPT ![h] = n]
    <3>1. session' = [session EXCEPT ![h].run = "publishing", ![h].todo = todo, ![h].published = found, ![h].found = none, ![h].failed = no]
      BY <1>0, <1>1, <1>6, <2>1 DEF Revalidate
    <3>. QED
      BY <1>0, <2>2, <3>1
  <2>4. n \in Session
    BY <1>0, <2>2 DEF Session
  <2>5. n.run = "publishing" /\ n.todo = todo /\ n.published = found /\ n.found = none
    BY <1>0, <2>2 DEF Session
  <2>6. n.open = session[h].open
    BY <1>0, <2>2 DEF Session
  <2>7. n.owed = session[h].owed
    BY <1>0, <2>2 DEF Session
  <2>8. n.overlay = session[h].overlay /\ n.sending = session[h].sending
    BY <1>0, <2>2 DEF Session
  <2>9. session' \in [Handles -> Session] /\ session'[h] = n /\ Others(h)
    BY <2>3, <2>4, Put DEF Others
  <2>. QED
    BY <2>1, <2>5, <2>6, <2>7, <2>8, <2>9
<1>7. ASSUME NEW d \in Docs, Send(h, d)
      PROVE  /\ session'[h].todo = session[h].todo \ {d} /\ session'[h].sending = d
             /\ UNCHANGED <<session[h].open, session[h].overlay, session[h].owed, session[h].run, session[h].published, session[h].found, session[h].failed>>
             /\ Goal
  <2>1. PICK rest \in SUBSET Docs : rest = session[h].todo \ {d}
    BY <1>0
  <2>2. PICK n : n = [session[h] EXCEPT !.todo = rest, !.sending = d]
    OBVIOUS
  <2>3. session' = [session EXCEPT ![h] = n]
    <3>1. session' = [session EXCEPT ![h].todo = rest, ![h].sending = d]
      BY <1>0, <1>7, <2>1 DEF Send
    <3>. QED
      BY <1>0, <2>2, <3>1
  <2>4. n \in Session /\ n.todo = rest /\ n.sending = d
    BY <1>0, <2>2 DEF Session
  <2>5. n.open = session[h].open
    BY <1>0, <2>2 DEF Session
  <2>6. n.owed = session[h].owed
    BY <1>0, <2>2 DEF Session
  <2>7. n.failed = session[h].failed
    BY <1>0, <2>2 DEF Session
  <2>8. n.overlay = session[h].overlay /\ n.run = session[h].run /\ n.published = session[h].published /\ n.found = session[h].found
    BY <1>0, <2>2 DEF Session
  <2>9. session' \in [Handles -> Session] /\ session'[h] = n /\ Others(h)
    BY <2>3, <2>4, Put DEF Others
  <2>. QED
    BY <2>1, <2>4, <2>5, <2>6, <2>7, <2>8, <2>9
<1>8. ASSUME Remember(h)
      PROVE  /\ session'[h].sending = NoDoc
             /\ UNCHANGED <<session[h].open, session[h].overlay, session[h].owed, session[h].run, session[h].published, session[h].todo, session[h].found, session[h].failed>>
             /\ Goal
  <2>2. PICK n : n = [session[h] EXCEPT !.sending = NoDoc]
    OBVIOUS
  <2>3. session' = [session EXCEPT ![h] = n]
    <3>1. session' = [session EXCEPT ![h].sending = NoDoc]
      BY <1>0, <1>8 DEF Remember
    <3>. QED
      BY <1>0, <2>2, <3>1
  <2>4. n \in Session
    BY <1>0, <2>2 DEF Session
  <2>5. n.sending = NoDoc
    BY <1>0, <2>2 DEF Session
  <2>6. n.open = session[h].open
    BY <1>0, <2>2 DEF Session
  <2>7. n.owed = session[h].owed
    BY <1>0, <2>2 DEF Session
  <2>8. n.failed = session[h].failed
    BY <1>0, <2>2 DEF Session
  <2>9. n.overlay = session[h].overlay /\ n.run = session[h].run /\ n.published = session[h].published /\ n.todo = session[h].todo /\ n.found = session[h].found
    BY <1>0, <2>2 DEF Session
  <2>10. session' \in [Handles -> Session] /\ session'[h] = n /\ Others(h)
    BY <2>3, <2>4, Put DEF Others
  <2>. QED
    BY <2>5, <2>6, <2>7, <2>8, <2>9, <2>10
<1>9. ASSUME EndRun(h)
      PROVE  /\ session'[h].run = "none"
             /\ UNCHANGED <<session[h].open, session[h].overlay, session[h].owed, session[h].published, session[h].todo, session[h].found, session[h].failed, session[h].sending>>
             /\ Goal
  <2>2. PICK n : n = [session[h] EXCEPT !.run = "none"]
    OBVIOUS
  <2>3. session' = [session EXCEPT ![h] = n]
    <3>1. session' = [session EXCEPT ![h].run = "none"]
      BY <1>0, <1>9 DEF EndRun
    <3>. QED
      BY <1>0, <2>2, <3>1
  <2>4. n \in Session
    BY <1>0, <2>2 DEF Session
  <2>5. n.run = "none"
    BY <1>0, <2>2 DEF Session
  <2>6. n.open = session[h].open
    BY <1>0, <2>2 DEF Session
  <2>7. n.owed = session[h].owed
    BY <1>0, <2>2 DEF Session
  <2>8. n.failed = session[h].failed
    BY <1>0, <2>2 DEF Session
  <2>9. n.overlay = session[h].overlay /\ n.published = session[h].published /\ n.todo = session[h].todo /\ n.found = session[h].found /\ n.sending = session[h].sending
    BY <1>0, <2>2 DEF Session
  <2>10. session' \in [Handles -> Session] /\ session'[h] = n /\ Others(h)
    BY <2>3, <2>4, Put DEF Others
  <2>. QED
    BY <2>5, <2>6, <2>7, <2>8, <2>9, <2>10
<1>10. ASSUME Abort(h)
      PROVE  /\ session'[h].run = "none" /\ session'[h].todo = {} /\ session'[h].found = {} /\ session'[h].sending = NoDoc
             /\ UNCHANGED <<session[h].open, session[h].overlay, session[h].owed, session[h].published>>
             /\ Goal
  <2>1. PICK none \in SUBSET Docs : none = {}
    OBVIOUS
  <2>2. PICK n : n = [session[h] EXCEPT !.run = "none", !.todo = none, !.found = none, !.sending = NoDoc]
    OBVIOUS
  <2>3. session' = [session EXCEPT ![h] = n]
    <3>1. session' = [session EXCEPT ![h].run = "none", ![h].todo = none, ![h].found = none, ![h].sending = NoDoc]
      BY <1>0, <1>10, <2>1 DEF Abort
    <3>. QED
      BY <1>0, <2>2, <3>1
  <2>4. n \in Session
    BY <1>0, <2>2 DEF Session
  <2>5. n.run = "none" /\ n.todo = none /\ n.found = none /\ n.sending = NoDoc
    BY <1>0, <2>2 DEF Session
  <2>6. n.open = session[h].open
    BY <1>0, <2>2 DEF Session
  <2>7. n.owed = session[h].owed
    BY <1>0, <2>2 DEF Session
  <2>8. n.overlay = session[h].overlay /\ n.published = session[h].published
    BY <1>0, <2>2 DEF Session
  <2>9. session' \in [Handles -> Session] /\ session'[h] = n /\ Others(h)
    BY <2>3, <2>4, Put DEF Others
  <2>. QED
    BY <2>1, <2>5, <2>6, <2>7, <2>8, <2>9
<1>11. Run(h) => Goal
  BY <1>3, <1>4, <1>5, <1>6, <1>7, <1>8, <1>9, <1>10 DEF Run
<1>12. Run(h) => UNCHANGED <<outside, work, live, memory, worker, request>> /\ (early' = early \/ \E d \in Docs : Send(h, d))
  BY DEF Run, BeginRun, Read, Fail, Revalidate, Send, Remember, EndRun, Abort
<1>13. /\ BeginRun(h) => session[h].open /\ session[h].owed /\ session[h].run = "none"
       /\ \A d \in Docs : Read(h, d) => session[h].run = "reading" /\ d \in session[h].todo
       /\ Fail(h) => session[h].run = "reading"
       /\ Revalidate(h) => session[h].run = "reading" /\ session[h].todo = {}
       /\ \A d \in Docs : Send(h, d) => session[h].run = "publishing" /\ session[h].sending = NoDoc /\ d \in session[h].todo
       /\ Remember(h) => session[h].sending # NoDoc
       /\ EndRun(h) => session[h].run = "publishing" /\ session[h].todo = {} /\ session[h].sending = NoDoc
       /\ Abort(h) => ~session[h].open /\ session[h].run # "none" /\ session[h].sending = NoDoc
  BY DEF BeginRun, Read, Fail, Revalidate, Send, Remember, EndRun, Abort, Interruptible
<1>14. BeginRun(h) => ~session'[h].owed
  BY <1>1, <1>3
<1>15. Fail(h) => session'[h].failed
  BY <1>2, <1>5
<1>. QED
  BY <1>3, <1>4, <1>5, <1>6, <1>7, <1>8, <1>9, <1>10, <1>11, <1>12, <1>13, <1>14, <1>15

\* Who asks and who schedules: an open session comes to owe a run.
LEMMA Schedules ==
  ASSUME TypeOK, NEW h \in Handles, session' = Scheduled(h)
  PROVE  /\ session' \in [Handles -> Session] /\ Others(h)
         /\ session[h].open => session'[h].owed
         /\ ~session[h].open => session'[h].owed = session[h].owed
         /\ UNCHANGED <<session[h].open, session[h].overlay, session[h].published, session[h].run, session[h].todo, session[h].found, session[h].failed, session[h].sending>>
<1>1. session \in [Handles -> Session] /\ session[h].owed \in BOOLEAN /\ session[h].open \in BOOLEAN
  BY DEF TypeOK, Session
<1>2. PICK owed \in BOOLEAN : owed = (session[h].owed \/ session[h].open)
  BY <1>1
<1>3. session' = [session EXCEPT ![h].owed = owed]
  BY <1>1, <1>2 DEF Scheduled
<1>5. PICK n : n = [session[h] EXCEPT !.owed = owed, !.run = session[h].run]
  OBVIOUS
<1>6. session' = [session EXCEPT ![h] = n]
  BY <1>1, <1>3, <1>5 DEF Session
<1>7. session[h] \in Session /\ session[h].run \in {"none", "reading", "publishing"}
  BY <1>1 DEF Session
<1>4. /\ session' \in [Handles -> Session] /\ Others(h) /\ session'[h].owed = owed
      /\ UNCHANGED <<session[h].open, session[h].overlay, session[h].published, session[h].run, session[h].todo, session[h].found, session[h].failed, session[h].sending>>
  <2>1. /\ n \in Session /\ n.owed = owed /\ n.run = session[h].run
        /\ n.open = session[h].open /\ n.overlay = session[h].overlay
        /\ n.published = session[h].published /\ n.todo = session[h].todo /\ n.sending = session[h].sending
        /\ n.found = session[h].found /\ n.failed = session[h].failed
    <3>1. n \in Session
      BY <1>5, <1>7 DEF Session
    <3>2. n.owed = owed /\ n.run = session[h].run
      BY <1>5, <1>7 DEF Session
    <3>3. n.open = session[h].open
      BY <1>5, <1>7 DEF Session
    <3>4. n.overlay = session[h].overlay /\ n.published = session[h].published /\ n.todo = session[h].todo /\ n.sending = session[h].sending
      BY <1>5, <1>7 DEF Session
    <3>5. n.found = session[h].found
      BY <1>5, <1>7 DEF Session
    <3>6. n.failed = session[h].failed
      BY <1>5, <1>7 DEF Session
    <3>. QED
      BY <3>1, <3>2, <3>3, <3>4, <3>5, <3>6
  <2>2. session' \in [Handles -> Session] /\ session'[h] = n /\ \A g \in Handles : g # h => session'[g] = session[g]
    BY <1>6, <2>1, Put
  <2>. QED
    BY <2>1, <2>2 DEF Others
<1>. QED
  BY <1>1, <1>2, <1>4

\* The head of the queue.
LEMMA Heads ==
  ASSUME TypeOK, work # <<>>
  PROVE  /\ Head(work) \in Notification /\ Tail(work) \in Seq(Notification) /\ Len(Tail(work)) = Len(work) - 1
         /\ Len(work) \in Nat /\ Len(work) >= 1 /\ Head(work) = work[1]
         /\ \A i \in 1 .. Len(Tail(work)) : Tail(work)[i] = work[i + 1]
BY HeadTailProperties, EmptySeq DEF TypeOK

\* What is added at its end.
LEMMA Ends ==
  ASSUME TypeOK, NEW m \in Notification, work' = Append(work, m)
  PROVE  /\ work' \in Seq(Notification) /\ Len(work') = Len(work) + 1 /\ work'[Len(work) + 1] = m
         /\ Len(work) \in Nat /\ \A i \in 1 .. Len(work) : work'[i] = work[i]
BY AppendProperties, LenProperties DEF TypeOK

----------------------------------------------------------------------------
\* The editor and the disk queue one notification, and touch nothing of the server.
LEMMA Edits ==
  ASSUME TypeOK, Editor \/ \E loads \in BOOLEAN : ConfigChanges(loads)
  PROVE  \E m \in Notification :
           /\ work' = Append(work, m) /\ acts < MaxActs /\ acts' = acts + 1
           /\ UNCHANGED <<shown, live, session, memory, remembered, worker, request, early>>
           /\ buffer' \in [Docs -> Text \union {Absent}] /\ disk' \in [Docs -> Text] /\ valid' \in BOOLEAN
           /\ disk' = disk \/ m.kind \in {"save", "files"}
           /\ \A d \in Docs : IF m.kind \in {"open", "change", "close"} /\ m.doc = d
                              THEN m.text = buffer'[d] ELSE buffer'[d] = buffer[d]
<1>. DEFINE Goal == \E m \in Notification :
                      /\ work' = Append(work, m) /\ acts < MaxActs /\ acts' = acts + 1
                      /\ UNCHANGED <<shown, live, session, memory, remembered, worker, request, early>>
                      /\ buffer' \in [Docs -> Text \union {Absent}] /\ disk' \in [Docs -> Text] /\ valid' \in BOOLEAN
                      /\ disk' = disk \/ m.kind \in {"save", "files"}
                      /\ \A d \in Docs : IF m.kind \in {"open", "change", "close"} /\ m.doc = d
                                         THEN m.text = buffer'[d] ELSE buffer'[d] = buffer[d]
<1>0. \A d \in Docs, kind \in DocumentKinds, text \in Text \union {Absent} : (kind = "close" => text = Absent) =>
        LET m == Message(kind, d, text) IN m \in Notification /\ m.kind = kind /\ m.doc = d /\ m.text = text
  BY DEF Message, Notification, DocumentKinds
<1>00. \A kind \in {"files", "config"} :
         LET m == Message(kind, NoDoc, Absent) IN m \in Notification /\ m.kind = kind
  BY DEF Message, Notification, DocumentKinds
<1>1. ASSUME NEW d \in Docs, EditorOpens(d) PROVE Goal
  <2>1. disk[d] \in Text \union {Absent} /\ "open" \in DocumentKinds
    BY DEF TypeOK, DocumentKinds
  <2>. DEFINE m == Message("open", d, disk[d])
  <2>2. m \in Notification /\ m.kind = "open" /\ m.doc = d /\ m.text = disk[d]
    BY <1>0, <2>1
  <2>3. work' = Append(work, m) /\ acts < MaxActs /\ acts' = acts + 1
        /\ UNCHANGED <<shown, live, session, memory, remembered, worker, request, early, disk, valid>>
        /\ buffer' = [buffer EXCEPT ![d] = disk[d]]
    BY <1>1 DEF EditorOpens, Act
  <2>. HIDE DEF m
  <2>. QED
    BY <2>1, <2>2, <2>3 DEF TypeOK
<1>2. ASSUME NEW d \in Docs, NEW text \in Text, EditorChanges(d, text) PROVE Goal
  <2>1. text \in Text \union {Absent} /\ "change" \in DocumentKinds
    BY DEF TypeOK, DocumentKinds
  <2>. DEFINE m == Message("change", d, text)
  <2>2. m \in Notification /\ m.kind = "change" /\ m.doc = d /\ m.text = text
    BY <1>0, <2>1
  <2>3. work' = Append(work, m) /\ acts < MaxActs /\ acts' = acts + 1
        /\ UNCHANGED <<shown, live, session, memory, remembered, worker, request, early, disk, valid>>
        /\ buffer' = [buffer EXCEPT ![d] = text]
    BY <1>2 DEF EditorChanges, Act
  <2>. HIDE DEF m
  <2>. QED
    BY <2>1, <2>2, <2>3 DEF TypeOK
<1>3. ASSUME NEW d \in Docs, EditorSaves(d) PROVE Goal
  <2>1. buffer[d] \in Text /\ Absent \in Text \union {Absent} /\ "save" \in DocumentKinds
    BY <1>3 DEF TypeOK, DocumentKinds, EditorSaves
  <2>. DEFINE m == Message("save", d, Absent)
  <2>2. m \in Notification /\ m.kind = "save"
    BY <1>0, <2>1
  <2>3. work' = Append(work, m) /\ acts < MaxActs /\ acts' = acts + 1
        /\ UNCHANGED <<shown, live, session, memory, remembered, worker, request, early, buffer, valid>>
        /\ disk' = [disk EXCEPT ![d] = buffer[d]]
    BY <1>3 DEF EditorSaves, Act
  <2>. HIDE DEF m
  <2>. QED
    BY <2>1, <2>2, <2>3 DEF TypeOK
<1>4. ASSUME NEW d \in Docs, EditorCloses(d) PROVE Goal
  <2>1. Absent \in Text \union {Absent} /\ "close" \in DocumentKinds
    BY DEF DocumentKinds
  <2>. DEFINE m == Message("close", d, Absent)
  <2>2. m \in Notification /\ m.kind = "close" /\ m.doc = d /\ m.text = Absent
    BY <1>0, <2>1
  <2>3. work' = Append(work, m) /\ acts < MaxActs /\ acts' = acts + 1
        /\ UNCHANGED <<shown, live, session, memory, remembered, worker, request, early, disk, valid>>
        /\ buffer' = [buffer EXCEPT ![d] = Absent]
    BY <1>4 DEF EditorCloses, Act
  <2>. HIDE DEF m
  <2>. QED
    BY <2>1, <2>2, <2>3 DEF TypeOK
<1>5. ASSUME NEW d \in Docs, NEW text \in Text, DiskChanges(d, text) PROVE Goal
  <2>. DEFINE m == Message("files", NoDoc, Absent)
  <2>2. m \in Notification /\ m.kind = "files"
    BY <1>00
  <2>3. work' = Append(work, m) /\ acts < MaxActs /\ acts' = acts + 1
        /\ UNCHANGED <<shown, live, session, memory, remembered, worker, request, early, buffer, valid>>
        /\ disk' = [disk EXCEPT ![d] = text]
    BY <1>5 DEF DiskChanges, Act
  <2>. HIDE DEF m
  <2>. QED
    BY <2>2, <2>3 DEF TypeOK
<1>6. ASSUME NEW loads \in BOOLEAN, ConfigChanges(loads) PROVE Goal
  <2>. DEFINE m == Message("config", NoDoc, Absent)
  <2>2. m \in Notification /\ m.kind = "config"
    BY <1>00
  <2>3. work' = Append(work, m) /\ acts < MaxActs /\ acts' = acts + 1
        /\ UNCHANGED <<shown, live, session, memory, remembered, worker, request, early, buffer, disk>>
        /\ valid' \in BOOLEAN
    BY <1>6 DEF ConfigChanges, Act
  <2>. HIDE DEF m
  <2>. QED
    BY <2>2, <2>3 DEF TypeOK
<1>. HIDE DEF Goal
<1>7. Goal
  BY <1>1, <1>2, <1>3, <1>4, <1>5, <1>6 DEF Editor
<1>. QED
  BY <1>7 DEF Goal

\* A session installed gets an identity nobody refers to.
LEMMA Installed ==
  ASSUME TypeOK, NEW s \in Session, Installs(s)
  PROVE  \E h \in Handles : h \in Unused /\ live' = h /\ Others(h) /\ session'[h] = s /\ session' \in [Handles -> Session]
<1>1. PICK h : h = CHOOSE g \in Unused : TRUE
  OBVIOUS
<1>2. h \in Unused /\ h \in Handles
  BY <1>1 DEF Installs, Unused
<1>3. live' = h /\ session' = [session EXCEPT ![h] = s]
  BY <1>1 DEF Installs
<1>4. session' \in [Handles -> Session] /\ session'[h] = s /\ Others(h)
  BY <1>2, <1>3, Put DEF Others
<1>. QED
  BY <1>2, <1>3, <1>4

\* A build leaves the folder failed, or live at a session of its own.
LEMMA Builds ==
  ASSUME TypeOK, Build
  PROVE  \/ ~valid /\ live' = "failed" /\ session' = session
         \/ valid /\ \E h \in Handles : /\ h \in Unused /\ live' = h /\ Others(h) /\ session'[h] = Fresh
                                        /\ session' \in [Handles -> Session]
<1>1. Fresh \in Session
  BY Constants
<1>. QED
  BY <1>1, Installed DEF Build

\* A failed folder is built again, and owes its first run.
LEMMA Retries ==
  ASSUME TypeOK, RetryFailed
  PROVE  /\ worker.at = "retrying" /\ worker' = Idle
         /\ UNCHANGED <<outside, shown, work, memory, remembered, request, early>>
         /\ \/ live' = live /\ session' = session /\ (live = "failed" => ~valid)
            \/ live = "failed" /\ valid /\
               \E h \in Handles : /\ h \in Unused /\ live' = h /\ Others(h) /\ session'[h] = [Fresh EXCEPT !.owed = TRUE]
                                  /\ session' \in [Handles -> Session]
<1>1. worker.at = "retrying" /\ worker' = Idle /\ UNCHANGED <<outside, shown, work, memory, remembered, request, early>>
  BY DEF RetryFailed
<1>2. CASE live = "failed" /\ valid
  <2>1. PICK s \in Session : s = [Fresh EXCEPT !.owed = TRUE]
    BY Constants
  <2>2. Installs(s)
    BY <1>2, <2>1 DEF RetryFailed
  <2>3. \E h \in Handles : /\ h \in Unused /\ live' = h /\ Others(h) /\ session'[h] = s /\ session' \in [Handles -> Session]
    BY <2>2, Installed
  <2>. QED
    BY <1>1, <1>2, <2>1, <2>3
<1>3. CASE ~(live = "failed" /\ valid)
  BY <1>1, <1>3 DEF RetryFailed
<1>. QED
  BY <1>2, <1>3

\* A document event, as the live session and the memory of open documents take it.
LEMMA Documents ==
  ASSUME TypeOK, OnDocumentEvent, NEW e, e = Head(work)
  PROVE  /\ work # <<>> /\ e \in Notification /\ e.kind \in DocumentKinds /\ e.doc \in Docs
         /\ work' = Tail(work) /\ worker' = Idle /\ worker.at \in {"idle", "looked"}
         /\ UNCHANGED <<outside, shown, live, remembered, request, early>>
         /\ memory' \in [Docs -> Text \union {Absent}]
         /\ HasSession => /\ session' \in [Handles -> Session] /\ Others(live) /\ session'[live].owed
                          /\ session'[live].overlay = Overlaid(e)
                          /\ UNCHANGED <<session[live].open, session[live].published, session[live].run,
                                         session[live].todo, session[live].found, session[live].sending>>
                          /\ memory' = Recorded(e)
         /\ ~HasSession => UNCHANGED <<session, memory>>
<1>1. /\ work # <<>> /\ e.kind \in DocumentKinds /\ work' = Tail(work) /\ worker' = Idle /\ worker.at \in {"idle", "looked"}
      /\ UNCHANGED <<outside, shown, live, remembered, request, early>>
      /\ ~HasSession => UNCHANGED <<session, memory>>
      /\ HasSession => memory' = Recorded(e) /\
           session' = [session EXCEPT ![live].overlay = Overlaid(e), ![live].owed = TRUE]
  BY DEF OnDocumentEvent, HeadIs
<1>2. e \in Notification
  BY <1>1, Heads
<1>3. e.doc \in Docs /\ e.text \in Text \union {Absent}
  BY <1>1, <1>2 DEF Notification
<1>4. memory' \in [Docs -> Text \union {Absent}]
  <2>1. Recorded(e) \in [Docs -> Text \union {Absent}]
    BY <1>1, <1>3 DEF Recorded, TypeOK, DocumentKinds
  <2>. QED
    BY <1>1, <2>1 DEF TypeOK
<1>5. ASSUME HasSession
      PROVE  /\ session' \in [Handles -> Session] /\ Others(live) /\ session'[live].owed
             /\ session'[live].overlay = Overlaid(e)
             /\ UNCHANGED <<session[live].open, session[live].published, session[live].run,
                            session[live].todo, session[live].found, session[live].sending>>
  <2>1. live \in Handles /\ session[live] \in Session /\ session \in [Handles -> Session]
    BY <1>5 DEF HasSession, TypeOK
  <2>2. Overlaid(e) \in [Docs -> Text \union {Absent}]
    <3>1. session[live].overlay \in [Docs -> Text \union {Absent}]
      BY <2>1 DEF Session
    <3>. QED
      BY <1>1, <1>3, <3>1 DEF Overlaid, DocumentKinds
  <2>3. PICK o : o = Overlaid(e)
    OBVIOUS
  <2>4. PICK yes \in BOOLEAN : yes = TRUE
    OBVIOUS
  <2>5. PICK n : n = [session[live] EXCEPT !.overlay = o, !.owed = yes]
    OBVIOUS
  <2>6. session' = [session EXCEPT ![live] = n]
    <3>1. session' = [session EXCEPT ![live].overlay = o, ![live].owed = yes]
      BY <1>1, <1>5, <2>3, <2>4
    <3>. QED
      BY <2>1, <2>5, <3>1
  <2>7. n \in Session
    BY <2>1, <2>2, <2>3, <2>5 DEF Session
  <2>8. n.owed = yes
    BY <2>1, <2>5 DEF Session
  <2>9. n.open = session[live].open
    BY <2>1, <2>5 DEF Session
  <2>10. n.overlay = o /\ n.published = session[live].published /\ n.run = session[live].run
         /\ n.todo = session[live].todo /\ n.found = session[live].found /\ n.sending = session[live].sending
    BY <2>1, <2>5 DEF Session
  <2>11. session' \in [Handles -> Session] /\ session'[live] = n /\ Others(live)
    BY <2>1, <2>6, <2>7, Put DEF Others
  <2>12. session'[live].owed
    BY <2>4, <2>8, <2>11
  <2>. QED
    BY <1>1, <2>3, <2>9, <2>10, <2>11, <2>12
<1>. QED
  BY <1>1, <1>2, <1>3, <1>4, <1>5

\* The old session's scope closes.
LEMMA Closes ==
  ASSUME TypeOK, SessionInv, CloseOld
  PROVE  /\ worker.at = "closing" /\ worker.old \in Handles /\ session' \in [Handles -> Session] /\ Others(worker.old)
         /\ ~session'[worker.old].open /\ ~session'[worker.old].owed
         /\ UNCHANGED <<session[worker.old].overlay, session[worker.old].published, session[worker.old].run,
                        session[worker.old].todo, session[worker.old].found, session[worker.old].sending>>
<1>0. worker.at = "closing"
  BY DEF CloseOld
<1>1. worker.old \in Handles
  BY <1>0 DEF SessionInv, Rebuilding
<1>2. PICK old \in Handles : old = worker.old
  BY <1>1
<1>3. PICK no \in BOOLEAN : no = FALSE
  OBVIOUS
<1>4. session[old] \in Session /\ session \in [Handles -> Session]
  BY DEF TypeOK
<1>5. PICK n : n = [session[old] EXCEPT !.open = no, !.owed = no]
  OBVIOUS
<1>6. session' = [session EXCEPT ![old] = n]
  <2>1. session' = [session EXCEPT ![old].open = no, ![old].owed = no]
    BY <1>2, <1>3 DEF CloseOld
  <2>. QED
    BY <1>4, <1>5, <2>1
<1>7. n \in Session
  BY <1>4, <1>5 DEF Session
<1>8. n.owed = no
  BY <1>4, <1>5 DEF Session
<1>9. n.open = no
  BY <1>4, <1>5 DEF Session
<1>10. n.overlay = session[old].overlay /\ n.published = session[old].published /\ n.run = session[old].run
       /\ n.todo = session[old].todo /\ n.found = session[old].found /\ n.sending = session[old].sending
  BY <1>4, <1>5 DEF Session
<1>11. session' \in [Handles -> Session] /\ session'[old] = n /\ Others(old)
  BY <1>6, <1>7, Put DEF Others
<1>12. ~session'[old].open /\ ~session'[old].owed
  BY <1>3, <1>8, <1>9, <1>11
<1>13. UNCHANGED <<session[old].overlay, session[old].published, session[old].run, session[old].todo, session[old].found, session[old].sending>>
  BY <1>10, <1>11
<1>14. worker' = [worker EXCEPT !.at = "awaiting"] /\ worker'.old = old
  BY <1>2, Workers DEF CloseOld
<1>. QED
  BY <1>0, <1>1, <1>2, <1>11, <1>12, <1>13, <1>14 DEF Others

\* The old session is gone for good.
LEMMA Leaves ==
  ASSUME TypeOK, SessionInv, Cleared
  PROVE  /\ worker.at = "clearing" /\ worker.uris = {} /\ worker.old \in Handles /\ worker.old # live
         /\ session' \in [Handles -> Session] /\ Others(worker.old) /\ session'[worker.old] = Gone
         /\ worker'.at = (IF HasSession THEN "reopening" ELSE "retrying") /\ worker'.old = NoHandle /\ worker'.uris = {}
         /\ UNCHANGED <<outside, shown, work, live, memory, remembered, request, early>>
<1>1. /\ worker.at = "clearing" /\ worker.uris = {} /\ session' = [session EXCEPT ![worker.old] = Gone]
      /\ worker' = [Idle EXCEPT !.at = IF HasSession THEN "reopening" ELSE "retrying"]
      /\ UNCHANGED <<outside, shown, work, live, memory, remembered, request, early>>
  BY DEF Cleared
<1>2. worker.old \in Handles /\ worker.old # live
  BY <1>1 DEF SessionInv, Rebuilding
<1>3. Gone \in Session
  BY Constants
<1>4. session' \in [Handles -> Session] /\ session'[worker.old] = Gone /\ Others(worker.old)
  BY <1>1, <1>2, <1>3, Put DEF Others
<1>5. worker'.at = (IF HasSession THEN "reopening" ELSE "retrying") /\ worker'.old = NoHandle /\ worker'.uris = {}
  BY <1>1 DEF Idle
<1>. QED
  BY <1>1, <1>2, <1>4, <1>5

\* The live session gets the open documents, and owes a run.
LEMMA Reopens ==
  ASSUME TypeOK, HasSession, Reopen
  PROVE  /\ worker.at = "reopening" /\ worker'.at = "retrying" /\ worker'.old = NoHandle /\ worker'.uris = {}
         /\ UNCHANGED <<outside, shown, work, live, memory, remembered, request, early>>
         /\ session' \in [Handles -> Session] /\ Others(live) /\ session'[live].owed /\ session'[live].overlay = memory
         /\ UNCHANGED <<session[live].open, session[live].published, session[live].run,
                        session[live].todo, session[live].found, session[live].sending>>
<1>1. /\ worker.at = "reopening" /\ worker' = [Idle EXCEPT !.at = "retrying"]
      /\ UNCHANGED <<outside, shown, work, live, memory, remembered, request, early>>
      /\ session' = [session EXCEPT ![live].overlay = memory, ![live].owed = TRUE]
  BY DEF Reopen
<1>2. live \in Handles /\ session[live] \in Session /\ session \in [Handles -> Session] /\ memory \in [Docs -> Text \union {Absent}]
  BY DEF TypeOK, HasSession
<1>3. PICK yes \in BOOLEAN : yes = TRUE
  OBVIOUS
<1>4. PICK n : n = [session[live] EXCEPT !.overlay = memory, !.owed = yes]
  OBVIOUS
<1>5. session' = [session EXCEPT ![live] = n]
  <2>1. session' = [session EXCEPT ![live].overlay = memory, ![live].owed = yes]
    BY <1>1, <1>3
  <2>. QED
    BY <1>2, <1>4, <2>1
<1>6. n \in Session
  BY <1>2, <1>4 DEF Session
<1>7. n.owed = yes
  BY <1>2, <1>4 DEF Session
<1>8. n.open = session[live].open
  BY <1>2, <1>4 DEF Session
<1>9. n.overlay = memory /\ n.published = session[live].published /\ n.run = session[live].run
      /\ n.todo = session[live].todo /\ n.found = session[live].found /\ n.sending = session[live].sending
  BY <1>2, <1>4 DEF Session
<1>10. session' \in [Handles -> Session] /\ session'[live] = n /\ Others(live)
  BY <1>2, <1>5, <1>6, Put DEF Others
<1>11. worker'.at = "retrying" /\ worker'.old = NoHandle /\ worker'.uris = {}
  BY <1>1 DEF Idle
<1>12. session'[live].owed
  BY <1>3, <1>7, <1>10
<1>. QED
  BY <1>1, <1>8, <1>9, <1>10, <1>11, <1>12

\* A watched-file event is taken off the queue, and the live session scheduled or taken down.
LEMMA Watches ==
  ASSUME TypeOK, OnWatchedFiles, NEW e, e = Head(work)
  PROVE  /\ worker.at = "idle" /\ work # <<>> /\ work' = Tail(work) /\ e \in Notification /\ e.kind \in {"files", "config"}
         /\ UNCHANGED <<outside, shown, live, memory, remembered, request, early>>
         /\ worker'.uris = {} /\ session' \in [Handles -> Session]
         /\ IF HasSession /\ e.kind = "config"
            THEN worker'.at = "rebuilding" /\ worker'.old = live
            ELSE worker'.at = "retrying" /\ worker'.old = NoHandle
         /\ IF HasSession /\ e.kind = "files" THEN session' = Scheduled(live) ELSE session' = session
<1>1. /\ worker.at = "idle" /\ work # <<>> /\ work' = Tail(work) /\ e.kind \in {"files", "config"}
      /\ UNCHANGED <<outside, shown, live, memory, remembered, request, early>>
      /\ session' = IF HasSession /\ e.kind = "files" THEN Scheduled(live) ELSE session
      /\ worker' = IF HasSession /\ e.kind = "config" THEN [Idle EXCEPT !.at = "rebuilding", !.old = live]
                                                      ELSE [Idle EXCEPT !.at = "retrying"]
  BY DEF OnWatchedFiles, HeadIs
<1>2. e \in Notification
  BY <1>1, Heads
<1>3. /\ worker'.uris = {}
      /\ IF HasSession /\ e.kind = "config"
         THEN worker'.at = "rebuilding" /\ worker'.old = live
         ELSE worker'.at = "retrying" /\ worker'.old = NoHandle
  BY <1>1 DEF Idle
<1>4. session' \in [Handles -> Session]
  <2>1. CASE HasSession /\ e.kind = "files"
    <3>1. live \in Handles /\ session' = Scheduled(live)
      BY <1>1, <2>1 DEF HasSession
    <3>. QED
      BY <3>1, Schedules
  <2>2. CASE ~(HasSession /\ e.kind = "files")
    BY <1>1, <2>2 DEF TypeOK
  <2>. QED
    BY <2>1, <2>2
<1>. QED
  BY <1>1, <1>2, <1>3, <1>4

\* A step of the worker that only moves it along, or clears what is displayed.
LEMMA Moves ==
  ASSUME TypeOK
  PROVE  /\ BuildOwner => worker.at = "idle" /\ worker'.at = "looked" /\ worker'.old = worker.old /\ worker'.uris = worker.uris
         /\ Swap => worker.at = "rebuilding" /\ worker'.at = "closing" /\ worker'.old = worker.old /\ worker'.uris = worker.uris
         /\ CloseOld => worker.at = "closing" /\ worker'.at = "awaiting" /\ worker'.old = worker.old /\ worker'.uris = worker.uris
         /\ Clear => worker.at = "awaiting" /\ worker'.at = "clearing" /\ worker'.old = worker.old /\ worker'.uris = remembered
         /\ \A d \in Docs : SendClear(d) => worker.at = "clearing" /\ d \in worker.uris /\ worker'.at = "clearing"
                                            /\ worker'.old = worker.old /\ worker'.uris = worker.uris \ {d}
<1>1. BuildOwner => worker' = [worker EXCEPT !.at = "looked"] /\ worker.at = "idle"
  BY DEF BuildOwner
<1>2. Swap => worker' = [worker EXCEPT !.at = "closing"] /\ worker.at = "rebuilding"
  BY DEF Swap
<1>3. CloseOld => worker' = [worker EXCEPT !.at = "awaiting"] /\ worker.at = "closing"
  BY DEF CloseOld
<1>4. Clear => worker' = [worker EXCEPT !.at = "clearing", !.uris = remembered] /\ worker.at = "awaiting"
  BY DEF Clear, ToClear
<1>5. \A d \in Docs : SendClear(d) => worker' = [worker EXCEPT !.uris = worker.uris \ {d}] /\ worker.at = "clearing" /\ d \in worker.uris
  BY DEF SendClear
<1>. QED
  BY <1>1, <1>2, <1>3, <1>4, <1>5 DEF TypeOK

----------------------------------------------------------------------------
LEMMA InitTyped ==
  ASSUME Init
  PROVE  TypeOK
<1>1. Gone \in Session /\ NoOverlay \in [Docs -> Text \union {Absent}] /\ Idle.at = "idle" /\ Idle.old = NoHandle /\ Idle.uris = {}
  BY Constants
<1>2. work \in Seq(Notification) /\ Len(work) = 0
  BY EmptySeq DEF Init
<1>3. worker \in Worker
  BY DEF Init, Idle, Worker
<1>4. acts \in 0 .. MaxActs /\ Len(work) <= acts
  BY <1>2, DiagnosticsAssumption DEF Init
<1>5. session \in [Handles -> Session]
  BY <1>1 DEF Init
<1>. QED
  BY <1>1, <1>2, <1>3, <1>4, <1>5 DEF Init, TypeOK, Worker

LEMMA TypeStep ==
  ASSUME TypeOK, SessionInv, [Next]_vars
  PROVE  TypeOK'
<1>0. worker \in Worker /\ (worker' \in Worker => worker' \in [at : {"idle", "looked", "rebuilding", "closing", "awaiting", "clearing",
                       "reopening", "retrying"}, old : Handles \union {NoHandle}, uris : SUBSET Docs])
  BY WorkerTyped DEF Worker
<1>1. CASE Editor \/ \E loads \in BOOLEAN : ConfigChanges(loads)
  <2>1. PICK m \in Notification :
           /\ work' = Append(work, m) /\ acts < MaxActs /\ acts' = acts + 1
           /\ UNCHANGED <<shown, live, session, memory, remembered, worker, request, early>>
           /\ buffer' \in [Docs -> Text \union {Absent}] /\ disk' \in [Docs -> Text] /\ valid' \in BOOLEAN
    BY <1>1, Edits
  <2>2. work' \in Seq(Notification) /\ Len(work') = Len(work) + 1 /\ Len(work) \in Nat
    BY <2>1, Ends
  <2>3. acts' \in 0 .. MaxActs /\ Len(work') <= acts'
    BY <2>1, <2>2, DiagnosticsAssumption DEF TypeOK
  <2>. QED
    BY <2>1, <2>2, <2>3 DEF TypeOK
<1>. DEFINE At(w) == /\ w \in Seq(Notification) /\ Len(w) <= acts
<1>2. At(work) /\ (work # <<>> => At(Tail(work)))
  BY Heads DEF TypeOK
<1>3. CASE BuildOwner \/ Swap
  <2>1. Build /\ UNCHANGED <<outside, shown, work, memory, remembered, request, early>>
    BY <1>3 DEF BuildOwner, Swap
  <2>2. session' \in [Handles -> Session] /\ live' \in Handles \union {"unbuilt", "failed"}
    BY <2>1, Builds DEF TypeOK
  <2>3. worker' \in Worker
    BY <1>3, WorkerTyped DEF BuildOwner, Swap
  <2>. QED
    BY <1>0, <2>1, <2>2, <2>3 DEF TypeOK, outside
<1>4. CASE OnDocumentEvent
  <2>1. PICK e : e = Head(work)
    OBVIOUS
  <2>2. /\ work # <<>> /\ work' = Tail(work) /\ worker' = Idle /\ UNCHANGED <<outside, shown, live, remembered, request, early>>
        /\ memory' \in [Docs -> Text \union {Absent}] /\ session' \in [Handles -> Session]
    BY <1>4, <2>1, Documents DEF TypeOK
  <2>3. worker' \in Worker
    BY <2>2, WorkerTyped
  <2>. QED
    BY <1>0, <1>2, <2>2, <2>3 DEF TypeOK, outside
<1>5. CASE OnWatchedFiles
  <2>1. PICK e : e = Head(work)
    OBVIOUS
  <2>2. /\ work # <<>> /\ work' = Tail(work) /\ UNCHANGED <<outside, shown, live, memory, remembered, request, early>>
        /\ session' \in [Handles -> Session]
    BY <1>5, <2>1, Watches
  <2>3. worker' \in Worker
    BY <1>5, WorkerTyped DEF OnWatchedFiles, HasSession
  <2>. QED
    BY <1>0, <1>2, <2>2, <2>3 DEF TypeOK, outside
<1>6. CASE CloseOld
  <2>1. worker' \in Worker /\ session' \in [Handles -> Session]
    BY <1>6, WorkerTyped, Closes DEF CloseOld
  <2>. QED
    BY <1>0, <1>6, <2>1 DEF TypeOK, outside, CloseOld
<1>7. CASE Clear
  <2>1. worker' \in Worker
    BY <1>7, WorkerTyped DEF Clear, ToClear, TypeOK
  <2>. QED
    BY <1>0, <1>7, <2>1 DEF TypeOK, outside, Clear
<1>8. ASSUME NEW d \in Docs, SendClear(d) PROVE TypeOK'
  <2>1. worker' = [worker EXCEPT !.uris = worker.uris \ {d}] /\ worker.uris \ {d} \in SUBSET Docs
    BY <1>8 DEF SendClear, TypeOK
  <2>2. worker' \in Worker
    BY <2>1, WorkerTyped
  <2>. QED
    BY <1>0, <1>8, <2>2 DEF TypeOK, outside, SendClear
<1>9. CASE Cleared
  <2>1. /\ session' \in [Handles -> Session] /\ UNCHANGED <<outside, shown, work, live, memory, remembered, request, early>>
    BY <1>9, Leaves
  <2>2. worker' \in Worker
    BY <1>9, WorkerTyped DEF Cleared
  <2>. QED
    BY <1>0, <2>1, <2>2 DEF TypeOK, outside
<1>10. CASE Reopen
  <2>1. HasSession
    BY <1>10 DEF Reopen, SessionInv
  <2>2. /\ session' \in [Handles -> Session] /\ UNCHANGED <<outside, shown, work, live, memory, remembered, request, early>>
    BY <1>10, <2>1, Reopens
  <2>3. worker' \in Worker
    BY <1>10, WorkerTyped DEF Reopen
  <2>. QED
    BY <1>0, <2>2, <2>3 DEF TypeOK, outside
<1>11. CASE RetryFailed
  <2>1. /\ worker' = Idle /\ UNCHANGED <<outside, shown, work, memory, remembered, request, early>>
        /\ live' \in Handles \union {"unbuilt", "failed"} /\ session' \in [Handles -> Session]
    BY <1>11, Retries DEF TypeOK
  <2>2. worker' \in Worker
    BY <2>1, WorkerTyped
  <2>. QED
    BY <1>0, <2>1, <2>2 DEF TypeOK, outside
<1>12. ASSUME NEW h \in Handles, Run(h) PROVE TypeOK'
  <2>1. session' \in [Handles -> Session] /\ UNCHANGED <<outside, work, live, memory, worker, request>>
    BY <1>12, Runs
  <2>2. session[h].sending \in Docs \union {NoDoc}
    BY DEF TypeOK, Session
  <2>3. shown' \subseteq Docs /\ remembered' \subseteq Docs
    BY <1>12, <2>2 DEF Run, BeginRun, Read, Fail, Revalidate, Remember, EndRun, Abort, Send, With, TypeOK
  <2>4. early' \subseteq Docs
    BY <1>12 DEF Run, BeginRun, Read, Fail, Revalidate, Remember, EndRun, Abort, Send, TypeOK
  <2>. QED
    BY <1>0, <2>1, <2>3, <2>4 DEF TypeOK, outside
<1>13. CASE Ask
  BY <1>0, <1>13 DEF Ask, TypeOK, outside, HasSession
<1>14. CASE RequestSchedules
  <2>1. request \in Handles /\ session' = Scheduled(request)
    BY <1>14 DEF RequestSchedules, TypeOK
  <2>2. session' \in [Handles -> Session]
    BY <2>1, Schedules
  <2>. QED
    BY <1>0, <1>14, <2>2 DEF RequestSchedules, TypeOK, outside
<1>15. CASE UNCHANGED vars
  BY <1>0, <1>15 DEF vars, TypeOK
<1>. QED
  BY <1>1, <1>3, <1>4, <1>5, <1>6, <1>7, <1>8, <1>9, <1>10, <1>11, <1>12, <1>13, <1>14, <1>15 DEF Next, WorkerStep

\* Sessions are told apart by what they hold.
LEMMA Alike ==
  ASSUME NEW s \in Session, NEW t \in Session, s.open <=> t.open, s.overlay = t.overlay, s.published = t.published,
         s.owed <=> t.owed, s.run = t.run, s.todo = t.todo, s.found = t.found, s.failed <=> t.failed, s.sending = t.sending
  PROVE  s = t
<1>1. s.open = t.open
  BY DEF Session
<1>2. s.owed = t.owed
  BY DEF Session
<1>3. s.failed = t.failed
  BY DEF Session
<1>. QED
  BY <1>1, <1>2, <1>3 DEF Session

----------------------------------------------------------------------------
(* Only the live session and the one being taken down are there. *)
LEMMA SessionStep ==
  ASSUME TypeOK, SessionInv, TypeOK', [Next]_vars
  PROVE  SessionInv'
<1>. DEFINE Still(s) == /\ s.run = "none" => s.todo = {}
                        /\ s.run # "reading" => s.found = {}
                        /\ s.run # "publishing" => s.sending = NoDoc
<1>0. /\ \A h \in Handles : /\ Still(session[h])
                            /\ h = live => session[h].open
                            /\ h # live /\ h # worker.old => session[h] = Gone
      /\ \A h \in Handles : h # NoHandle /\ h # "unbuilt" /\ h # "failed"
      /\ \A h \in Handles : session[h] \in Session /\ session'[h] \in Session
  BY DiagnosticsAssumption DEF SessionInv, TypeOK
<1>. DEFINE Each == \A h \in Handles : /\ Still(session[h])'
                                       /\ h = live' => session'[h].open
                                       /\ h # live' /\ h # worker'.old => session'[h] = Gone
<1>1. CASE Editor \/ \E loads \in BOOLEAN : ConfigChanges(loads)
  <2>1. UNCHANGED <<live, session, worker>>
    BY <1>1, Edits
  <2>. QED
    BY <2>1 DEF SessionInv, Rebuilding, HasSession
<1>2. CASE BuildOwner
  <2>1. live \notin Handles /\ worker.old = NoHandle
    BY <1>0, <1>2 DEF BuildOwner, NeedsBuild, SessionInv, Rebuilding
  <2>2. worker.at = "idle" /\ worker'.at = "looked" /\ worker'.old = worker.old /\ worker'.uris = worker.uris
    BY <1>2, Moves
  <2>3. Build
    BY <1>2 DEF BuildOwner
  <2>4. Each
    BY <1>0, <2>1, <2>2, <2>3, Builds, Constants DEF Others
  <2>5. live' # "unbuilt"
    BY <1>0, <2>3, Builds
  <2>. QED
    BY <2>1, <2>2, <2>4, <2>5 DEF SessionInv, Rebuilding
<1>3. CASE Swap
  <2>1. worker.at = "rebuilding" /\ worker'.at = "closing" /\ worker'.old = worker.old /\ worker'.uris = worker.uris
    BY <1>3, Moves
  <2>2. worker.old \in Handles /\ worker.old = live /\ worker.uris = {}
    BY <2>1 DEF SessionInv
  <2>3. Build
    BY <1>3 DEF Swap
  <2>4. Each
    BY <1>0, <2>1, <2>2, <2>3, Builds, Constants DEF Others
  <2>5. worker.old # live'
    BY <1>0, <2>2, <2>3, Builds DEF Unused
  <2>. QED
    BY <2>1, <2>2, <2>4, <2>5 DEF SessionInv, Rebuilding
<1>4. CASE OnDocumentEvent
  <2>1. PICK e : e = Head(work)
    OBVIOUS
  <2>2. worker.at \in {"idle", "looked"} /\ worker' = Idle /\ live' = live
        /\ (HasSession => Others(live) /\ UNCHANGED <<session[live].open, session[live].run, session[live].todo, session[live].found, session[live].sending>>)
        /\ (~HasSession => UNCHANGED session)
    BY <1>4, <2>1, Documents
  <2>3. worker.old = NoHandle
    BY <2>2 DEF SessionInv, Rebuilding
  <2>4. worker'.at = "idle" /\ worker'.old = NoHandle /\ worker'.uris = {}
    BY <2>2, Constants
  <2>5. Each
    BY <1>0, <2>2, <2>3, <2>4 DEF Others, HasSession
  <2>. QED
    BY <2>4, <2>5 DEF SessionInv, Rebuilding
<1>5. CASE OnWatchedFiles
  <2>1. PICK e : e = Head(work)
    OBVIOUS
  <2>2. /\ worker.at = "idle" /\ live' = live /\ worker'.uris = {}
        /\ IF HasSession /\ e.kind = "config"
           THEN worker'.at = "rebuilding" /\ worker'.old = live
           ELSE worker'.at = "retrying" /\ worker'.old = NoHandle
        /\ IF HasSession /\ e.kind = "files" THEN session' = Scheduled(live) ELSE session' = session
    BY <1>5, <2>1, Watches
  <2>3. worker.old = NoHandle
    BY <2>2 DEF SessionInv, Rebuilding
  <2>4. Each
    <3>1. CASE HasSession /\ e.kind = "files"
      <4>1. live \in Handles /\ session' = Scheduled(live)
        BY <2>2, <3>1 DEF HasSession
      <4>2. Others(live) /\ UNCHANGED <<session[live].open, session[live].run, session[live].todo, session[live].found, session[live].sending>>
        BY <2>2, <4>1, Schedules
      <4>. QED
        BY <1>0, <2>2, <2>3, <4>1, <4>2 DEF Others
    <3>2. CASE ~(HasSession /\ e.kind = "files")
      BY <1>0, <2>2, <2>3, <3>2
    <3>. QED
      BY <3>1, <3>2
  <2>. QED
    BY <2>2, <2>4 DEF SessionInv, Rebuilding, HasSession
<1>6. CASE CloseOld
  <2>1. worker.at = "closing" /\ worker'.at = "awaiting" /\ worker'.old = worker.old /\ worker'.uris = worker.uris /\ live' = live
    BY <1>6, Moves DEF CloseOld
  <2>2. /\ worker.old \in Handles /\ Others(worker.old) /\ ~session'[worker.old].open /\ ~session'[worker.old].owed
        /\ session'[worker.old].run = session[worker.old].run
        /\ session'[worker.old].todo = session[worker.old].todo
        /\ session'[worker.old].found = session[worker.old].found
        /\ session'[worker.old].sending = session[worker.old].sending
    BY <1>6, <2>1, Closes
  <2>3. worker.old # live /\ worker.uris = {}
    BY <2>1 DEF SessionInv, Rebuilding
  <2>4. Each
    BY <1>0, <2>1, <2>2, <2>3 DEF Others
  <2>. QED
    BY <2>1, <2>2, <2>3, <2>4 DEF SessionInv, Rebuilding
<1>7. CASE Clear
  <2>1. /\ worker.at = "awaiting" /\ worker'.at = "clearing" /\ worker'.old = worker.old
        /\ session[worker.old].run = "none" /\ UNCHANGED <<live, session>>
    BY <1>7, Moves DEF Clear
  <2>2. worker.old \in Handles /\ worker.old # live /\ ~session[worker.old].open /\ ~session[worker.old].owed
    BY <2>1 DEF SessionInv, Rebuilding
  <2>. QED
    BY <1>0, <2>1, <2>2 DEF SessionInv, Rebuilding
<1>8. ASSUME NEW d \in Docs, SendClear(d) PROVE SessionInv'
  <2>1. /\ worker.at = "clearing" /\ worker'.at = "clearing" /\ worker'.old = worker.old /\ UNCHANGED <<live, session>>
    BY <1>8, Moves DEF SendClear
  <2>. QED
    BY <1>0, <2>1 DEF SessionInv, Rebuilding
<1>9. CASE Cleared
  <2>1. /\ worker.at = "clearing" /\ worker.old \in Handles /\ worker.old # live
        /\ Others(worker.old) /\ session'[worker.old] = Gone /\ live' = live
        /\ worker'.at = (IF HasSession THEN "reopening" ELSE "retrying") /\ worker'.old = NoHandle /\ worker'.uris = {}
    BY <1>9, Leaves
  <2>2. Each
    BY <1>0, <2>1, Constants DEF Others
  <2>. QED
    BY <2>1, <2>2 DEF SessionInv, Rebuilding, HasSession
<1>10. CASE Reopen
  <2>1. HasSession
    BY <1>10 DEF Reopen, SessionInv
  <2>2. /\ worker.at = "reopening" /\ worker'.at = "retrying" /\ worker'.old = NoHandle /\ worker'.uris = {} /\ live' = live
        /\ Others(live) /\ UNCHANGED <<session[live].open, session[live].run, session[live].todo, session[live].found, session[live].sending>>
    BY <1>10, <2>1, Reopens
  <2>3. worker.old = NoHandle
    BY <2>2 DEF SessionInv, Rebuilding
  <2>4. Each
    BY <1>0, <2>1, <2>2, <2>3 DEF Others, HasSession
  <2>. QED
    BY <2>2, <2>4 DEF SessionInv, Rebuilding
<1>11. CASE RetryFailed
  <2>1. /\ worker.at = "retrying" /\ worker' = Idle
        /\ \/ live' = live /\ session' = session
           \/ live = "failed" /\ \E h \in Handles : live' = h /\ Others(h) /\ session'[h] = [Fresh EXCEPT !.owed = TRUE]
    BY <1>11, Retries
  <2>2. worker.old = NoHandle
    BY <2>1 DEF SessionInv, Rebuilding
  <2>3. worker'.at = "idle" /\ worker'.old = NoHandle /\ worker'.uris = {}
    BY <2>1, Constants
  <2>4. Each
    <3>1. CASE live' = live /\ session' = session
      BY <1>0, <2>2, <2>3, <3>1
    <3>2. CASE live = "failed" /\ \E h \in Handles : live' = h /\ Others(h) /\ session'[h] = [Fresh EXCEPT !.owed = TRUE]
      <4>1. PICK h \in Handles : live' = h /\ Others(h) /\ session'[h] = [Fresh EXCEPT !.owed = TRUE]
        BY <3>2
      <4>2. session'[h].open
        BY <4>1, Constants
      <4>3. session'[h].run = "none" /\ session'[h].todo = {} /\ session'[h].found = {} /\ session'[h].sending = NoDoc
        BY <4>1, Constants
      <4>. QED
        <5>1. Still(session[h])'
          BY <4>3
        <5>2. \A g \in Handles : g # h => session'[g] = session[g] /\ Still(session[g])'
          BY <1>0, <4>1 DEF Others
        <5>3. \A g \in Handles : g # h => g # live
          BY <1>0, <3>2
        <5>. QED
          BY <1>0, <2>2, <2>3, <4>1, <4>2, <5>1, <5>2, <5>3
    <3>. QED
      BY <2>1, <3>1, <3>2
  <2>. QED
    BY <2>3, <2>4 DEF SessionInv, Rebuilding
<1>12. ASSUME NEW h \in Handles, Run(h) PROVE SessionInv'
  <2>1. UNCHANGED <<live, worker>> /\ Others(h)
    BY <1>12, Runs
  <2>2. session[h] # Gone
    BY <1>12, Runs, Constants DEF Run
  <2>3. Still(session[h])'
    <3>1. CASE BeginRun(h)
      BY <1>0, <3>1, Runs
    <3>2. CASE Revalidate(h) \/ Fail(h)
      BY <1>0, <3>2, Runs
    <3>3. CASE \E d \in Docs : Send(h, d)
      BY <1>0, <3>3, Runs
    <3>7. CASE \E d \in Docs : Read(h, d)
      BY <1>0, <3>7, Runs
    <3>4. CASE Remember(h)
      BY <1>0, <3>4, Runs
    <3>5. CASE EndRun(h)
      BY <1>0, <3>5, Runs
    <3>6. CASE Abort(h)
      BY <3>6, Runs
    <3>. QED
      BY <1>12, <3>1, <3>2, <3>3, <3>4, <3>5, <3>6, <3>7 DEF Run
  <2>4. session'[h].open = session[h].open
    BY <1>12, Runs DEF Run
  <2>5. Each
    BY <1>0, <2>1, <2>2, <2>3, <2>4 DEF Others
  <2>6. h = worker.old => /\ worker.at \in {"awaiting", "clearing"} => ~session'[h].owed
                          /\ worker.at = "clearing" => session'[h].run = "none"
    BY <1>12, Runs DEF Run, SessionInv
  <2>7. worker.at \in {"awaiting", "clearing"} => ~session'[worker.old].open /\ ~session'[worker.old].owed
    BY <2>1, <2>4, <2>6 DEF SessionInv, Others, Rebuilding
  <2>8. worker.at = "clearing" => session'[worker.old].run = "none"
    BY <2>1, <2>6 DEF SessionInv, Others, Rebuilding
  <2>. QED
    BY <2>1, <2>5, <2>7, <2>8 DEF SessionInv, Rebuilding, HasSession
<1>13. CASE Ask
  BY <1>13 DEF Ask, SessionInv, Rebuilding, HasSession
<1>14. CASE RequestSchedules
  <2>1. request \in Handles /\ session' = Scheduled(request) /\ UNCHANGED <<live, worker>>
    BY <1>14 DEF RequestSchedules, TypeOK
  <2>2. /\ Others(request)
        /\ session[request].open => session'[request].owed
        /\ ~session[request].open => session'[request].owed = session[request].owed
        /\ session'[request].open = session[request].open /\ session'[request].run = session[request].run
        /\ session'[request].todo = session[request].todo /\ session'[request].sending = session[request].sending
        /\ session'[request].found = session[request].found /\ session'[request].failed = session[request].failed
        /\ session'[request].overlay = session[request].overlay /\ session'[request].published = session[request].published
    BY <1>14, <2>1, Schedules DEF RequestSchedules
  <2>3. session[request] = Gone => session'[request] = Gone
    BY <1>0, <2>1, <2>2, Alike, Constants
  <2>4. Each
    BY <1>0, <2>1, <2>2, <2>3 DEF Others
  <2>5. worker.at \in {"awaiting", "clearing"} => ~session'[worker.old].open /\ ~session'[worker.old].owed
    BY <2>1, <2>2 DEF SessionInv, Others, Rebuilding
  <2>6. worker.at = "clearing" => session'[worker.old].run = "none"
    BY <2>1, <2>2 DEF SessionInv, Others, Rebuilding
  <2>. QED
    BY <2>1, <2>4, <2>5, <2>6 DEF SessionInv, Rebuilding, HasSession
<1>15. CASE UNCHANGED vars
  BY <1>15 DEF vars, SessionInv, Rebuilding, HasSession
<1>. QED
  BY <1>1, <1>2, <1>3, <1>4, <1>5, <1>6, <1>7, <1>8, <1>9, <1>10, <1>11, <1>12, <1>13, <1>14, <1>15 DEF Next, WorkerStep

----------------------------------------------------------------------------
LEMMA InitSession ==
  ASSUME Init
  PROVE  SessionInv
BY Constants, DiagnosticsAssumption DEF Init, SessionInv, Rebuilding, HasSession

\* The state of the server is always of its types, and only the live session and the one
\* a rebuild takes down are open or at work.
THEOREM TypeCorrect == Spec => []TypeOK
<1>1. Init => TypeOK /\ SessionInv
  BY InitTyped, InitSession
<1>2. TypeOK /\ SessionInv /\ [Next]_vars => (TypeOK /\ SessionInv)'
  BY TypeStep, SessionStep
<1>. QED
  BY <1>1, <1>2, PTL DEF Spec

----------------------------------------------------------------------------
(* What is displayed, whenever a request schedules a session. *)
LEMMA InitShown ==
  ASSUME Init
  PROVE  ShownInv
BY Constants, DiagnosticsAssumption DEF Init, ShownInv, Rebuilding, HasSession, NothingStranded

\* Who is at work: the live session, and during a rebuild the one it takes down.
LEMMA AtWork ==
  ASSUME TypeOK, SessionInv, NEW h \in Handles, session[h].run # "none" \/ session[h].sending # NoDoc
  PROVE  /\ h = live \/ (Rebuilding /\ h = worker.old)
         /\ worker.at = "clearing" => h = live
<1>1. session[h] # Gone /\ h # NoHandle
  BY Constants, DiagnosticsAssumption
<1>2. h = live \/ h = worker.old
  BY <1>1 DEF SessionInv
<1>3. h = worker.old => Rebuilding \/ h = live
  BY <1>1 DEF SessionInv
<1>4. worker.at = "clearing" /\ h = worker.old => session[h].run = "none" /\ session[h].sending = NoDoc
  BY DEF SessionInv
<1>. QED
  BY <1>2, <1>3, <1>4

\* The parts of ShownInv.
Kept == \A d \in shown : d \in early \/ d \in remembered \/ d \in worker.uris \/ \E h \in Handles : d = session[h].sending
Sent == \A h \in Handles : session[h].sending \notin early \union {NoDoc} =>
          (session[h].sending \in shown <=> session[h].sending \in session[h].published)
Wiped == worker.at = "clearing" => remembered \subseteq early
Waits == Rebuilding /\ HasSession => /\ session[live].published \ Untold(live) \subseteq early
                                     /\ session[live].sending \in early \union {NoDoc}
Told == ~Rebuilding => IF HasSession
                       THEN \A d \in Docs \ (Untold(live) \union early) : d \in shown <=> d \in session[live].published
                       ELSE shown \subseteq early

LEMMA ShownParts == ShownInv <=> Kept /\ Sent /\ Wiped /\ Waits /\ Told
BY DEF ShownInv, NothingStranded, Kept, Sent, Wiped, Waits, Told

\* A step that leaves alone what is displayed and published, and moves no rebuild along.
Quiet == /\ UNCHANGED <<shown, live, remembered, early>> /\ worker'.uris = worker.uris
         /\ (Rebuilding' <=> Rebuilding) /\ (worker'.at = "clearing" <=> worker.at = "clearing")
         /\ \A h \in Handles : session'[h].published = session[h].published /\ session'[h].sending = session[h].sending
         /\ HasSession => Untold(live)' = Untold(live)

LEMMA QuietStep ==
  ASSUME Kept, Sent, Wiped, Waits, Told, Quiet
  PROVE  Kept' /\ Sent' /\ Wiped' /\ Waits' /\ Told'
<1>1. Kept' /\ Sent' /\ Wiped'
  BY DEF Kept, Sent, Wiped, Quiet
<1>2. live' = live /\ HasSession' = HasSession /\ (HasSession => live \in Handles)
  BY DEF Quiet, HasSession
<1>3. PICK u : u = Untold(live)
  OBVIOUS
<1>4. HasSession => Untold(live)' = u
  BY <1>3 DEF Quiet
<1>5. Waits'
  <2>. SUFFICES ASSUME Rebuilding', HasSession'
                PROVE  session'[live'].published \ Untold(live)' \subseteq early' /\ session'[live'].sending \in early' \union {NoDoc}
    BY DEF Waits
  <2>1. /\ session'[live'].published = session[live].published /\ session'[live'].sending = session[live].sending
        /\ early' = early /\ Rebuilding /\ HasSession
    BY <1>2 DEF Quiet
  <2>2. session[live].published \ u \subseteq early /\ session[live].sending \in early \union {NoDoc}
    BY <2>1, <1>3 DEF Waits
  <2>. QED
    BY <1>4, <2>1, <2>2
<1>6. Told'
  <2>. SUFFICES ASSUME ~Rebuilding'
                PROVE  IF HasSession'
                       THEN \A d \in Docs \ (Untold(live)' \union early') : d \in shown' <=> d \in session'[live'].published
                       ELSE shown' \subseteq early'
    BY DEF Told
  <2>1. /\ HasSession => session'[live'].published = session[live].published
        /\ early' = early /\ shown' = shown /\ ~Rebuilding
    BY <1>2 DEF Quiet
  <2>2. IF HasSession
        THEN \A d \in Docs \ (u \union early) : d \in shown <=> d \in session[live].published
        ELSE shown \subseteq early
    BY <2>1, <1>3 DEF Told
  <2>. QED
    BY <1>2, <1>4, <2>1, <2>2
<1>. QED
  BY <1>1, <1>5, <1>6

\* A folder without a session gets one that has told nothing.
LEMMA ToldNothing ==
  ASSUME ~HasSession, ~Rebuilding, ~Rebuilding', Sent, Told, NEW h \in Handles, live' = h, Others(h),
         session'[h].published = {}, session'[h].sending = NoDoc, session'[h].run = "none",
         UNCHANGED <<shown, early>>, worker'.at # "clearing"
  PROVE  Kept' /\ Sent' /\ Wiped' /\ Waits' /\ Told'
<1>1. shown \subseteq early
  BY DEF Told
<1>2. Kept' /\ Wiped' /\ Waits'
  BY <1>1 DEF Kept, Wiped, Waits
<1>3. Sent'
  BY <1>1 DEF Sent, Others
<1>4. Untold(live)' = {}
  BY DEF Untold
<1>5. Told'
  BY <1>1, <1>4 DEF Told
<1>. QED
  BY <1>2, <1>3, <1>5

LEMMA ShownStep ==
  ASSUME TypeOK, SessionInv, TypeOK', SessionInv', ShownInv, [Next]_vars
  PROVE  ShownInv'
<1>0. Kept /\ Sent /\ Wiped /\ Waits /\ Told
  BY ShownParts
<1>. DEFINE Goal == Kept' /\ Sent' /\ Wiped' /\ Waits' /\ Told'
<1>00. Goal => ShownInv'
  <2>1. (ShownInv <=> Kept /\ Sent /\ Wiped /\ Waits /\ Told)'
    BY ShownParts, PTL
  <2>. QED
    BY <2>1
<1>000. /\ \A h \in Handles : h # NoHandle /\ h # "unbuilt" /\ h # "failed"
        /\ \A h \in Handles : session[h] \in Session
        /\ shown \in SUBSET Docs /\ NoDoc \notin Docs /\ live \in Handles \union {"unbuilt", "failed"}
  BY DiagnosticsAssumption DEF TypeOK
<1>1. Quiet => Goal
  BY <1>0, QuietStep
<1>. HIDE DEF Goal
<1>2. CASE Editor \/ \E loads \in BOOLEAN : ConfigChanges(loads)
  <2>1. UNCHANGED <<shown, live, session, memory, remembered, worker, request, early>>
    BY <1>2, Edits
  <2>2. Quiet
    BY <2>1 DEF Quiet, Rebuilding, Untold
  <2>. QED
    BY <1>00, <1>1, <2>2
<1>3. CASE BuildOwner
  <2>1. live \notin Handles /\ worker.at = "idle" /\ worker'.at = "looked" /\ worker'.uris = worker.uris /\ Build
        /\ UNCHANGED <<shown, remembered, request, early>>
    BY <1>3, <1>000, Moves DEF BuildOwner, NeedsBuild
  <2>2. CASE live' = "failed" /\ session' = session
    BY <1>0, <1>00, <1>000, <2>1, <2>2 DEF Goal, HasSession, Rebuilding, Kept, Sent, Wiped, Waits, Told
  <2>3. CASE \E h \in Handles : live' = h /\ Others(h) /\ session'[h] = Fresh
    <3>1. PICK h \in Handles : live' = h /\ Others(h) /\ session'[h] = Fresh
      BY <2>3
    <3>2. session'[h].published = {} /\ session'[h].sending = NoDoc /\ session'[h].run = "none"
      BY <3>1, Constants
    <3>3. ~HasSession /\ ~Rebuilding /\ ~Rebuilding' /\ worker'.at # "clearing"
      BY <2>1 DEF HasSession, Rebuilding
    <3>. QED
      BY <1>0, <1>00, <2>1, <3>1, <3>2, <3>3, ToldNothing, Constants DEF Goal
  <2>. QED
    BY <2>1, <2>2, <2>3, Builds
<1>4. CASE Swap
  <2>1. worker.at = "rebuilding" /\ worker'.at = "closing" /\ worker'.uris = worker.uris /\ Build
        /\ UNCHANGED <<shown, remembered, request, early>>
    BY <1>4, Moves DEF Swap
  <2>2. CASE live' = "failed" /\ session' = session
    BY <1>0, <1>00, <1>000, <2>1, <2>2 DEF Goal, HasSession, Rebuilding, Kept, Sent, Wiped, Waits, Told
  <2>3. CASE \E h \in Handles : h \in Unused /\ live' = h /\ Others(h) /\ session'[h] = Fresh
    <3>1. PICK h \in Handles : h \in Unused /\ live' = h /\ Others(h) /\ session'[h] = Fresh
      BY <2>3
    <3>2. session[h].sending = NoDoc /\ session'[h].sending = NoDoc /\ session'[h].published = {}
      BY <3>1, Constants DEF Unused
    <3>3. \A g \in Handles : session'[g].sending = session[g].sending
      BY <3>1, <3>2 DEF Others
    <3>4. Sent'
      BY <1>0, <2>1, <3>1, <3>2 DEF Others, Sent
    <3>5. Kept'
      BY <1>0, <2>1, <3>3 DEF Kept
    <3>6. Waits' /\ Wiped' /\ Told'
      BY <1>0, <2>1, <3>1, <3>2 DEF HasSession, Rebuilding, Waits, Wiped, Told
    <3>. QED
      BY <1>00, <3>4, <3>5, <3>6 DEF Goal
  <2>. QED
    BY <2>1, <2>2, <2>3, Builds
<1>5. CASE OnDocumentEvent
  <2>1. PICK e : e = Head(work)
    OBVIOUS
  <2>2. worker.at \in {"idle", "looked"} /\ worker' = Idle /\ UNCHANGED <<shown, live, remembered, request, early>>
        /\ (HasSession => Others(live) /\ UNCHANGED <<session[live].published, session[live].run, session[live].todo, session[live].sending>>)
        /\ (~HasSession => UNCHANGED session)
    BY <1>5, <2>1, Documents
  <2>3. worker'.at = "idle" /\ worker'.uris = {} /\ worker.uris = {}
    BY <2>2, Constants DEF SessionInv
  <2>4. Quiet
    BY <2>2, <2>3 DEF Others, HasSession, Rebuilding, Quiet, Untold
  <2>. QED
    BY <1>00, <1>1, <2>4
<1>6. CASE OnWatchedFiles
  <2>1. PICK e : e = Head(work)
    OBVIOUS
  <2>2. /\ worker.at = "idle" /\ UNCHANGED <<shown, live, remembered, request, early>> /\ worker'.uris = {}
        /\ worker'.at \in {"rebuilding", "retrying"}
        /\ IF HasSession /\ e.kind = "files" THEN session' = Scheduled(live) ELSE session' = session
    BY <1>6, <2>1, Watches
  <2>3. \A h \in Handles : /\ session'[h].published = session[h].published /\ session'[h].todo = session[h].todo
                           /\ session'[h].sending = session[h].sending /\ session'[h].run = session[h].run
    <3>1. CASE HasSession /\ e.kind = "files"
      <4>1. live \in Handles /\ session' = Scheduled(live)
        BY <2>2, <3>1 DEF HasSession
      <4>. QED
        BY <2>2, <4>1, Schedules DEF Others
    <3>2. CASE ~(HasSession /\ e.kind = "files")
      BY <2>2, <3>2
    <3>. QED
      BY <3>1, <3>2
  <2>4. Quiet
    BY <2>2, <2>3 DEF Rebuilding, SessionInv, Quiet, Untold, HasSession
  <2>. QED
    BY <1>00, <1>1, <2>4
<1>7. CASE CloseOld
  <2>1. worker.at = "closing" /\ worker'.at = "awaiting" /\ worker'.uris = worker.uris /\ worker'.old = worker.old
        /\ UNCHANGED <<shown, live, remembered, request, early>>
    BY <1>7, Moves DEF CloseOld
  <2>2. /\ worker.old \in Handles /\ Others(worker.old)
        /\ session'[worker.old].published = session[worker.old].published
        /\ session'[worker.old].sending = session[worker.old].sending
    BY <1>7, <2>1, Closes
  <2>3. worker.old # live
    BY <2>1 DEF SessionInv, Rebuilding
  <2>4. Quiet
    BY <2>1, <2>2, <2>3 DEF Quiet, Others, Rebuilding, HasSession, Untold
  <2>. QED
    BY <1>00, <1>1, <2>4
<1>8. CASE Clear
  <2>1. worker.at = "awaiting" /\ worker'.at = "clearing" /\ worker'.uris = remembered /\ remembered' = {}
        /\ UNCHANGED <<shown, live, session, request, early>>
    BY <1>8, Moves DEF Clear
  <2>2. worker.uris = {}
    BY <2>1 DEF SessionInv
  <2>3. Kept' /\ Sent' /\ Wiped'
    BY <1>0, <2>1, <2>2 DEF Kept, Sent, Wiped
  <2>4. Waits' /\ Told'
    BY <1>0, <2>1 DEF HasSession, Rebuilding, Waits, Told, Untold
  <2>. QED
    BY <1>00, <2>3, <2>4 DEF Goal
<1>9. worker.at = "clearing" => \A h \in Handles : session[h].sending \in early \union {NoDoc}
  <2>. SUFFICES ASSUME worker.at = "clearing", NEW h \in Handles, session[h].sending # NoDoc
                PROVE  session[h].sending \in early
    OBVIOUS
  <2>1. h = live /\ HasSession /\ Rebuilding
    BY AtWork DEF HasSession, Rebuilding
  <2>. QED
    BY <1>0, <2>1 DEF Waits
<1>10. ASSUME NEW d \in Docs, SendClear(d) PROVE ShownInv'
  <2>1. worker.at = "clearing" /\ worker'.at = "clearing" /\ worker'.uris = worker.uris \ {d} /\ shown' = shown \ {d}
        /\ UNCHANGED <<live, session, request, remembered, early>>
    BY <1>10, Moves DEF SendClear
  <2>2. Kept' /\ Sent' /\ Wiped'
    BY <1>0, <1>9, <2>1 DEF Kept, Sent, Wiped
  <2>3. Waits' /\ Told'
    BY <1>0, <2>1 DEF HasSession, Rebuilding, Waits, Told, Untold
  <2>. QED
    BY <1>00, <2>2, <2>3 DEF Goal
<1>11. CASE Cleared
  <2>1. /\ worker.at = "clearing" /\ worker.uris = {} /\ worker.old \in Handles /\ worker.old # live
        /\ Others(worker.old) /\ session'[worker.old] = Gone
        /\ worker'.at \in {"reopening", "retrying"} /\ worker'.uris = {}
        /\ UNCHANGED <<shown, live, remembered, request, early>>
    BY <1>11, Leaves
  <2>2. \A h \in Handles : session'[h].sending \in early \union {NoDoc}
    BY <1>9, <2>1, Constants DEF Others
  <2>3. shown \subseteq early
    BY <1>0, <1>9, <1>000, <2>1 DEF Kept, Wiped
  <2>4. Kept' /\ Sent' /\ Wiped'
    BY <2>1, <2>2, <2>3 DEF Kept, Sent, Wiped
  <2>5. HasSession => session'[live] = session[live]
    BY <2>1 DEF HasSession, Others
  <2>6. Waits' /\ ~Rebuilding' /\ Rebuilding
    BY <2>1 DEF Rebuilding, Waits
  <2>7. Told'
    <3>1. CASE ~HasSession
      BY <2>1, <2>3, <3>1 DEF Told, HasSession
    <3>2. CASE HasSession
      <4>1. PICK u : u = Untold(live)
        OBVIOUS
      <4>2. Untold(live)' = u
        BY <2>1, <2>5, <3>2, <4>1 DEF Untold
      <4>3. session[live].published \ u \subseteq early
        BY <1>0, <2>6, <3>2, <4>1 DEF Waits
      <4>4. \A d \in Docs \ (u \union early) : d \notin shown /\ d \notin session[live].published
        BY <2>3, <4>3
      <4>. QED
        BY <2>1, <2>5, <3>2, <4>2, <4>4 DEF Told, HasSession
    <3>. QED
      BY <3>1, <3>2
  <2>. QED
    BY <1>00, <2>4, <2>6, <2>7 DEF Goal
<1>12. CASE Reopen
  <2>1. HasSession
    BY <1>12 DEF Reopen, SessionInv
  <2>2. /\ worker.at = "reopening" /\ worker'.at = "retrying" /\ worker'.uris = {} /\ UNCHANGED <<shown, live, remembered, request, early>>
        /\ Others(live) /\ UNCHANGED <<session[live].published, session[live].run, session[live].todo, session[live].sending>>
    BY <1>12, <2>1, Reopens
  <2>3. Quiet
    BY <2>1, <2>2 DEF Others, HasSession, Rebuilding, SessionInv, Quiet, Untold
  <2>. QED
    BY <1>00, <1>1, <2>3
<1>13. CASE RetryFailed
  <2>1. /\ worker.at = "retrying" /\ worker' = Idle /\ UNCHANGED <<shown, remembered, request, early>>
        /\ \/ live' = live /\ session' = session
           \/ live = "failed" /\ \E h \in Handles : live' = h /\ Others(h) /\ session'[h] = [Fresh EXCEPT !.owed = TRUE]
    BY <1>13, Retries
  <2>2. worker'.at = "idle" /\ worker'.uris = {} /\ worker.uris = {}
    BY <2>1, Constants DEF SessionInv
  <2>3. CASE live' = live /\ session' = session
    <3>1. Quiet
      BY <2>1, <2>2, <2>3 DEF Rebuilding, Quiet, Untold
    <3>. QED
      BY <1>00, <1>1, <3>1
  <2>4. CASE live = "failed" /\ \E h \in Handles : live' = h /\ Others(h) /\ session'[h] = [Fresh EXCEPT !.owed = TRUE]
    <3>1. PICK h \in Handles : live' = h /\ Others(h) /\ session'[h] = [Fresh EXCEPT !.owed = TRUE]
      BY <2>4
    <3>2. session'[h].published = {} /\ session'[h].sending = NoDoc /\ session'[h].run = "none"
      BY <3>1, Constants
    <3>3. ~HasSession /\ ~Rebuilding /\ ~Rebuilding' /\ worker'.at # "clearing"
      BY <1>000, <2>1, <2>2, <2>4 DEF HasSession, Rebuilding
    <3>. QED
      BY <1>0, <1>00, <2>1, <3>1, <3>2, <3>3, ToldNothing, Constants DEF Goal
  <2>. QED
    BY <2>1, <2>3, <2>4
<1>14. ASSUME NEW h \in Handles, Run(h) PROVE ShownInv'
  <2>1. Others(h) /\ UNCHANGED <<live, worker, request>>
    BY <1>14, Runs
  <2>2. session[h].run # "none" => /\ h = live \/ (Rebuilding /\ h = worker.old)
                                   /\ worker.at = "clearing" => h = live
    BY AtWork
  <2>3. /\ session[h].run # "publishing" => session[h].sending = NoDoc
        /\ h = live => session[h].open /\ HasSession
        /\ Rebuilding => worker.old # live
    BY DEF SessionInv, HasSession
  <2>5. CASE BeginRun(h) \/ Fail(h) \/ EndRun(h) \/ Abort(h) \/ \E d \in Docs : Read(h, d)
    <3>1. /\ session'[h].published = session[h].published /\ session'[h].sending = session[h].sending
          /\ UNCHANGED <<shown, remembered, early>>
      BY <2>5, Runs DEF BeginRun, Fail, EndRun, Abort, Read
    <3>2. h = live => Untold(live)' = Untold(live)
      <4>1. h = live => ~Abort(h)
        BY <2>3, Runs
      <4>2. ASSUME h = live
            PROVE  /\ session[h].run # "publishing" \/ (session[h].run = "publishing" /\ session[h].todo = {})
                   /\ session'[h].run # "publishing"
        BY <2>5, <4>1, <4>2, Runs
      <4>. QED
        BY <2>1, <4>2 DEF Untold
    <3>3. HasSession => Untold(live)' = Untold(live)
      BY <2>1, <3>2 DEF Others, HasSession, Untold
    <3>4. Quiet
      BY <2>1, <3>1, <3>3 DEF Quiet, Others, Rebuilding
    <3>. QED
      BY <1>00, <1>1, <3>4
  <2>6. CASE Revalidate(h)
    <3>1. /\ session[h].run = "reading" /\ session'[h].run = "publishing" /\ session'[h].published = session[h].found
          /\ session'[h].todo = Changed(session[h].published, session[h].found)
          /\ session'[h].sending = session[h].sending /\ UNCHANGED <<shown, remembered, early>>
      BY <2>6, Runs DEF Revalidate
    <3>2. session[h].sending = NoDoc /\ session'[h].sending = NoDoc
      BY <2>3, <3>1
    <3>3. \A g \in Handles : session'[g].sending = session[g].sending /\ (g # h => session'[g].published = session[g].published)
      BY <2>1, <3>1 DEF Others
    <3>4. Kept' /\ Sent' /\ Wiped'
      BY <1>0, <2>1, <3>1, <3>2, <3>3 DEF Kept, Sent, Wiped
    <3>5. ASSUME h = live
          PROVE  /\ Untold(live) = {} /\ Untold(live)' = Changed(session[h].published, session[h].found)
                 /\ session'[live'].published = session[h].found
      BY <2>1, <3>1, <3>5 DEF Untold
    <3>6. Waits'
      <4>1. CASE h = live
        <5>1. session[h].found \ Changed(session[h].published, session[h].found) \subseteq session[h].published
          BY DEF Changed
        <5>2. Rebuilding => session[h].published \subseteq early /\ session[h].sending \in early \union {NoDoc}
          BY <1>0, <2>3, <3>5, <4>1 DEF Waits
        <5>. QED
          BY <2>1, <3>1, <3>5, <4>1, <5>1, <5>2 DEF Waits, Rebuilding
      <4>2. CASE h # live
        BY <1>0, <2>1, <3>1, <3>3, <4>2 DEF Waits, Rebuilding, HasSession, Untold, Others
      <4>. QED
        BY <4>1, <4>2
    <3>7. Told'
      <4>1. CASE h = live
        <5>1. \A d \in Docs : d \notin Changed(session[h].published, session[h].found) =>
                (d \in session[h].found <=> d \in session[h].published)
          BY DEF Changed
        <5>2. ~Rebuilding => \A d \in Docs \ early : d \in shown <=> d \in session[h].published
          BY <1>0, <2>3, <3>5, <4>1 DEF Told
        <5>. QED
          BY <2>1, <2>3, <3>1, <3>5, <4>1, <5>1, <5>2 DEF Told, Rebuilding, HasSession
      <4>2. CASE h # live
        BY <1>0, <2>1, <3>1, <3>3, <4>2 DEF Told, Rebuilding, HasSession, Untold, Others
      <4>. QED
        BY <4>1, <4>2
    <3>. QED
      BY <1>00, <3>4, <3>6, <3>7 DEF Goal
  <2>7. ASSUME NEW d \in Docs, Send(h, d) PROVE ShownInv'
    <3>1. /\ session[h].run = "publishing" /\ session[h].sending = NoDoc /\ d \in session[h].todo
          /\ session'[h].todo = session[h].todo \ {d} /\ session'[h].sending = d /\ session'[h].run = "publishing"
          /\ session'[h].published = session[h].published
          /\ shown' = With(shown, d, d \in session[h].published) /\ UNCHANGED remembered
          /\ early' = IF Rebuilding THEN early \union (IF h = live THEN {d} ELSE {}) ELSE early \ {d}
      BY <2>7, Runs DEF Send
    <3>2. /\ d \in shown' <=> d \in session[h].published
          /\ \A c : c # d => (c \in shown' <=> c \in shown)
          /\ d # NoDoc
      BY <1>000, <3>1 DEF With
    <3>3. \A g \in Handles : g # h => session'[g] = session[g]
      BY <2>1 DEF Others
    <3>4. worker' = worker /\ (Rebuilding' <=> Rebuilding) /\ live' = live /\ (HasSession' <=> HasSession)
      BY <2>1 DEF Rebuilding, HasSession
    <3>5. h = live => Untold(live) = session[h].todo /\ Untold(live)' = session[h].todo \ {d}
      BY <2>1, <3>1 DEF Untold
    <3>6. HasSession /\ h # live => Untold(live)' = Untold(live) /\ session'[live] = session[live]
      BY <2>1 DEF Others, HasSession, Untold
    <3>7. Kept'
      <4>. SUFFICES ASSUME NEW c \in shown'
                    PROVE  \/ c \in early' \/ c \in remembered' \/ c \in worker'.uris
                           \/ \E g \in Handles : c = session'[g].sending
        BY DEF Kept
      <4>1. CASE c = d
        BY <3>1, <4>1
      <4>2. CASE c # d
        <5>1. c \in shown /\ c # NoDoc
          BY <1>000, <3>2, <4>2
        <5>2. c \in early => c \in early'
          BY <3>1, <4>2
        <5>3. \A g \in Handles : c = session[g].sending => c = session'[g].sending
          BY <3>1, <3>3, <5>1
        <5>. QED
          BY <1>0, <3>1, <3>4, <5>1, <5>2, <5>3 DEF Kept
      <4>. QED
        BY <4>1, <4>2
    <3>8. CASE Rebuilding /\ h = live
      <4>1. early' = early \union {d}
        BY <3>1, <3>8
      <4>2. Sent'
        BY <1>0, <3>1, <3>2, <3>3, <4>1 DEF Sent
      <4>3. Wiped' /\ Told'
        BY <1>0, <3>1, <3>4, <3>8, <4>1 DEF Wiped, Told
      <4>4. Waits'
        <5>1. session[h].published \ session[h].todo \subseteq early
          BY <1>0, <2>3, <3>5, <3>8 DEF Waits
        <5>. QED
          BY <3>1, <3>4, <3>5, <3>8, <4>1, <5>1 DEF Waits
      <4>. QED
        BY <1>00, <3>7, <4>2, <4>3, <4>4 DEF Goal
    <3>9. CASE Rebuilding /\ h # live
      <4>1. early' = early /\ worker.at # "clearing"
        BY <2>2, <3>1, <3>9
      <4>2. \A g \in Handles : g # h /\ session[g].sending # NoDoc => session[g].sending \in early
        <5>. SUFFICES ASSUME NEW g \in Handles, g # h, session[g].sending # NoDoc
                      PROVE  session[g].sending \in early
          OBVIOUS
        <5>1. g = live /\ HasSession
          BY <2>2, <3>1, <3>9, AtWork DEF HasSession
        <5>. QED
          BY <1>0, <3>9, <5>1 DEF Waits
      <4>3. Sent'
        BY <3>1, <3>2, <3>3, <4>1, <4>2 DEF Sent
      <4>4. Wiped' /\ Told'
        BY <3>4, <3>9, <4>1 DEF Wiped, Told
      <4>5. Waits'
        BY <1>0, <3>4, <3>6, <3>9, <4>1 DEF Waits
      <4>. QED
        BY <1>00, <3>7, <4>3, <4>4, <4>5 DEF Goal
    <3>10. CASE ~Rebuilding
      <4>1. early' = early \ {d} /\ h = live /\ worker.at # "clearing"
        BY <2>2, <3>1, <3>10 DEF Rebuilding
      <4>2. \A g \in Handles : g # h => session[g].sending = NoDoc
        BY <3>10, <4>1, AtWork
      <4>3. Sent'
        BY <3>1, <3>2, <3>3, <4>2 DEF Sent
      <4>4. Wiped' /\ Waits'
        BY <3>4, <3>10, <4>1 DEF Wiped, Waits
      <4>5. Told'
        <5>1. \A c \in Docs \ (session[h].todo \union early) : c \in shown <=> c \in session[h].published
          BY <1>0, <2>3, <3>5, <3>10, <4>1 DEF Told
        <5>2. \A c \in Docs \ ((session[h].todo \ {d}) \union (early \ {d})) : c \in shown' <=> c \in session[h].published
          BY <3>2, <5>1
        <5>. QED
          BY <2>3, <3>1, <3>4, <3>5, <4>1, <5>2 DEF Told
      <4>. QED
        BY <1>00, <3>7, <4>3, <4>4, <4>5 DEF Goal
    <3>. QED
      BY <3>8, <3>9, <3>10
  <2>8. CASE Remember(h)
    <3>1. /\ session[h].sending # NoDoc /\ session'[h].sending = NoDoc
          /\ UNCHANGED <<session[h].published, session[h].todo, session[h].run, shown, early>>
          /\ remembered' = With(remembered, session[h].sending, session[h].sending \in session[h].published)
      BY <2>8, Runs DEF Remember
    <3>2. PICK d : d = session[h].sending
      OBVIOUS
    <3>3. \A g \in Handles : g # h => session'[g] = session[g]
      BY <2>1 DEF Others
    <3>4. /\ d \in remembered' <=> d \in session[h].published
          /\ \A c : c # d => (c \in remembered' <=> c \in remembered)
      BY <3>1, <3>2 DEF With
    <3>5. d \notin early => (d \in shown <=> d \in session[h].published)
      BY <1>0, <3>1, <3>2 DEF Sent
    <3>6. Kept'
      BY <1>0, <2>1, <3>1, <3>2, <3>3, <3>4, <3>5 DEF Kept
    <3>7. Sent'
      BY <1>0, <3>1, <3>3 DEF Sent
    <3>8. Wiped'
      <4>1. worker.at = "clearing" => d \in early
        BY <1>9, <3>1, <3>2
      <4>. QED
        BY <1>0, <2>1, <3>1, <3>4, <4>1 DEF Wiped
    <3>9. HasSession => Untold(live)' = Untold(live) /\ session'[live].published = session[live].published
                        /\ (session'[live].sending = session[live].sending \/ session'[live].sending = NoDoc)
      BY <2>1, <3>1 DEF Others, HasSession, Untold
    <3>10. Waits' /\ Told'
      BY <1>0, <2>1, <3>1, <3>9 DEF Waits, Told, HasSession, Rebuilding
    <3>. QED
      BY <1>00, <3>6, <3>7, <3>8, <3>10 DEF Goal
  <2>. QED
    BY <1>14, <2>5, <2>6, <2>7, <2>8 DEF Run
<1>15. CASE Ask
  <2>1. UNCHANGED <<shown, live, session, remembered, worker, early>>
    BY <1>15 DEF Ask
  <2>2. Quiet
    BY <2>1 DEF Quiet, Rebuilding, Untold
  <2>. QED
    BY <1>00, <1>1, <2>2
<1>16. CASE RequestSchedules
  <2>1. request \in Handles /\ session' = Scheduled(request) /\ UNCHANGED <<shown, live, remembered, worker, early>>
    BY <1>16 DEF RequestSchedules, TypeOK
  <2>2. PICK r \in Handles : r = request
    BY <2>1
  <2>3. Others(r) /\ session'[r].published = session[r].published /\ session'[r].run = session[r].run
        /\ session'[r].todo = session[r].todo /\ session'[r].sending = session[r].sending
    BY <2>1, <2>2, Schedules
  <2>4. Quiet
    BY <2>1, <2>3 DEF Others, Rebuilding, Quiet, HasSession, Untold
  <2>. QED
    BY <1>00, <1>1, <2>4
<1>17. CASE UNCHANGED vars
  <2>1. Quiet
    BY <1>17 DEF vars, Quiet, Rebuilding, Untold
  <2>. QED
    BY <1>00, <1>1, <2>1
<1>. QED
  BY <1>2, <1>3, <1>4, <1>5, <1>6, <1>7, <1>8, <1>10, <1>11, <1>12, <1>13, <1>14, <1>15, <1>16, <1>17 DEF Next, WorkerStep

----------------------------------------------------------------------------
(* A session that owes nothing has published what it finds. *)
LEMMA FoundSame ==
  ASSUME NEW h \in Handles, session'[h].overlay = session[h].overlay, disk' = disk
  PROVE  Found(h)' = Found(h) /\ \A d \in Docs : TextOf(h, d)' = TextOf(h, d)
BY DEF Found, TextOf

LEMMA FoundStep ==
  ASSUME TypeOK, SessionInv, TypeOK', SessionInv', FoundInv, [Next]_vars
  PROVE  FoundInv'
<1>. DEFINE Nothing(w) == \A i \in 1 .. Len(w) : w[i].kind \notin {"save", "files"}
            Due == /\ HasSession /\ worker.at \in {"idle", "retrying"}
                   /\ ~session[live].owed /\ Nothing(work)
            Knows == IF session[live].run = "reading"
                     THEN \A d \in Docs \ session[live].todo : d \in session[live].found <=> d \in Found(live)
                     ELSE session[live].failed \/ session[live].published = Found(live)
<1>0. (Due => Knows) /\ (HasSession => live \in Handles)
  BY DEF FoundInv, HasSession
<1>00. (Due' => Knows') => FoundInv'
  BY DEF FoundInv
\* A step that leaves the live session and its view alone.
<1>000. ASSUME Due, live' = live, session'[live] = session[live], disk' = disk
        PROVE  Knows'
  <2>1. Found(live)' = Found(live)
    BY <1>0, <1>000, FoundSame
  <2>. QED
    BY <1>0, <1>000, <2>1
<1>1. CASE Editor \/ \E loads \in BOOLEAN : ConfigChanges(loads)
  <2>1. PICK m \in Notification : /\ work' = Append(work, m) /\ (disk' = disk \/ m.kind \in {"save", "files"})
                                  /\ UNCHANGED <<live, session, worker>>
    BY <1>1, Edits
  <2>2. Nothing(work') => Nothing(work) /\ disk' = disk
    BY <2>1, Ends
  <2>3. Due' => Due /\ disk' = disk
    BY <2>1, <2>2 DEF HasSession
  <2>. QED
    BY <1>00, <1>000, <2>1, <2>3
<1>2. CASE BuildOwner \/ Swap \/ CloseOld \/ Clear \/ \E d \in Docs : SendClear(d)
  <2>1. worker'.at \in {"looked", "closing", "awaiting", "clearing"}
    BY <1>2, Moves
  <2>. QED
    BY <1>00, <2>1
<1>3. CASE OnDocumentEvent
  <2>1. PICK e : e = Head(work)
    OBVIOUS
  <2>2. live' = live /\ (HasSession => session'[live].owed)
    BY <1>3, <2>1, Documents
  <2>. QED
    BY <1>00, <2>2 DEF HasSession
<1>4. CASE OnWatchedFiles
  <2>1. PICK e : e = Head(work)
    OBVIOUS
  <2>2. /\ live' = live /\ e.kind \in {"files", "config"}
        /\ (HasSession /\ e.kind = "config" => worker'.at = "rebuilding")
        /\ (HasSession /\ e.kind = "files" => session' = Scheduled(live))
    BY <1>4, <2>1, Watches
  <2>3. CASE HasSession /\ e.kind = "files"
    <3>1. live \in Handles /\ session[live].open /\ session' = Scheduled(live)
      BY <2>2, <2>3 DEF HasSession, SessionInv
    <3>2. session'[live].owed
      BY <3>1, Schedules
    <3>. QED
      BY <1>00, <2>2, <3>2
  <2>4. CASE ~(HasSession /\ e.kind = "files")
    BY <1>00, <2>2, <2>4 DEF HasSession
  <2>. QED
    BY <2>3, <2>4
<1>5. CASE Cleared
  <2>1. live' = live /\ worker'.at = (IF HasSession THEN "reopening" ELSE "retrying")
    BY <1>5, Leaves
  <2>. QED
    BY <1>00, <2>1 DEF HasSession
<1>6. CASE Reopen
  <2>1. HasSession
    BY <1>6 DEF Reopen, SessionInv
  <2>2. live' = live /\ session'[live].owed
    BY <1>6, <2>1, Reopens
  <2>. QED
    BY <1>00, <2>2
<1>7. CASE RetryFailed
  <2>1. /\ worker.at = "retrying" /\ UNCHANGED <<disk, work>>
        /\ \/ live' = live /\ session' = session
           \/ \E h \in Handles : live' = h /\ session'[h] = [Fresh EXCEPT !.owed = TRUE]
    BY <1>7, Retries DEF outside
  <2>2. CASE live' = live /\ session' = session
    <3>1. Due' => Due
      BY <2>1, <2>2 DEF HasSession
    <3>. QED
      BY <1>00, <1>000, <2>1, <2>2, <3>1
  <2>3. CASE \E h \in Handles : live' = h /\ session'[h] = [Fresh EXCEPT !.owed = TRUE]
    <3>1. PICK h \in Handles : live' = h /\ session'[h] = [Fresh EXCEPT !.owed = TRUE]
      BY <2>3
    <3>2. session'[h].owed
      BY <3>1, Constants
    <3>. QED
      BY <1>00, <3>1, <3>2
  <2>. QED
    BY <2>1, <2>2, <2>3
<1>8. ASSUME NEW h \in Handles, Run(h) PROVE FoundInv'
  <2>1. Others(h) /\ UNCHANGED <<outside, live, worker, work>>
    BY <1>8, Runs
  <2>2. disk' = disk
    BY <2>1 DEF outside
  <2>3. session'[h].overlay = session[h].overlay
    BY <1>8, Runs DEF Run
  <2>4. CASE h # live
    <3>1. HasSession => session'[live] = session[live]
      BY <2>1, <2>4 DEF Others, HasSession
    <3>2. Due' => Due
      BY <2>1, <3>1 DEF HasSession
    <3>. QED
      BY <1>00, <1>000, <2>1, <2>2, <3>1, <3>2
  <2>5. CASE h = live
    <3>1. session[h].open /\ HasSession
      BY <2>5 DEF SessionInv, HasSession
    <3>2. Found(h)' = Found(h) /\ (\A d \in Docs : d \in Found(h) <=> TextOf(h, d) = "bad") /\ Found(h) \in SUBSET Docs
      <4>1. Found(h)' = Found(h)
        BY <2>2, <2>3, FoundSame
      <4>. QED
        BY <4>1 DEF Found
    <3>3. session'[h].owed = session[h].owed => (Due' => Due)
      BY <2>1, <2>5, <3>1 DEF HasSession
    <3>4. CASE BeginRun(h)
      <4>1. session'[h].run = "reading" /\ session'[h].todo = Docs
        BY <3>4, Runs
      <4>. QED
        BY <1>00, <2>1, <2>5, <4>1
    <3>5. ASSUME NEW d \in Docs, Read(h, d) PROVE FoundInv'
      <4>1. /\ session[h].run = "reading" /\ session'[h].run = session[h].run /\ session'[h].owed = session[h].owed
            /\ session'[h].todo = session[h].todo \ {d}
            /\ session'[h].found = With(session[h].found, d, TextOf(h, d) = "bad")
        BY <3>5, Runs
      <4>2. /\ d \in session'[h].found <=> d \in Found(h)
            /\ \A c : c # d => (c \in session'[h].found <=> c \in session[h].found)
        BY <3>2, <4>1 DEF With
      <4>3. ASSUME Due PROVE \A c \in Docs \ session'[h].todo : c \in session'[h].found <=> c \in Found(h)
        BY <1>0, <2>5, <4>1, <4>2, <4>3
      <4>. QED
        BY <1>00, <2>1, <2>5, <3>2, <3>3, <4>1, <4>3
    <3>6. CASE Fail(h)
      <4>1. session'[h].run # "reading" /\ session'[h].failed
        BY <3>6, Runs
      <4>. QED
        BY <1>00, <2>1, <2>5, <4>1
    <3>7. CASE Revalidate(h)
      <4>1. /\ session[h].run = "reading" /\ session[h].todo = {} /\ session'[h].run # "reading"
            /\ session'[h].published = session[h].found /\ session'[h].owed = session[h].owed
        BY <3>7, Runs
      <4>2. session[h].found \in SUBSET Docs
        BY DEF TypeOK, Session
      <4>3. ASSUME Due PROVE session'[h].published = Found(h)
        BY <1>0, <2>5, <3>2, <4>1, <4>2, <4>3
      <4>. QED
        BY <1>00, <2>1, <2>5, <3>2, <3>3, <4>1, <4>3
    <3>8. CASE Remember(h) \/ EndRun(h) \/ \E d \in Docs : Send(h, d)
      <4>1. /\ session'[h].published = session[h].published /\ session'[h].owed = session[h].owed
            /\ session'[h].failed = session[h].failed
            /\ session[h].run # "reading" /\ session'[h].run # "reading"
        BY <3>8, Runs DEF SessionInv
      <4>2. ASSUME Due PROVE session'[h].failed \/ session'[h].published = Found(h)
        BY <1>0, <2>5, <4>1, <4>2
      <4>. QED
        BY <1>00, <2>1, <2>5, <3>2, <3>3, <4>1, <4>2
    <3>9. ~Abort(h)
      BY <3>1 DEF Abort
    <3>. QED
      BY <1>8, <3>4, <3>5, <3>6, <3>7, <3>8, <3>9 DEF Run
  <2>. QED
    BY <2>4, <2>5
<1>9. CASE Ask
  <2>1. UNCHANGED <<outside, live, session, worker, work>>
    BY <1>9 DEF Ask
  <2>. QED
    BY <1>00, <1>000, <2>1 DEF outside, HasSession
<1>10. CASE RequestSchedules
  <2>1. request \in Handles /\ session' = Scheduled(request) /\ UNCHANGED <<outside, live, worker, work>>
    BY <1>10 DEF RequestSchedules, TypeOK
  <2>2. PICK r \in Handles : r = request
    BY <2>1
  <2>3. Others(r) /\ (session[r].open => session'[r].owed)
    BY <2>1, <2>2, Schedules
  <2>4. CASE r = live
    <3>1. session'[live].owed
      BY <2>2, <2>3, <2>4 DEF SessionInv
    <3>. QED
      BY <1>00, <2>1, <3>1
  <2>5. CASE r # live
    <3>1. HasSession => session'[live] = session[live]
      BY <2>3, <2>5 DEF Others, HasSession
    <3>2. Due' => Due
      BY <2>1, <3>1 DEF HasSession
    <3>. QED
      BY <1>00, <1>000, <2>1, <3>1, <3>2 DEF outside
  <2>. QED
    BY <2>4, <2>5
<1>11. CASE UNCHANGED vars
  <2>1. UNCHANGED <<disk, live, session, worker, work>>
    BY <1>11 DEF vars
  <2>. QED
    BY <1>00, <1>000, <2>1 DEF HasSession
<1>. QED
  BY <1>1, <1>2, <1>3, <1>4, <1>5, <1>6, <1>7, <1>8, <1>9, <1>10, <1>11 DEF Next, WorkerStep

\* Whenever requests schedule sessions, at every moment of any number of rebuilds: whatever
\* the editor displays can be taken back, but for what a fresh session reported before its
\* rebuild returned.
THEOREM NothingIsStranded == Spec => []NothingStranded
<1>1. Init => TypeOK /\ SessionInv /\ ShownInv
  BY InitTyped, InitSession, InitShown
<1>2. TypeOK /\ SessionInv /\ ShownInv /\ [Next]_vars => (TypeOK /\ SessionInv /\ ShownInv)'
  BY TypeStep, SessionStep, ShownStep
<1>3. ShownInv => NothingStranded
  BY DEF ShownInv
<1>. QED
  BY <1>1, <1>2, <1>3, PTL DEF Spec

\* Once all is settled the editor displays what the live session published last, again but
\* for those early reports, and that is what it finds in its view of the bundle as it is
\* now, unless its last load failed.
THEOREM ShowsWhatIsFound == Spec => []ShownIsFound
<1>1. Init => TypeOK /\ SessionInv /\ ShownInv /\ FoundInv
  <2>1. Init => FoundInv
    BY DiagnosticsAssumption DEF Init, FoundInv, HasSession
  <2>. QED
    BY <2>1, InitTyped, InitSession, InitShown
<1>2. TypeOK /\ SessionInv /\ ShownInv /\ FoundInv /\ [Next]_vars => (TypeOK /\ SessionInv /\ ShownInv /\ FoundInv)'
  BY TypeStep, SessionStep, ShownStep, FoundStep
<1>3. TypeOK /\ SessionInv /\ ShownInv /\ FoundInv => ShownIsFound
  <2>. SUFFICES ASSUME TypeOK, SessionInv, ShownInv, FoundInv, Settled
                PROVE  /\ shown \ early = IF HasSession THEN session[live].published \ early ELSE {}
                       /\ HasSession /\ ~session[live].failed => session[live].published = Found(live)
    BY DEF ShownIsFound
  <2>1. work = <<>> /\ Len(work) = 0 /\ worker.at = "idle" /\ ~Rebuilding
    BY Constants DEF Settled, Rebuilding
  <2>2. Told /\ shown \in SUBSET Docs
    BY ShownParts DEF TypeOK
  <2>3. CASE HasSession
    <3>1. live \in Handles /\ ~session[live].owed /\ session[live].run = "none"
      BY <2>3 DEF HasSession, Settled
    <3>2. ~session[live].failed => session[live].published = Found(live)
      BY <2>1, <2>3, <3>1 DEF FoundInv
    <3>3. session[live].published \in SUBSET Docs /\ Untold(live) = {}
      BY <3>1 DEF TypeOK, Session, Untold
    <3>. QED
      BY <2>1, <2>2, <2>3, <3>2, <3>3 DEF Told
  <2>4. CASE ~HasSession
    BY <2>1, <2>2, <2>4 DEF Told
  <2>. QED
    BY <2>3, <2>4
<1>. QED
  BY <1>1, <1>2, <1>3, PTL DEF Spec

----------------------------------------------------------------------------
(* The open documents are carried, while the config loads. *)
Tracks == {"open", "change", "close"}
Latest(d, i) == i \in Queued(d) /\ \A j \in Queued(d) : j <= i
Behind(d) == IF Queued(d) = {} THEN memory[d] = buffer[d] ELSE \A i \in Queued(d) : Latest(d, i) => work[i].text = buffer[d]

Carried == /\ live # "failed"
           /\ live = "unbuilt" => memory = NoOverlay
           /\ HasSession /\ ~Rebuilding /\ worker.at # "reopening" => session[live].overlay = memory
           /\ \A d \in Docs : Behind(d)

LEMMA CarriedParts == CarriedInv <=> Carried
BY DEF CarriedInv, Carried, Behind, Latest

\* A step that touches neither the queue nor the memory nor the buffers.
LEMMA BehindSame ==
  ASSUME UNCHANGED <<work, memory, buffer>>, NEW d \in Docs, Behind(d)
  PROVE  Behind(d)'
BY DEF Behind, Latest, Queued

\* What a notification at the end of the queue, or one taken off its head, does to it.
LEMMA BehindEdit ==
  ASSUME TypeOK, NEW d \in Docs, Behind(d), NEW m \in Notification, work' = Append(work, m), memory' = memory,
         IF m.kind \in Tracks /\ m.doc = d THEN m.text = buffer'[d] ELSE buffer'[d] = buffer[d]
  PROVE  Behind(d)'
<1>1. /\ Len(work') = Len(work) + 1 /\ Len(work) \in Nat /\ work'[Len(work) + 1] = m
      /\ \A i \in 1 .. Len(work) : work'[i] = work[i]
  BY Ends
<1>. DEFINE n == Len(work)
            In(i) == work[i].kind \in Tracks /\ work[i].doc = d
            Then(i) == work'[i].kind \in Tracks /\ work'[i].doc = d
<1>2. \A i : i \in Queued(d) <=> i \in 1 .. n /\ In(i)
  BY DEF Queued, Tracks
<1>3. \A i : i \in Queued(d)' <=> i \in 1 .. (n + 1) /\ Then(i)
  BY <1>1 DEF Queued, Tracks
<1>4. \A i : i \in Queued(d)' <=> i \in Queued(d) \/ (i = n + 1 /\ m.kind \in Tracks /\ m.doc = d)
  BY <1>1, <1>2, <1>3
<1>5. CASE m.kind \in Tracks /\ m.doc = d
  <2>1. n + 1 \in Queued(d)'
    BY <1>4, <1>5
  <2>2. \A i \in Queued(d)' : (\A j \in Queued(d)' : j <= i) => i = n + 1
    BY <1>1, <1>3, <2>1
  <2>3. work'[n + 1].text = buffer'[d]
    BY <1>1, <1>5
  <2>. QED
    BY <2>1, <2>2, <2>3 DEF Behind, Latest
<1>6. CASE ~(m.kind \in Tracks /\ m.doc = d)
  <2>1. Queued(d)' = Queued(d)
    BY <1>4, <1>6
  <2>2. \A i \in Queued(d) : work'[i] = work[i]
    BY <1>1, <1>2
  <2>. QED
    BY <1>6, <2>1, <2>2 DEF Behind, Latest
<1>. QED
  BY <1>5, <1>6

LEMMA BehindTaken ==
  ASSUME TypeOK, NEW d \in Docs, Behind(d), work # <<>>, work' = Tail(work), buffer' = buffer,
         NEW e, e = Head(work),
         memory'[d] = IF e.kind \in Tracks /\ e.doc = d THEN e.text ELSE memory[d]
  PROVE  Behind(d)'
<1>1. /\ Len(work') = Len(work) - 1 /\ Len(work) \in Nat /\ Len(work) >= 1 /\ e = work[1]
      /\ \A i \in 1 .. Len(work') : work'[i] = work[i + 1]
  BY Heads
<1>. DEFINE n == Len(work)
            In(i) == work[i].kind \in Tracks /\ work[i].doc = d
            Then(i) == work'[i].kind \in Tracks /\ work'[i].doc = d
<1>2. \A i : i \in Queued(d) <=> i \in 1 .. n /\ In(i)
  BY DEF Queued, Tracks
<1>3. \A i : i \in Queued(d)' <=> i \in 1 .. (n - 1) /\ Then(i)
  BY <1>1 DEF Queued, Tracks
<1>4. \A i \in 1 .. (n - 1) : i \in Queued(d)' <=> i + 1 \in Queued(d)
  BY <1>1, <1>2, <1>3
<1>5. \A i \in Queued(d) : i = 1 \/ i - 1 \in Queued(d)'
  BY <1>1, <1>2, <1>4
<1>6. 1 \in Queued(d) <=> e.kind \in Tracks /\ e.doc = d
  BY <1>1, <1>2
<1>7. CASE Queued(d)' = {}
  <2>1. CASE Queued(d) = {}
    BY <1>6, <1>7, <2>1 DEF Behind
  <2>2. CASE Queued(d) # {}
    <3>1. 1 \in Queued(d) /\ \A j \in Queued(d) : j = 1
      BY <1>5, <1>7, <2>2
    <3>2. work[1].text = buffer[d]
      BY <2>2, <3>1 DEF Behind, Latest
    <3>. QED
      BY <1>1, <1>6, <1>7, <3>1, <3>2 DEF Behind
  <2>. QED
    BY <2>1, <2>2
<1>8. CASE Queued(d)' # {}
  <2>1. ASSUME NEW i \in Queued(d)', \A j \in Queued(d)' : j <= i
        PROVE  work'[i].text = buffer'[d]
    <3>1. i \in 1 .. (n - 1) /\ i + 1 \in Queued(d)
      BY <1>3, <1>4
    <3>2. \A j \in Queued(d) : j <= i + 1
      BY <1>1, <1>2, <1>5, <2>1, <3>1
    <3>3. work[i + 1].text = buffer[d]
      BY <3>1, <3>2 DEF Behind, Latest
    <3>. QED
      BY <1>1, <3>1, <3>3
  <2>. QED
    BY <1>8, <2>1 DEF Behind, Latest
<1>. QED
  BY <1>7, <1>8

\* Carried into a session and recorded are the same change.
LEMMA RecordedIsOverlaid ==
  ASSUME TypeOK, NEW e \in Notification, e.kind \in DocumentKinds, e.doc \in Docs
  PROVE  /\ session[live].overlay = memory => Overlaid(e) = Recorded(e)
         /\ \A d \in Docs : Recorded(e)[d] = IF e.kind \in Tracks /\ e.doc = d THEN e.text ELSE memory[d]
<1>1. memory \in [Docs -> Text \union {Absent}] /\ (e.kind = "close" => e.text = Absent)
  BY DEF TypeOK, Notification
<1>2. CASE e.kind \in {"open", "change"}
  BY <1>1, <1>2 DEF Overlaid, Recorded, Tracks
<1>3. CASE e.kind = "close"
  BY <1>1, <1>3 DEF Overlaid, Recorded, Tracks
<1>4. CASE e.kind = "save"
  BY <1>1, <1>4 DEF Overlaid, Recorded, Tracks
<1>. QED
  BY <1>2, <1>3, <1>4 DEF DocumentKinds

LEMMA CarriedStep ==
  ASSUME TypeOK, SessionInv, TypeOK', SessionInv', CarriedInv, valid, [Next]_vars
  PROVE  CarriedInv'
<1>. DEFINE Holds == HasSession /\ ~Rebuilding /\ worker.at # "reopening" => session[live].overlay = memory
<1>0. /\ live # "failed" /\ (live = "unbuilt" => memory = NoOverlay) /\ Holds /\ \A d \in Docs : Behind(d)
      /\ live \in Handles \union {"unbuilt"} /\ \A h \in Handles : h # "unbuilt" /\ h # "failed"
  BY CarriedParts, DiagnosticsAssumption DEF TypeOK, Carried
<1>00. live' # "failed" /\ (live' = "unbuilt" => memory' = NoOverlay) /\ Holds' /\ (\A d \in Docs : Behind(d)') => CarriedInv'
  <2>1. (CarriedInv <=> Carried)'
    BY CarriedParts, PTL
  <2>. QED
    BY <2>1 DEF Carried, NoOverlay
<1>1. CASE Editor \/ \E loads \in BOOLEAN : ConfigChanges(loads)
  <2>1. PICK m \in Notification : /\ work' = Append(work, m) /\ UNCHANGED <<live, session, worker, memory>>
                                  /\ \A d \in Docs : IF m.kind \in {"open", "change", "close"} /\ m.doc = d
                                                     THEN m.text = buffer'[d] ELSE buffer'[d] = buffer[d]
    BY <1>1, Edits
  <2>2. ASSUME NEW d \in Docs PROVE Behind(d)'
    <3>1. IF m.kind \in Tracks /\ m.doc = d THEN m.text = buffer'[d] ELSE buffer'[d] = buffer[d]
      BY <2>1 DEF Tracks
    <3>. QED
      BY <1>0, <2>1, <3>1, BehindEdit
  <2>3. Holds'
    BY <1>0, <2>1 DEF HasSession, Rebuilding
  <2>. QED
    BY <1>0, <1>00, <2>1, <2>2, <2>3
<1>2. CASE BuildOwner \/ Swap
  <2>1. Build /\ UNCHANGED <<work, memory, buffer>>
    BY <1>2 DEF BuildOwner, Swap, outside
  <2>2. PICK h \in Handles : live' = h /\ session'[h] = Fresh
    BY <2>1, Builds
  <2>3. \A d \in Docs : Behind(d)'
    BY <1>0, <2>1, BehindSame
  <2>4. Holds'
    <3>1. CASE BuildOwner
      <4>1. live = "unbuilt"
        BY <1>0, <3>1 DEF BuildOwner, NeedsBuild
      <4>. QED
        BY <1>0, <2>1, <2>2, <4>1, Constants
    <3>2. CASE Swap
      <4>1. worker'.at = "closing"
        BY <3>2, Moves
      <4>. QED
        BY <4>1 DEF Rebuilding
    <3>. QED
      BY <1>2, <3>1, <3>2
  <2>. QED
    BY <1>0, <1>00, <2>2, <2>3, <2>4
<1>3. CASE OnDocumentEvent
  <2>1. PICK e : e = Head(work)
    OBVIOUS
  <2>2. /\ work # <<>> /\ e \in Notification /\ e.kind \in DocumentKinds /\ e.doc \in Docs /\ live' = live /\ work' = Tail(work)
        /\ worker.at \in {"idle", "looked"} /\ buffer' = buffer
        /\ HasSession => session'[live].overlay = Overlaid(e) /\ memory' = Recorded(e)
    BY <1>3, <2>1, Documents DEF outside
  <2>3. HasSession
    <3>1. live # "unbuilt"
      BY <1>3 DEF OnDocumentEvent, NeedsBuild, SessionInv
    <3>. QED
      BY <1>0, <3>1 DEF HasSession
  <2>4. session[live].overlay = memory
    BY <1>0, <2>2, <2>3 DEF Rebuilding
  <2>5. Overlaid(e) = Recorded(e)
        /\ \A d \in Docs : Recorded(e)[d] = IF e.kind \in Tracks /\ e.doc = d THEN e.text ELSE memory[d]
    BY <2>2, <2>4, RecordedIsOverlaid
  <2>6. ASSUME NEW d \in Docs PROVE Behind(d)'
    <3>1. memory'[d] = IF e.kind \in Tracks /\ e.doc = d THEN e.text ELSE memory[d]
      BY <2>2, <2>3, <2>5
    <3>. QED
      BY <1>0, <2>1, <2>2, <3>1, BehindTaken
  <2>7. Holds'
    BY <2>2, <2>3, <2>5
  <2>. QED
    BY <1>0, <1>00, <2>2, <2>3, <2>6, <2>7 DEF HasSession
<1>4. CASE OnWatchedFiles
  <2>1. PICK e : e = Head(work)
    OBVIOUS
  <2>2. /\ worker.at = "idle" /\ work # <<>> /\ work' = Tail(work) /\ UNCHANGED <<buffer, live, memory>>
        /\ e.kind \in {"files", "config"}
        /\ IF HasSession /\ e.kind = "files" THEN session' = Scheduled(live) ELSE session' = session
    BY <1>4, <2>1, Watches DEF outside
  <2>3. ASSUME NEW d \in Docs PROVE Behind(d)'
    <3>1. memory'[d] = IF e.kind \in Tracks /\ e.doc = d THEN e.text ELSE memory[d]
      BY <2>2 DEF Tracks
    <3>. QED
      BY <1>0, <2>1, <2>2, <3>1, BehindTaken
  <2>4. HasSession => session'[live].overlay = session[live].overlay
    <3>1. CASE HasSession /\ e.kind = "files"
      <4>1. live \in Handles /\ session' = Scheduled(live)
        BY <2>2, <3>1 DEF HasSession
      <4>. QED
        BY <2>2, <4>1, Schedules
    <3>2. CASE ~(HasSession /\ e.kind = "files")
      BY <2>2, <3>2
    <3>. QED
      BY <3>1, <3>2
  <2>5. Holds'
    BY <1>0, <2>2, <2>4 DEF HasSession, Rebuilding
  <2>. QED
    BY <1>0, <1>00, <2>2, <2>3, <2>5
<1>5. CASE CloseOld \/ Clear \/ \E d \in Docs : SendClear(d)
  <2>1. worker'.at \in {"awaiting", "clearing"} /\ UNCHANGED <<work, memory, buffer, live>>
    BY <1>5, Moves DEF CloseOld, Clear, SendClear, outside
  <2>2. \A d \in Docs : Behind(d)'
    BY <1>0, <2>1, BehindSame
  <2>. QED
    BY <1>0, <1>00, <2>1, <2>2 DEF Rebuilding
<1>6. CASE Cleared
  <2>1. live' = live /\ worker'.at = (IF HasSession THEN "reopening" ELSE "retrying") /\ UNCHANGED <<work, memory, buffer>>
    BY <1>6, Leaves DEF outside
  <2>2. \A d \in Docs : Behind(d)'
    BY <1>0, <2>1, BehindSame
  <2>. QED
    BY <1>0, <1>00, <2>1, <2>2 DEF HasSession
<1>7. CASE Reopen
  <2>1. HasSession
    BY <1>7 DEF Reopen, SessionInv
  <2>2. live' = live /\ session'[live].overlay = memory /\ UNCHANGED <<work, memory, buffer>>
    BY <1>7, <2>1, Reopens DEF outside
  <2>3. \A d \in Docs : Behind(d)'
    BY <1>0, <2>2, BehindSame
  <2>. QED
    BY <1>0, <1>00, <2>2, <2>3
<1>8. CASE RetryFailed
  <2>1. /\ worker.at = "retrying" /\ live' = live /\ session' = session /\ UNCHANGED <<work, memory, buffer>>
    BY <1>0, <1>8, Retries DEF outside
  <2>2. \A d \in Docs : Behind(d)'
    BY <1>0, <2>1, BehindSame
  <2>. QED
    BY <1>0, <1>00, <2>1, <2>2 DEF HasSession, Rebuilding
<1>9. ASSUME NEW h \in Handles, Run(h) PROVE CarriedInv'
  <2>1. Others(h) /\ UNCHANGED <<live, worker, work, memory, buffer>>
    BY <1>9, Runs DEF outside
  <2>2. session'[h].overlay = session[h].overlay
    BY <1>9, Runs DEF Run
  <2>3. \A d \in Docs : Behind(d)'
    BY <1>0, <2>1, BehindSame
  <2>4. HasSession => session'[live].overlay = session[live].overlay
    BY <2>1, <2>2 DEF Others, HasSession
  <2>5. Holds'
    BY <1>0, <2>1, <2>4 DEF HasSession, Rebuilding
  <2>. QED
    BY <1>0, <1>00, <2>1, <2>3, <2>5
<1>10. CASE Ask \/ UNCHANGED vars
  <2>1. UNCHANGED <<live, worker, session, work, memory, buffer>>
    BY <1>10 DEF Ask, vars, outside
  <2>2. \A d \in Docs : Behind(d)'
    BY <1>0, <2>1, BehindSame
  <2>. QED
    BY <1>0, <1>00, <2>1, <2>2 DEF HasSession, Rebuilding
<1>11. CASE RequestSchedules
  <2>1. request \in Handles /\ session' = Scheduled(request) /\ UNCHANGED <<live, worker, work, memory, buffer>>
    BY <1>11 DEF RequestSchedules, TypeOK, outside
  <2>2. PICK r \in Handles : r = request
    BY <2>1
  <2>3. Others(r) /\ session'[r].overlay = session[r].overlay
    BY <2>1, <2>2, Schedules
  <2>4. HasSession => session'[live].overlay = session[live].overlay
    BY <2>3 DEF Others, HasSession
  <2>5. \A d \in Docs : Behind(d)'
    BY <1>0, <2>1, BehindSame
  <2>6. Holds'
    BY <1>0, <2>1, <2>4 DEF HasSession, Rebuilding
  <2>. QED
    BY <1>0, <1>00, <2>1, <2>5, <2>6
<1>. QED
  BY <1>1, <1>2, <1>3, <1>4, <1>5, <1>6, <1>7, <1>8, <1>9, <1>10, <1>11 DEF Next, WorkerStep

\* As long as the config loads, across any number of rebuilds: once all is settled, the
\* live session's overlay is the editor's buffers, each with its current text and no other.
THEOREM BuffersAreCarried == Spec => BuffersCarriedWhileValid
<1>1. Init => TypeOK /\ SessionInv /\ CarriedInv
  <2>1. Init => CarriedInv
    BY DiagnosticsAssumption DEF Init, CarriedInv, HasSession, Queued, NoOverlay
  <2>. QED
    BY <2>1, InitTyped, InitSession
<1>2. TypeOK /\ SessionInv /\ [Next]_vars => (TypeOK /\ SessionInv)'
  BY TypeStep, SessionStep
<1>3. TypeOK /\ SessionInv /\ (TypeOK /\ SessionInv)' /\ CarriedInv /\ valid /\ [Next]_vars => CarriedInv'
  BY CarriedStep
<1>4. TypeOK /\ CarriedInv => BuffersCarried
  <2>. SUFFICES ASSUME TypeOK, CarriedInv, Settled, HasSession PROVE session[live].overlay = buffer
    BY DEF BuffersCarried
  <2>1. work = <<>> /\ Len(work) = 0 /\ worker.at = "idle" /\ ~Rebuilding
    BY Constants DEF Settled, Rebuilding
  <2>2. \A d \in Docs : Queued(d) = {}
    BY <2>1 DEF Queued
  <2>3. session[live].overlay = memory /\ \A d \in Docs : memory[d] = buffer[d]
    BY <2>1, <2>2 DEF CarriedInv
  <2>. QED
    BY <2>3 DEF TypeOK
<1>. QED
  BY <1>1, <1>2, <1>3, <1>4, PTL DEF Spec, BuffersCarriedWhileValid
=============================================================================
