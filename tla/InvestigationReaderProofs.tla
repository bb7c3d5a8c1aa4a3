---------------------- MODULE InvestigationReaderProofs ----------------------
(***************************************************************************)
(* Proofs about InvestigationReader, for any number of readers, requests,   *)
(* incidents, events, catalogue edits and resets.                          *)
(*                                                                         *)
(* A reader holds no lock.  What it read stays true because a commit only   *)
(* adds to the log (Continues, of AnalysisPublicationProofs), and a reset    *)
(* changes the epoch, by which the last statement of an investigation is     *)
(* refused.                                                                *)
(***************************************************************************)
EXTENDS InvestigationReader, AnalysisPublicationProofs

(* The invariants of the writers.                                          *)
DatabaseInv == TypeOK /\ JobInv /\ PublicationInv /\ HistoryInv

(* What a reader knows of the incident whose pointer it read.              *)
PointerRead(r) ==
    LET p == page[r] IN
    /\ p.epoch <= epoch
    /\ p.outcome # "unasked" =>
          /\ p.inc \in Incidents
          /\ p.endpoint \in Endpoints
          /\ SameDemo(r) => p.run <= db.current[p.inc]
    /\ p.outcome = "reading" => p.run # 0
    /\ p.outcome = "STALE_ANALYSIS" /\ SameDemo(r) =>
          db.current[p.inc] # p.run

(* How far an investigation has come.  Before its last statement this is    *)
(* known only while the demo has not been reset.                           *)
InvestigationRead(r) ==
    LET p == page[r] IN
    /\ p.endpoint = "investigation"
    /\ p.outcome \in {"reading", "ANSWERED"}
    =>
    /\ p.outcome = "ANSWERED" => p.next > 7
    /\ p.next > 7 => p.rows = Children /\ p.inputs \subseteq p.timeline
    /\ SameDemo(r) =>
          /\ p.next > 1 => /\ p.run \in 1..Len(db.runs[p.inc])
                           /\ IsPublished(db.runs[p.inc][p.run])
                           /\ p.inputs \subseteq db.attached[p.inc]
          /\ p.next > 2 => "evidence" \in p.rows
          /\ p.next > 3 => p.inputs \subseteq p.timeline
          /\ p.next > 5 => "hypotheses" \in p.rows
          /\ p.next > 6 => "recommendations" \in p.rows

ReaderInv(r) == PointerRead(r) /\ InvestigationRead(r)

ReadersInv ==
    /\ DatabaseInv
    /\ ReaderTypeOK
    /\ \A r \in Readers : ReaderInv(r)

-----------------------------------------------------------------------------
(* The database, with resets.                                              *)

(* A reset finds no request in flight, and leaves an empty database.        *)
LEMMA ResetKeeps == DatabaseInv /\ Reset => DatabaseInv'
<1> SUFFICES ASSUME DatabaseInv, Reset PROVE DatabaseInv'
  OBVIOUS
<1>1. /\ db' = EmptyImage /\ tx' = EmptyImage /\ writer' = NoRequest
      /\ UNCHANGED <<savepoint, orchestratorLock, version, pc, job>>
      /\ \A q \in Requests : pc[q] \in {"new", "done"}
  BY DEF Reset, CommitAs
<1>2. EmptyImage \in Image
  BY DEF EmptyImage, Image, IncidentStatus
<1>3. TypeOK' /\ JobInv'
  BY <1>1, <1>2 DEF DatabaseInv, TypeOK, JobInv, Analysing, Publishing
<1>4. ImageSettled(EmptyImage)
  BY DEF EmptyImage, ImageSettled, Settled, SettledRow
<1>5. ImageSettled(db)'
  BY <1>1, <1>4 DEF ImageSettled, Settled, SettledRow
<1>6. \A r \in Requests : StageInv(r)'
  BY <1>1, NoRequestAssumption
     DEF DatabaseInv, PublicationInv, StageInv, HoldsWriter, Publishing
<1>7. Covered(db)'
  BY <1>1 DEF EmptyImage, Covered
<1>8. \A r \in Requests : RequestHistory(r)'
  BY <1>1, NoRequestAssumption
     DEF RequestHistory, LoadedInv, InputsInv, SessionInv, SavepointInv,
         PublishingInv, Publishing, Analysing
<1> QED
  BY <1>1, <1>3, <1>5, <1>6, <1>7, <1>8
     DEF DatabaseInv, PublicationInv, HistoryInv

(* Writers keep the database's invariants and only add to it.              *)
LEMMA WritersContinue ==
    ASSUME DatabaseInv, [Next]_vars
    PROVE  DatabaseInv' /\ Continues(db, db')
<1>1. TypeOK' /\ JobInv'
  BY TypeStep DEF DatabaseInv
<1>2. PublicationInv'
  BY PublicationStep DEF DatabaseInv
<1>3. HistoryInv' /\ Continues(db, db')
  BY <1>1, HistoryStep DEF DatabaseInv
<1> QED
  BY <1>1, <1>2, <1>3 DEF DatabaseInv

-----------------------------------------------------------------------------
(* The readers.                                                            *)

(* The places of the statements of an investigation.                       *)
LEMMA InvestigationOrder ==
    ASSUME NEW n \in Nat
    PROVE  LET s == Statements("investigation") IN
           /\ Len(s) = 7
           /\ n \in 1..7 =>
                 /\ s[n] = "run" => n = 1
                 /\ s[n] = "evidence" => n = 2
                 /\ s[n] = "evaluations" => n = 3
                 /\ s[n] = "events" => n = 4
                 /\ s[n] = "hypotheses" => n = 5
                 /\ s[n] = "recommendations" => n = 6
                 /\ s[n] = "explanation" => n = 7
<1>1. Statements("investigation") =
        <<"run", "evidence", "evaluations", "events", "hypotheses",
          "recommendations", "explanation">>
  BY DEF Statements
<1> QED
  BY <1>1

(* What a reader knows survives every commit, and a reset ends it.         *)
LEMMA ReaderStays ==
    ASSUME DatabaseInv, DatabaseInv', NEW r \in Readers, ReaderTypeOK,
           ReaderInv(r), page'[r] = page[r],
           \/ Continues(db, db') /\ epoch' = epoch
           \/ epoch' = epoch + 1
    PROVE  ReaderInv(r)'
<1> DEFINE p == page[r]
<1>1. p \in Page /\ p.epoch \in Nat /\ p.run \in Nat /\ epoch \in Nat
  BY MaxEpochAssumption DEF ReaderTypeOK, Page
<1>2. CASE epoch' = epoch + 1
  <2>1. p.epoch <= epoch
    BY DEF ReaderInv, PointerRead
  <2>2. p.epoch <= epoch' /\ ~SameDemo(r)'
    BY <1>1, <1>2, <2>1 DEF SameDemo
  <2> QED
    BY <2>2 DEF ReaderInv, PointerRead, InvestigationRead
<1>3. CASE Continues(db, db') /\ epoch' = epoch
  <2>1. SameDemo(r)' = SameDemo(r)
    BY <1>3 DEF SameDemo
  <2>2. ASSUME p.inc \in Incidents
        PROVE  /\ db.attached[p.inc] \subseteq db'.attached[p.inc]
               /\ db.current[p.inc] <= db'.current[p.inc]
               /\ db.current[p.inc] \in Nat /\ db'.current[p.inc] \in Nat
               /\ Len(db.runs[p.inc]) \in Nat /\ Len(db'.runs[p.inc]) \in Nat
               /\ Len(db.runs[p.inc]) <= Len(db'.runs[p.inc])
               /\ KeepsRows(db, db', p.inc)
    BY <1>3, <2>2, ContinuesKeeps, LenRuns
       DEF DatabaseInv, TypeOK, PublicationInv
  <2>3. PointerRead(r)'
    <3>1. p.outcome # "unasked" =>
            /\ p.inc \in Incidents
            /\ SameDemo(r) => p.run <= db'.current[p.inc]
            /\ SameDemo(r) /\ db.current[p.inc] # p.run =>
                  db'.current[p.inc] # p.run
      BY <1>1, <2>2 DEF ReaderInv, PointerRead
    <3> QED
      BY <1>3, <2>1, <3>1 DEF ReaderInv, PointerRead
  <2>4. InvestigationRead(r)'
    <3> SUFFICES ASSUME p.endpoint = "investigation",
                        p.outcome \in {"reading", "ANSWERED"}
                 PROVE  InvestigationRead(r)'
      BY DEF InvestigationRead
    <3>1. p.inc \in Incidents
      BY DEF ReaderInv, PointerRead
    <3>2. ASSUME p.run \in 1..Len(db.runs[p.inc]),
                 IsPublished(db.runs[p.inc][p.run]),
                 p.inputs \subseteq db.attached[p.inc]
          PROVE  /\ p.run \in 1..Len(db'.runs[p.inc])
                 /\ IsPublished(db'.runs[p.inc][p.run])
                 /\ p.inputs \subseteq db'.attached[p.inc]
      <4>1. p.run \in 1..Len(db'.runs[p.inc])
        <5>1. /\ Len(db.runs[p.inc]) \in Nat /\ Len(db'.runs[p.inc]) \in Nat
              /\ Len(db.runs[p.inc]) <= Len(db'.runs[p.inc])
          BY <2>2, <3>1
        <5>2. p.run \in 1..Len(db.runs[p.inc])
          BY ONLY <3>2
        <5> HIDE DEF p
        <5> QED
          BY ONLY <5>1, <5>2
      <4>2. IsPublished(db'.runs[p.inc][p.run])
        BY <2>2, <3>1, <3>2 DEF KeepsRows
      <4> QED
        BY <2>2, <3>1, <3>2, <4>1, <4>2
    <3> QED
      BY <2>1, <3>2 DEF ReaderInv, InvestigationRead
  <2> QED
    BY <2>3, <2>4 DEF ReaderInv
<1> QED
  BY <1>2, <1>3

(* A reader's step reads the database as committed at that moment.         *)
LEMMA OwnRead ==
    ASSUME ReadersInv, NEW r \in Readers, UNCHANGED <<vars, epoch>>,
           NEW p \in Page, page' = [page EXCEPT ![r] = p],
           ReaderInv(r)'
    PROVE  ReadersInv'
<1>1. DatabaseInv' /\ db' = db
  BY WritersContinue DEF ReadersInv, vars
<1>2. ReaderTypeOK'
  BY DEF ReadersInv, ReaderTypeOK
<1>3. ASSUME NEW q \in Readers \ {r} PROVE ReaderInv(q)'
  <2>1. page'[q] = page[q] /\ Continues(db, db') /\ epoch' = epoch
    BY <1>1, ContinuesItself DEF ReadersInv, ReaderTypeOK
  <2> QED
    BY <1>1, <2>1, ReaderStays DEF ReadersInv
<1> QED
  BY <1>1, <1>2, <1>3 DEF ReadersInv

(* The incident is read, and with it the pointer.                          *)
LEMMA RequestRead ==
    ASSUME ReadersInv, NEW r \in Readers, Request(r)
    PROVE  ReadersInv'
<1>1. PICK endpoint \in Endpoints, i \in Incidents :
        LET opened == [EmptyPage EXCEPT !.endpoint = endpoint, !.inc = i,
                           !.epoch = epoch, !.run = db.current[i]]
            outcome == CASE db.status[i] = "absent" -> "NOT_FOUND"
                         [] db.status[i] # "absent" /\ db.current[i] = 0 ->
                               "ANALYSIS_NOT_AVAILABLE"
                         [] OTHER -> "reading"
        IN page' = [page EXCEPT ![r] =
                      [opened EXCEPT !.next = 1, !.outcome = outcome]]
  BY DEF Request
<1>2. db.current[i] \in Nat /\ epoch \in Nat
  BY LenRuns, MaxEpochAssumption
     DEF ReadersInv, DatabaseInv, TypeOK, ReaderTypeOK
<1>3. PICK outcome \in {"NOT_FOUND", "ANALYSIS_NOT_AVAILABLE", "reading"} :
        /\ outcome = "reading" => db.current[i] # 0
        /\ page' = [page EXCEPT ![r] =
                      [EmptyPage EXCEPT !.endpoint = endpoint, !.inc = i,
                           !.epoch = epoch, !.run = db.current[i],
                           !.next = 1, !.outcome = outcome]]
  BY <1>1 DEF EmptyPage
<1> DEFINE p == [EmptyPage EXCEPT !.endpoint = endpoint, !.inc = i,
                     !.epoch = epoch, !.run = db.current[i],
                     !.next = 1, !.outcome = outcome]
<1>4. p \in Page
  BY <1>2, <1>3 DEF EmptyPage, Page, Outcomes
<1>5. /\ p.endpoint = endpoint /\ p.inc = i /\ p.epoch = epoch
      /\ p.run = db.current[i] /\ p.next = 1 /\ p.outcome = outcome
  BY DEF EmptyPage
<1>6. page' = [page EXCEPT ![r] = p] /\ UNCHANGED <<vars, epoch>>
  BY <1>3 DEF Request
<1> HIDE DEF p
<1>7. page'[r] = p /\ db' = db /\ epoch' = epoch
  BY <1>6 DEF ReadersInv, ReaderTypeOK, vars
<1>8. ReaderInv(r)'
  BY <1>2, <1>3, <1>5, <1>7 DEF ReaderInv, PointerRead, InvestigationRead
<1> QED
  BY <1>4, <1>6, <1>8, OwnRead

(* A response ends the reading and changes nothing else.                   *)
LEMMA Responded ==
    ASSUME ReadersInv, NEW r \in Readers, UNCHANGED <<vars, epoch>>,
           page[r].outcome = "reading",
           NEW outcome \in {"NOT_FOUND", "STALE_ANALYSIS", "ANSWERED"},
           outcome = "STALE_ANALYSIS" /\ SameDemo(r) =>
               db.current[page[r].inc] # page[r].run,
           outcome = "ANSWERED" /\ page[r].endpoint = "investigation" =>
               page[r].next > 7,
           Respond(r, outcome)
    PROVE  ReadersInv'
<1> DEFINE p == [page[r] EXCEPT !.outcome = outcome]
<1>1. page[r] \in Page /\ ReaderInv(r)
  BY DEF ReadersInv, ReaderTypeOK
<1>2. p \in Page
  BY <1>1 DEF Page, Outcomes
<1>3. page' = [page EXCEPT ![r] = p]
  BY DEF Respond
<1>4. /\ p.endpoint = page[r].endpoint /\ p.inc = page[r].inc
      /\ p.epoch = page[r].epoch /\ p.run = page[r].run
      /\ p.next = page[r].next /\ p.rows = page[r].rows
      /\ p.inputs = page[r].inputs /\ p.timeline = page[r].timeline
      /\ p.outcome = outcome
  BY <1>1 DEF Page
<1> HIDE DEF p
<1>5. page'[r] = p /\ db' = db /\ epoch' = epoch
  BY <1>3 DEF ReadersInv, ReaderTypeOK, vars
<1>6. PointerRead(r)'
  BY <1>1, <1>4, <1>5 DEF ReaderInv, PointerRead, SameDemo
<1>7. InvestigationRead(r)'
  BY <1>1, <1>4, <1>5 DEF ReaderInv, InvestigationRead, SameDemo
<1> QED
  BY <1>2, <1>3, <1>6, <1>7, OwnRead DEF ReaderInv

(* A statement that continues adds to what the reader has found.           *)
LEMMA Continued ==
    ASSUME ReadersInv, NEW r \in Readers, UNCHANGED <<vars, epoch>>,
           page[r].outcome = "reading",
           NEW inputs \in SUBSET Events, NEW rows \in SUBSET Children,
           NEW timeline \in SUBSET Events,
           Continue(r, [page[r] EXCEPT !.inputs = inputs, !.rows = rows,
                                       !.timeline = timeline]),
           page[r].endpoint = "investigation" =>
              LET n == page[r].next
                  run == page[r].run
                  i == page[r].inc
              IN /\ n > 6 => rows = Children /\ inputs \subseteq timeline
                 /\ SameDemo(r) =>
                       /\ n > 0 => /\ run \in 1..Len(db.runs[i])
                                   /\ IsPublished(db.runs[i][run])
                                   /\ inputs \subseteq db.attached[i]
                       /\ n > 1 => "evidence" \in rows
                       /\ n > 2 => inputs \subseteq timeline
                       /\ n > 4 => "hypotheses" \in rows
                       /\ n > 5 => "recommendations" \in rows
    PROVE  ReadersInv'
<1> DEFINE p == [page[r] EXCEPT !.inputs = inputs, !.rows = rows,
                                !.timeline = timeline, !.next = @ + 1]
<1>1. page[r] \in Page /\ ReaderInv(r)
  BY DEF ReadersInv, ReaderTypeOK
<1>2. p \in Page
  <2>1. ASSUME NEW q \in Page PROVE [q EXCEPT !.next = @ + 1] \in Page
    BY DEF Page
  <2>2. [page[r] EXCEPT !.inputs = inputs, !.rows = rows,
                        !.timeline = timeline] \in Page
    BY <1>1 DEF Page
  <2>3. p = [[page[r] EXCEPT !.inputs = inputs, !.rows = rows,
                             !.timeline = timeline] EXCEPT !.next = @ + 1]
    BY <1>1 DEF Page
  <2> QED
    BY <2>1, <2>2, <2>3
<1>3. page' = [page EXCEPT ![r] = p]
  BY <1>1 DEF Continue, Page
<1>4. /\ p.endpoint = page[r].endpoint /\ p.inc = page[r].inc
      /\ p.epoch = page[r].epoch /\ p.run = page[r].run
      /\ p.next = page[r].next + 1 /\ page[r].next \in Nat
      /\ p.rows = rows /\ p.inputs = inputs /\ p.timeline = timeline
      /\ p.outcome = "reading"
  BY <1>1 DEF Page
<1> HIDE DEF p
<1>5. page'[r] = p /\ db' = db /\ epoch' = epoch
  BY <1>3 DEF ReadersInv, ReaderTypeOK, vars
<1>6. PointerRead(r)'
  BY <1>1, <1>4, <1>5 DEF ReaderInv, PointerRead, SameDemo
<1>7. InvestigationRead(r)'
  <2> DEFINE n == page[r].next
             run == page[r].run
             i == page[r].inc
  <2> SUFFICES ASSUME page[r].endpoint = "investigation"
               PROVE  InvestigationRead(r)'
    BY <1>4, <1>5 DEF InvestigationRead
  <2>1. /\ n + 1 > 7 => n > 6
        /\ n + 1 > 6 => n > 5
        /\ n + 1 > 5 => n > 4
        /\ n + 1 > 3 => n > 2
        /\ n + 1 > 2 => n > 1
        /\ n + 1 > 1 => n > 0
    BY <1>4
  <2>2. SameDemo(r)' => SameDemo(r)
    BY <1>4, <1>5 DEF SameDemo
  <2>3. n + 1 > 7 => rows = Children /\ inputs \subseteq timeline
    BY <2>1
  <2>4. SameDemo(r)' =>
           /\ n + 1 > 1 => /\ run \in 1..Len(db.runs[i])
                           /\ IsPublished(db.runs[i][run])
                           /\ inputs \subseteq db.attached[i]
           /\ n + 1 > 2 => "evidence" \in rows
           /\ n + 1 > 3 => inputs \subseteq timeline
           /\ n + 1 > 5 => "hypotheses" \in rows
           /\ n + 1 > 6 => "recommendations" \in rows
    BY <2>1, <2>2
  <2>5. p.outcome # "ANSWERED"
    BY <1>4
  <2> QED
    BY <1>4, <1>5, <2>3, <2>4, <2>5 DEF InvestigationRead
<1> QED
  BY <1>2, <1>3, <1>6, <1>7, OwnRead DEF ReaderInv

(* Where a statement of an investigation stands.                           *)
LEMMA AtStatement ==
    ASSUME ReadersInv, NEW r \in Readers, NEW statement, At(r, statement)
    PROVE  /\ page[r].outcome = "reading"
           /\ UNCHANGED <<vars, epoch>>
           /\ page[r] \in Page /\ ReaderInv(r)
           /\ page[r].inc \in Incidents
           /\ page[r].run \in Nat /\ page[r].run # 0
           /\ page[r].next \in Nat
           /\ page[r].inputs \in SUBSET Events
           /\ page[r].rows \in SUBSET Children
           /\ page[r].timeline \in SUBSET Events
           /\ page[r].endpoint = "investigation" =>
                 /\ statement = "run" => page[r].next = 1
                 /\ statement = "evidence" => page[r].next = 2
                 /\ statement = "evaluations" => page[r].next = 3
                 /\ statement = "events" => page[r].next = 4
                 /\ statement = "hypotheses" => page[r].next = 5
                 /\ statement = "recommendations" => page[r].next = 6
                 /\ statement = "explanation" => page[r].next = 7
<1>1. page[r].outcome = "reading" /\ page[r] \in Page /\ ReaderInv(r)
  BY DEF At, ReadersInv, ReaderTypeOK
<1>2. /\ page[r].inc \in Incidents
      /\ page[r].run \in Nat /\ page[r].run # 0
      /\ page[r].next \in Nat
      /\ page[r].inputs \in SUBSET Events
      /\ page[r].rows \in SUBSET Children
      /\ page[r].timeline \in SUBSET Events
  BY <1>1 DEF ReaderInv, PointerRead, Page
<1>3. /\ page[r].next \in 1..Len(Statements(page[r].endpoint))
      /\ Statements(page[r].endpoint)[page[r].next] = statement
      /\ UNCHANGED <<vars, epoch>>
  BY DEF At
<1>4. ASSUME page[r].endpoint = "investigation"
      PROVE  page[r].next \in 1..7
  BY <1>2, <1>3, <1>4, InvestigationOrder
<1> QED
  BY <1>1, <1>2, <1>3, <1>4, InvestigationOrder

(* The run that the pointer names is current, so its inputs are attached,   *)
(* or the pointer has moved.                                               *)
LEMMA RunRead ==
    ASSUME ReadersInv, NEW r \in Readers, ReadRun(r) \/ ReadRunStale(r)
    PROVE  ReadersInv'
<1> DEFINE i == page[r].inc
           run == page[r].run
<1>1. /\ At(r, "run")
      /\ db \in Image /\ ImageSettled(db) /\ Covered(db)
  BY DEF ReadRun, ReadRunStale, ReadersInv, DatabaseInv, TypeOK,
         PublicationInv, HistoryInv
<1>2. /\ page[r].outcome = "reading" /\ UNCHANGED <<vars, epoch>>
      /\ page[r] \in Page /\ ReaderInv(r) /\ i \in Incidents
      /\ run \in Nat /\ run # 0
      /\ page[r].rows \in SUBSET Children
      /\ page[r].timeline \in SUBSET Events
      /\ page[r].endpoint = "investigation" => page[r].next = 1
  BY <1>1, AtStatement
<1>3. CASE ReadRun(r)
  <2> DEFINE inputs == db.runs[i][run].fp.events
  <2>1. run \in 1..Len(db.runs[i]) /\ db.runs[i][run].status = "current"
    BY <1>3 DEF ReadRun, PointsToCurrent, CurrentRevisions
  <2>2. inputs \in SUBSET Events /\ inputs \subseteq db.attached[i]
    BY <1>1, <1>2, <2>1, LenRuns DEF Run, Fingerprint, Covered
  <2>3. Continue(r, [page[r] EXCEPT !.inputs = inputs,
                                    !.rows = page[r].rows,
                                    !.timeline = page[r].timeline])
    <3>1. [page[r] EXCEPT !.inputs = inputs, !.rows = page[r].rows,
                          !.timeline = page[r].timeline]
             = [page[r] EXCEPT !.inputs = inputs]
      BY <1>2 DEF Page
    <3> QED
      BY <1>3, <3>1 DEF ReadRun
  <2> HIDE DEF inputs
  <2>4. IsPublished(db.runs[i][run])
    BY <2>1 DEF IsPublished
  <2>5. page[r].endpoint = "investigation" =>
           LET n == page[r].next IN
           /\ ~(n > 6) /\ ~(n > 1) /\ ~(n > 2) /\ ~(n > 4) /\ ~(n > 5)
    BY <1>2
  <2> QED
    BY <1>2, <2>1, <2>2, <2>3, <2>4, <2>5, Continued
<1>4. CASE ReadRunStale(r)
  <2>1. ASSUME SameDemo(r), db.current[i] = run PROVE FALSE
    <3>1. run \in 1..Len(db.runs[i])
      BY <1>1, <1>2, <2>1, LenRuns DEF ImageSettled, Settled
    <3>2. db.runs[i][run].status = "current"
      BY <1>1, <1>2, <2>1, <3>1 DEF ImageSettled, Settled, SettledRow
    <3> QED
      BY <1>4, <2>1, <3>1, <3>2
         DEF ReadRunStale, PointsToCurrent, CurrentRevisions
  <2> QED
    BY <1>2, <1>4, <2>1, Responded DEF ReadRunStale
<1> QED
  BY <1>3, <1>4

(* Children are found while the demo and its run are.                      *)
LEMMA ChildrenRead ==
    ASSUME ReadersInv, NEW r \in Readers, ReadChildren(r)
    PROVE  ReadersInv'
<1>1. PICK child \in Children \ {"explanation"} :
        /\ At(r, child)
        /\ IF page[r].endpoint = "explanation" /\ ~ChildrenFound(r)
           THEN Respond(r, "NOT_FOUND")
           ELSE Continue(r, [page[r] EXCEPT
                               !.rows = IF ChildrenFound(r) THEN @ \cup {child}
                                        ELSE @])
  BY DEF ReadChildren
<1> DEFINE rows == IF ChildrenFound(r) THEN page[r].rows \cup {child}
                   ELSE page[r].rows
<1>2. /\ page[r].outcome = "reading" /\ UNCHANGED <<vars, epoch>>
      /\ page[r] \in Page /\ ReaderInv(r)
      /\ page[r].inputs \in SUBSET Events
      /\ rows \in SUBSET Children /\ page[r].rows \subseteq rows
      /\ page[r].timeline \in SUBSET Events
      /\ page[r].endpoint = "investigation" =>
            /\ child = "evidence" => page[r].next = 2
            /\ child = "hypotheses" => page[r].next = 5
            /\ child = "recommendations" => page[r].next = 6
  BY <1>1, AtStatement
<1>3. child \in {"evidence", "hypotheses", "recommendations"}
  BY DEF Children
<1>4. CASE page[r].endpoint = "explanation" /\ ~ChildrenFound(r)
  BY <1>1, <1>2, <1>4, Responded
<1>5. CASE ~(page[r].endpoint = "explanation" /\ ~ChildrenFound(r))
  <2>1. Continue(r, [page[r] EXCEPT !.inputs = page[r].inputs, !.rows = rows,
                                    !.timeline = page[r].timeline])
    <3>1. [page[r] EXCEPT !.inputs = page[r].inputs, !.rows = rows,
                          !.timeline = page[r].timeline]
             = [page[r] EXCEPT !.rows = rows]
      BY <1>2 DEF Page
    <3> QED
      BY <1>1, <1>2, <1>5, <3>1 DEF Page
  <2>2. ASSUME page[r].endpoint = "investigation", SameDemo(r)
        PROVE  child \in rows
    BY <1>2, <1>3, <2>2, SMTT(30)
       DEF ReaderInv, InvestigationRead, ChildrenFound, Published, IsPublished
  <2> HIDE DEF rows
  <2>3. ASSUME page[r].endpoint = "investigation"
        PROVE  LET n == page[r].next
                   run == page[r].run
                   i == page[r].inc
               IN /\ ~(n > 6)
                  /\ SameDemo(r) =>
                       /\ n > 0 => /\ run \in 1..Len(db.runs[i])
                                   /\ IsPublished(db.runs[i][run])
                                   /\ page[r].inputs \subseteq db.attached[i]
                       /\ n > 1 => "evidence" \in rows
                       /\ n > 2 => page[r].inputs \subseteq page[r].timeline
                       /\ n > 4 => "hypotheses" \in rows
                       /\ n > 5 => "recommendations" \in rows
    <3>1. CASE child = "evidence"
      BY <1>2, <2>2, <2>3, <3>1 DEF ReaderInv, InvestigationRead
    <3>2. CASE child = "hypotheses"
      BY <1>2, <2>2, <2>3, <3>2 DEF ReaderInv, InvestigationRead
    <3>3. CASE child = "recommendations"
      BY <1>2, <2>2, <2>3, <3>3 DEF ReaderInv, InvestigationRead
    <3> QED
      BY <1>3, <3>1, <3>2, <3>3
  <2> QED
    BY <1>2, <2>1, <2>3, Continued
<1> QED
  BY <1>4, <1>5

(* The timeline is read after the inputs, and only grows until then.       *)
LEMMA TimelineRead ==
    ASSUME ReadersInv, NEW r \in Readers, ReadEvaluations(r) \/ ReadEvents(r)
    PROVE  ReadersInv'
<1>1. PICK timeline \in SUBSET Events :
        /\ \/ At(r, "evaluations")
           \/ At(r, "events")
        /\ At(r, "evaluations") /\ SameDemo(r) =>
              timeline = db.attached[page[r].inc]
        /\ At(r, "events") /\ SameDemo(r) => timeline = page[r].timeline
        /\ Continue(r, [page[r] EXCEPT !.timeline = timeline])
  <2>1. ASSUME At(r, "evaluations") PROVE ~At(r, "events")
    BY <2>1 DEF At
  <2>2. CASE ReadEvaluations(r)
    <3>1. page[r].inc \in Incidents /\ db \in Image
      BY <2>2, AtStatement
         DEF ReadEvaluations, ReadersInv, DatabaseInv, TypeOK
    <3>2. (IF SameDemo(r) THEN db.attached[page[r].inc] ELSE {})
             \in SUBSET Events
      BY <3>1 DEF Image
    <3> QED
      BY <2>1, <2>2, <3>2 DEF ReadEvaluations
  <2>3. CASE ReadEvents(r)
    <3>1. page[r].timeline \in SUBSET Events
      BY <2>3, AtStatement DEF ReadEvents
    <3> QED
      BY <2>1, <2>3, <3>1 DEF ReadEvents
  <2> QED
    BY <2>2, <2>3
<1>2. /\ page[r].outcome = "reading" /\ UNCHANGED <<vars, epoch>>
      /\ page[r] \in Page /\ ReaderInv(r)
      /\ page[r].inputs \in SUBSET Events
      /\ page[r].rows \in SUBSET Children
      /\ page[r].endpoint = "investigation" =>
            /\ At(r, "evaluations") => page[r].next = 3
            /\ At(r, "events") => page[r].next = 4
  BY <1>1, AtStatement
<1>3. Continue(r, [page[r] EXCEPT !.inputs = page[r].inputs,
                                  !.rows = page[r].rows,
                                  !.timeline = timeline])
  <2>1. [page[r] EXCEPT !.inputs = page[r].inputs, !.rows = page[r].rows,
                        !.timeline = timeline]
           = [page[r] EXCEPT !.timeline = timeline]
    BY <1>2 DEF Page
  <2> QED
    BY <1>1, <2>1
<1>4. ASSUME page[r].endpoint = "investigation"
      PROVE  LET n == page[r].next
                 run == page[r].run
                 i == page[r].inc
             IN /\ ~(n > 6) /\ ~(n > 5) /\ ~(n > 4)
                /\ SameDemo(r) =>
                     /\ run \in 1..Len(db.runs[i])
                     /\ IsPublished(db.runs[i][run])
                     /\ page[r].inputs \subseteq db.attached[i]
                     /\ "evidence" \in page[r].rows
                     /\ page[r].inputs \subseteq timeline
  <2>1. CASE At(r, "evaluations")
    BY <1>1, <1>2, <1>4, <2>1 DEF ReaderInv, InvestigationRead
  <2>2. CASE At(r, "events")
    BY <1>1, <1>2, <1>4, <2>2 DEF ReaderInv, InvestigationRead
  <2> QED
    BY <1>1, <2>1, <2>2
<1> QED
  BY <1>2, <1>3, <1>4, Continued

(* The explanation is found only in the demo in which the reading began,    *)
(* and then so was everything before it.                                   *)
LEMMA ExplanationRead ==
    ASSUME ReadersInv, NEW r \in Readers, ReadExplanation(r) \/ Answer(r)
    PROVE  ReadersInv'
<1>1. CASE ReadExplanation(r)
  <2>1. At(r, "explanation")
    BY <1>1 DEF ReadExplanation
  <2>2. /\ page[r].outcome = "reading" /\ UNCHANGED <<vars, epoch>>
        /\ page[r] \in Page /\ ReaderInv(r)
        /\ page[r].inputs \in SUBSET Events
        /\ page[r].rows \in SUBSET Children
        /\ page[r].timeline \in SUBSET Events
        /\ page[r].endpoint = "investigation" => page[r].next = 7
    BY <2>1, AtStatement
  <2>3. CASE ~ChildrenFound(r)
    BY <1>1, <2>2, <2>3, Responded DEF ReadExplanation
  <2>4. CASE ChildrenFound(r)
    <3> DEFINE rows == page[r].rows \cup {"explanation"}
    <3>1. rows \in SUBSET Children
      BY <2>2 DEF Children
    <3>2. Continue(r, [page[r] EXCEPT !.inputs = page[r].inputs, !.rows = rows,
                                      !.timeline = page[r].timeline])
      <4>1. [page[r] EXCEPT !.inputs = page[r].inputs, !.rows = rows,
                            !.timeline = page[r].timeline]
               = [page[r] EXCEPT !.rows = rows]
        BY <2>2 DEF Page
      <4>2. rows = page[r].rows \cup {"explanation"}
        OBVIOUS
      <4> HIDE DEF rows
      <4> QED
        BY <1>1, <2>2, <2>4, <4>1, <4>2 DEF ReadExplanation, Page
    <3>3. ASSUME page[r].endpoint = "investigation"
          PROVE  /\ page[r].run \in 1..Len(db.runs[page[r].inc])
                 /\ IsPublished(db.runs[page[r].inc][page[r].run])
                 /\ page[r].inputs \subseteq db.attached[page[r].inc]
                 /\ {"evidence", "hypotheses", "recommendations"}
                       \subseteq page[r].rows
                 /\ page[r].inputs \subseteq page[r].timeline
      BY <2>2, <2>4, <3>3 DEF ReaderInv, InvestigationRead, ChildrenFound
    <3>4. page[r].endpoint = "investigation" => rows = Children
      BY <3>1, <3>3 DEF Children
    <3> HIDE DEF rows
    <3>5. page[r].endpoint = "investigation" =>
             {"evidence", "hypotheses", "recommendations"} \subseteq rows
      BY <3>4 DEF Children
    <3> QED
      BY <2>2, <3>1, <3>2, <3>3, <3>4, <3>5, Continued
  <2> QED
    BY <2>3, <2>4
<1>2. CASE Answer(r)
  <2>1. /\ page[r].outcome = "reading" /\ UNCHANGED <<vars, epoch>>
        /\ Respond(r, "ANSWERED")
        /\ page[r].next > Len(Statements(page[r].endpoint))
    BY <1>2 DEF Answer
  <2>2. page[r].endpoint = "investigation" => page[r].next > 7
    BY <2>1, InvestigationOrder
  <2> QED
    BY <2>1, <2>2, Responded
<1> QED
  BY <1>1, <1>2

-----------------------------------------------------------------------------
(* The theorems.                                                           *)

(* No reader and no reset yet.                                             *)
LEMMA InitReaders == AllInit => ReadersInv
<1> SUFFICES ASSUME AllInit PROVE ReadersInv
  OBVIOUS
<1>1. DatabaseInv
  BY InitTypes, InitPublication, InitHistory DEF AllInit, DatabaseInv
<1>2. EmptyPage \in Page /\ EmptyPage.epoch = 0 /\ EmptyPage.outcome = "unasked"
  BY DEF EmptyPage, Page, Outcomes
<1>3. epoch = 0 /\ page = [r \in Readers |-> EmptyPage]
  BY DEF AllInit, ReaderInit
<1>4. ReaderTypeOK
  BY <1>2, <1>3, MaxEpochAssumption DEF ReaderTypeOK
<1>5. ASSUME NEW r \in Readers PROVE ReaderInv(r)
  <2>1. page[r].epoch = epoch /\ page[r].outcome = "unasked" /\ epoch = 0
    BY <1>2, <1>3
  <2> QED
    BY <2>1 DEF ReaderInv, PointerRead, InvestigationRead
<1> QED
  BY <1>1, <1>4, <1>5 DEF ReadersInv

(* Every step of writers, readers and resets keeps the invariant.          *)
LEMMA ReadersStep == ReadersInv /\ [AllNext]_allVars => ReadersInv'
<1> SUFFICES ASSUME ReadersInv, [AllNext]_allVars PROVE ReadersInv'
  OBVIOUS
<1>1. ASSUME [Next]_vars, UNCHANGED readerVars
      PROVE  ReadersInv'
  <2>1. DatabaseInv' /\ Continues(db, db')
    BY <1>1, WritersContinue DEF ReadersInv
  <2>2. UNCHANGED <<epoch, page>>
    BY <1>1 DEF readerVars
  <2>3. \A r \in Readers : ReaderInv(r)'
    BY <2>1, <2>2, ReaderStays DEF ReadersInv
  <2> QED
    BY <2>1, <2>2, <2>3 DEF ReadersInv, ReaderTypeOK
<1>2. ASSUME NEW r \in Readers, Request(r) \/ Read(r)
      PROVE  ReadersInv'
  BY <1>2, RequestRead, RunRead, ChildrenRead, TimelineRead, ExplanationRead
     DEF Read
<1>3. CASE Reset
  <2>1. DatabaseInv' /\ epoch' = epoch + 1 /\ page' = page
    BY <1>3, ResetKeeps DEF ReadersInv, Reset
  <2>2. ReaderTypeOK'
    BY <1>3, <2>1, MaxEpochAssumption DEF ReadersInv, ReaderTypeOK, Reset
  <2>3. \A r \in Readers : ReaderInv(r)'
    BY <2>1, ReaderStays DEF ReadersInv
  <2> QED
    BY <2>1, <2>2, <2>3 DEF ReadersInv
<1>4. UNCHANGED allVars => UNCHANGED vars /\ UNCHANGED readerVars
  BY DEF allVars
<1> QED
  BY <1>1, <1>2, <1>3, <1>4 DEF AllNext

(* ReadersInv holds of every state readers and writers reach.               *)
LEMMA ReadersInvariant == AllSpec => []ReadersInv
<1>1. AllInit => ReadersInv
  BY InitReaders
<1>2. ReadersInv /\ [AllNext]_allVars => ReadersInv'
  BY ReadersStep
<1> QED
  BY <1>1, <1>2, PTL DEF AllSpec

(* The readers' variables keep their types.                                *)
THEOREM ReaderTypesHold == AllSpec => []ReaderTypeOK
<1>1. ReadersInv => ReaderTypeOK
  BY DEF ReadersInv
<1> QED
  BY <1>1, ReadersInvariant, PTL

(* Whatever is published, failed or reset between the statements of a       *)
(* reader, an investigation that is answered has every child of one run and *)
(* every event that this run analysed.                                     *)
THEOREM AnswersAreAlwaysWhole == AllSpec => []AnswersAreWhole
<1>1. ReadersInv => AnswersAreWhole
  BY DEF ReadersInv, ReaderInv, InvestigationRead, AnswersAreWhole
<1> QED
  BY <1>1, ReadersInvariant, PTL

(* A reader is told that its analysis is stale only if the pointer it read  *)
(* has moved, for good: pointers do not go back.                           *)
THEOREM StaleIsAlwaysOvertaken == AllSpec => []StaleIsOvertaken
<1>1. ReadersInv => StaleIsOvertaken
  BY DEF ReadersInv, ReaderInv, PointerRead, StaleIsOvertaken
<1> QED
  BY <1>1, ReadersInvariant, PTL
=============================================================================
