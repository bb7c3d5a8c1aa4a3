------------------------- MODULE EventIngestionProofs -------------------------
(***************************************************************************)
(* Proofs about EventIngestion, for any number of requests, records and     *)
(* resets and batches of any length.                                       *)
(*                                                                         *)
(* What is committed next is the image of the writer, so the properties of  *)
(* the committed image are proved of both: each image is consistent, the    *)
(* writer's image only adds to the committed one, and the cache continues   *)
(* the writer's.  What a request believes it is to answer holds in the      *)
(* image that its next statement will see.                                 *)
(***************************************************************************)
EXTENDS EventIngestion, SequenceTheorems, TLAPS

Working == {"record", "group", "increment", "store", "detect", "finish"}

(* An image on its own: storms have representatives, and the baseline was   *)
(* evaluated since the last reset.                                         *)
Represented(image) ==
    /\ \A a \in image.events \cap Alerts :
          \E g \in DOMAIN image.groups : image.groups[g].representative = a
    /\ \A g, h \in DOMAIN image.groups :
          /\ image.groups[g].representative \in image.events
          /\ g # h => image.groups[g].representative
                         # image.groups[h].representative

Sound(image) ==
    /\ Represented(image)
    /\ \A g \in DOMAIN image.groups : image.groups[g].count >= 1
    /\ \A k \in DOMAIN image.baseline : image.baseline[k].reset = image.resets

(* The samples in S are in the baseline of the image.                       *)
InBaseline(image, S) ==
    \A e \in S : \E k \in DOMAIN image.baseline : image.baseline[k].record = e

(* Image b is a later image of the same demo than a.                        *)
Grows(a, b) ==
    /\ b.resets = a.resets
    /\ a.events \subseteq b.events
    /\ a.quarantined \subseteq b.quarantined
    /\ Len(a.groups) <= Len(b.groups)
    /\ \A g \in DOMAIN a.groups :
          a.groups[g].count > 1 => b.groups[g].count > 1
    /\ IsPrefix(a.baseline, b.baseline)

WriterInv ==
    /\ Sound(db) /\ Sound(tx)
    /\ InBaseline(db, db.events \cap Metrics)
    /\ writer = NoRequest => tx = db
    /\ writer \in Requests => Grows(db, tx)
    /\ writer = Resetter => tx = EmptyImage(db.resets + 1)

StoreInv ==
    /\ store.dirty = FALSE
    /\ store.loaded = FALSE => store.cache = << >>
    /\ store.loaded = TRUE =>
          writer # Resetter /\ IsPrefix(tx.baseline, store.cache)
    /\ writer # Resetter =>
          \A k \in DOMAIN store.cache : store.cache[k].reset = db.resets

(* What r was told so far is so in the image, until a reset.                *)
Told(r, image) ==
    job[r].reset = image.resets =>
        \A k \in DOMAIN job[r].outcomes :
            LET record == job[r].batch[k] IN
            CASE job[r].outcomes[k] \in {"accepted", "retry"} ->
                    record \in image.events
              [] job[r].outcomes[k] = "collapsed" ->
                    \E g \in DOMAIN image.groups : image.groups[g].count > 1
              [] OTHER -> record \in image.quarantined

(* Stored samples that r has not evaluated yet are to be.                   *)
Pending(r) ==
    \A e \in tx.events \cap Metrics :
        \/ \E k \in DOMAIN tx.baseline : tx.baseline[k].record = e
        \/ \E k \in DOMAIN job[r].todo : job[r].todo[k] = e

RequestInv(r) ==
    /\ Len(job[r].outcomes) <= Len(job[r].batch)
    /\ job[r].reset <= db.resets /\ job[r].group.reset <= db.resets
    /\ writer = r => pc[r] \in Working /\ Pending(r)
    /\ pc[r] = "detect" => writer = r
    /\ pc[r] \in Working /\ job[r].todo # << >> => writer = r
    /\ pc[r] = "finish" => job[r].todo = << >>
    /\ pc[r] \in {"group", "increment", "store"} =>
          HasRecord(r) /\ Current(r) \in Metrics \cup Alerts
    /\ pc[r] \in {"group", "increment"} => Current(r) \in Alerts
    /\ pc[r] = "increment" =>
          /\ job[r].count >= 1
          /\ job[r].group.reset = View(r).resets =>
                job[r].group.at \in DOMAIN View(r).groups
    /\ pc[r] \in {"detect", "finish", "done"} =>
          Len(job[r].outcomes) = Len(job[r].batch)
    /\ pc[r] \in Working \cup {"done"} => Told(r, View(r))

RequestsInv == \A r \in Requests : RequestInv(r)

IngestionInv == TypeOK /\ WriterInv /\ StoreInv /\ RequestsInv

-----------------------------------------------------------------------------
(* Prefixes.                                                               *)

(* A prefix, by its elements.                                               *)
LEMMA PrefixDef ==
    ASSUME NEW S, NEW s \in Seq(S), NEW t \in Seq(S)
    PROVE  IsPrefix(s, t) <=> /\ Len(s) <= Len(t)
                              /\ \A k \in 1..Len(s) : s[k] = t[k]
<1>1. /\ Len(s) \in Nat /\ Len(t) \in Nat
      /\ s \in [1..Len(s) -> S] /\ t \in [1..Len(t) -> S]
  BY LenProperties
<1>2. SubSeq(s, 1, Len(s)) = s
  BY SubSeqFull
<1>3. ASSUME Len(s) <= Len(t)
      PROVE  /\ SubSeq(t, 1, Len(s)) \in Seq(S)
             /\ Len(SubSeq(t, 1, Len(s))) = Len(s)
             /\ \A k \in 1..Len(s) : SubSeq(t, 1, Len(s))[k] = t[k]
  BY <1>1, <1>3
<1>4. ASSUME Len(s) <= Len(t), \A k \in 1..Len(s) : s[k] = t[k]
      PROVE  SubSeq(t, 1, Len(s)) = s
  <2> DEFINE u == SubSeq(t, 1, Len(s))
  <2>1. /\ u \in Seq(S) /\ Len(u) = Len(s)
        /\ \A k \in 1..Len(s) : u[k] = t[k]
    BY <1>3, <1>4
  <2> HIDE DEF u
  <2>2. \A k \in 1..Len(u) : u[k] = s[k]
    BY <1>4, <2>1
  <2>3. u = s
    BY <2>1, <2>2, SeqEqual
  <2> QED
    BY <2>3 DEF u
<1>5. ASSUME Len(s) <= Len(t), SubSeq(t, 1, Len(s)) = s
      PROVE  \A k \in 1..Len(s) : s[k] = t[k]
  BY <1>3, <1>5
<1> QED
  BY <1>2, <1>4, <1>5 DEF IsPrefix

(* A sequence is a prefix of itself.                                        *)
LEMMA PrefixReflexive ==
    ASSUME NEW S, NEW s \in Seq(S)
    PROVE  IsPrefix(s, s)
<1>1. Len(s) \in Nat
  OBVIOUS
<1> QED
  BY <1>1, PrefixDef

(* A prefix of a prefix is a prefix.                                        *)
LEMMA PrefixTransitive ==
    ASSUME NEW S, NEW s \in Seq(S), NEW t \in Seq(S), NEW u \in Seq(S),
           IsPrefix(s, t), IsPrefix(t, u)
    PROVE  IsPrefix(s, u)
<1>1. Len(s) \in Nat /\ Len(t) \in Nat /\ Len(u) \in Nat
  OBVIOUS
<1>2. /\ Len(s) <= Len(t) /\ \A k \in 1..Len(s) : s[k] = t[k]
      /\ Len(t) <= Len(u) /\ \A k \in 1..Len(t) : t[k] = u[k]
  BY PrefixDef
<1>3. Len(s) <= Len(u) /\ \A k \in 1..Len(s) : s[k] = u[k]
  BY <1>1, <1>2
<1> QED
  BY <1>3, PrefixDef

(* Appending keeps what there was.                                          *)
LEMMA PrefixOfAppend ==
    ASSUME NEW S, NEW s \in Seq(S), NEW e \in S
    PROVE  IsPrefix(s, Append(s, e))
<1> DEFINE t == Append(s, e)
<1>1. /\ t \in Seq(S) /\ Len(t) = Len(s) + 1
      /\ \A k \in 1..Len(s) : t[k] = s[k]
  OBVIOUS
<1>2. Len(s) \in Nat
  OBVIOUS
<1> HIDE DEF t
<1>3. Len(s) <= Len(t) /\ \A k \in 1..Len(s) : s[k] = t[k]
  BY <1>1, <1>2
<1>4. IsPrefix(s, t)
  BY <1>1, <1>3, PrefixDef
<1> QED
  BY <1>4 DEF t

(* The elements of a concatenation.                                         *)
LEMMA ConcatSeq ==
    ASSUME NEW S, NEW s \in Seq(S), NEW t \in Seq(S)
    PROVE  /\ s \o t \in Seq(S) /\ Len(s \o t) = Len(s) + Len(t)
           /\ \A k \in 1..Len(s) : (s \o t)[k] = s[k]
           /\ \A k \in 1..Len(t) : (s \o t)[Len(s) + k] = t[k]
<1> QED
  OBVIOUS

-----------------------------------------------------------------------------
(* Types.                                                                  *)

(* The fields of an image.                                                  *)
LEMMA ImageFields ==
    ASSUME NEW im \in Image
    PROVE  /\ im.events \subseteq Metrics \cup Alerts
           /\ im.groups \in Seq(Group) /\ im.quarantined \subseteq Invalid
           /\ im.baseline \in Seq(Sample) /\ im.resets \in 0..MaxResets
           /\ Len(im.groups) \in Nat /\ DOMAIN im.groups = 1..Len(im.groups)
           /\ Len(im.baseline) \in Nat
           /\ DOMAIN im.baseline = 1..Len(im.baseline)
           /\ im.resets \in Nat
<1>1. /\ im.events \subseteq Metrics \cup Alerts
      /\ im.groups \in Seq(Group) /\ im.quarantined \subseteq Invalid
      /\ im.baseline \in Seq(Sample) /\ im.resets \in 0..MaxResets
  BY DEF Image
<1> QED
  BY <1>1, LenProperties, MaxResetsAssumption

(* The fields of a request's job.                                           *)
LEMMA JobFields ==
    ASSUME NEW j \in Job
    PROVE  /\ j.batch \in Seq(Records) /\ j.outcomes \in Seq(Outcome)
           /\ j.group.at \in Nat /\ j.group.reset \in 0..MaxResets
           /\ j.count \in Nat /\ j.todo \in Seq(Metrics \cup Alerts)
           /\ j.reset \in 0..MaxResets
           /\ Len(j.batch) \in Nat /\ DOMAIN j.batch = 1..Len(j.batch)
           /\ Len(j.outcomes) \in Nat /\ DOMAIN j.outcomes = 1..Len(j.outcomes)
           /\ Len(j.todo) \in Nat /\ DOMAIN j.todo = 1..Len(j.todo)
           /\ j.reset \in Nat
<1>1. /\ j.batch \in Seq(Records) /\ j.outcomes \in Seq(Outcome)
      /\ j.group.at \in Nat /\ j.group.reset \in 0..MaxResets
      /\ j.count \in Nat /\ j.todo \in Seq(Metrics \cup Alerts)
      /\ j.reset \in 0..MaxResets
  BY DEF Job
<1> QED
  BY <1>1, LenProperties, MaxResetsAssumption

(* What the type invariant says of the variables.                           *)
LEMMA TypeFacts ==
    ASSUME TypeOK
    PROVE  /\ db \in Image /\ tx \in Image
           /\ \A r \in Requests : job[r] \in Job /\ View(r) \in Image
           /\ Resetter \notin Requests /\ NoRequest \notin Requests
           /\ NoRequest # Resetter
<1> QED
  BY NobodyAssumption DEF TypeOK, View

(* An empty database is sound.                                              *)
LEMMA EmptyImageFacts ==
    ASSUME NEW n \in 0..MaxResets
    PROVE  /\ EmptyImage(n) \in Image
           /\ Sound(EmptyImage(n))
           /\ InBaseline(EmptyImage(n), EmptyImage(n).events \cap Metrics)
<1> QED
  BY DEF EmptyImage, Image, Sound, Represented, InBaseline

-----------------------------------------------------------------------------
(* Growth of an image.                                                     *)

(* An image grows from itself.                                              *)
LEMMA GrowsReflexive ==
    ASSUME NEW im \in Image
    PROVE  Grows(im, im)
<1>1. Len(im.groups) \in Nat /\ im.baseline \in Seq(Sample)
  BY ImageFields
<1> QED
  BY <1>1, PrefixReflexive DEF Grows

(* Growth adds up.                                                          *)
LEMMA GrowsTransitive ==
    ASSUME NEW a \in Image, NEW b \in Image, NEW c \in Image,
           Grows(a, b), Grows(b, c)
    PROVE  Grows(a, c)
<1>1. IsPrefix(a.baseline, c.baseline)
  BY ImageFields, PrefixTransitive DEF Grows
<1>2. /\ Len(a.groups) <= Len(c.groups)
      /\ \A g \in DOMAIN a.groups :
            a.groups[g].count > 1 => c.groups[g].count > 1
  BY ImageFields DEF Grows
<1> QED
  BY <1>1, <1>2 DEF Grows

(* What a request was told stays so when the image grows.                   *)
LEMMA ToldGrows ==
    ASSUME TypeOK, NEW r \in Requests, NEW a \in Image, NEW b \in Image,
           Grows(a, b), Told(r, a)
    PROVE  Told(r, b)
<1>1. \A g \in DOMAIN a.groups : g \in DOMAIN b.groups
  BY ImageFields DEF Grows
<1> QED
  BY <1>1 DEF Told, Grows

(* The image a request sees is the committed one or its own, never one that *)
(* has less than the committed one.                                        *)
LEMMA ViewGrows ==
    ASSUME TypeOK, WriterInv, NEW r \in Requests
    PROVE  Grows(db, View(r))
<1> QED
  BY GrowsReflexive DEF TypeOK, WriterInv, View

(* Storing a record, or counting into a group, grows a sound image into a   *)
(* sound image.                                                            *)
LEMMA QuarantineGrows ==
    ASSUME NEW im \in Image, NEW x \in Invalid, Sound(im)
    PROVE  LET new == [im EXCEPT !.quarantined = @ \cup {x}] IN
           /\ new \in Image /\ Sound(new) /\ Grows(im, new)
           /\ x \in new.quarantined
           /\ new.events = im.events /\ new.baseline = im.baseline
<1> DEFINE new == [im EXCEPT !.quarantined = @ \cup {x}]
<1>1. /\ new \in Image /\ new.events = im.events /\ new.groups = im.groups
      /\ new.quarantined = im.quarantined \cup {x}
      /\ new.baseline = im.baseline /\ new.resets = im.resets
  BY DEF Image
<1> HIDE DEF new
<1>2. Sound(new)
  BY <1>1 DEF Sound, Represented
<1>3. Grows(im, new)
  BY <1>1, GrowsReflexive DEF Grows
<1> QED
  BY <1>1, <1>2, <1>3 DEF new

(* Storing an event makes a larger, sound image.                            *)
LEMMA StoredGrows ==
    ASSUME NEW im \in Image, NEW x \in Metrics \cup Alerts, Sound(im),
           x \notin im.events
    PROVE  LET new == Stored(im, x) IN
           /\ new \in Image /\ Sound(new) /\ Grows(im, new)
           /\ new.events = im.events \cup {x}
           /\ new.baseline = im.baseline
<1> DEFINE new == Stored(im, x)
           group == [representative |-> x, count |-> 1]
           groups == IF x \in Alerts THEN Append(im.groups, group)
                     ELSE im.groups
<1>1. /\ im.events \subseteq Metrics \cup Alerts /\ im.groups \in Seq(Group)
      /\ Len(im.groups) \in Nat /\ DOMAIN im.groups = 1..Len(im.groups)
  BY ImageFields
<1>2. /\ groups \in Seq(Group) /\ Len(groups) >= Len(im.groups)
      /\ \A g \in DOMAIN im.groups : g \in DOMAIN groups
                                     /\ groups[g] = im.groups[g]
      /\ \A g \in DOMAIN groups : g \in DOMAIN im.groups \/ groups[g] = group
      /\ \A g, h \in DOMAIN groups :
            g \notin DOMAIN im.groups /\ h \notin DOMAIN im.groups => g = h
      /\ x \in Alerts => \E g \in DOMAIN groups : groups[g] = group
      /\ x \notin Alerts => groups = im.groups
  <2>1. CASE x \in Alerts
    <3> DEFINE more == Append(im.groups, group)
    <3>1. group \in Group
      BY <2>1 DEF Group
    <3> HIDE DEF group
    <3>2. /\ more \in Seq(Group) /\ Len(more) = Len(im.groups) + 1
          /\ \A k \in 1..Len(im.groups) : more[k] = im.groups[k]
          /\ more[Len(im.groups) + 1] = group
      BY <1>1, <3>1
    <3>3. DOMAIN more = 1..(Len(im.groups) + 1)
      BY <3>2, LenProperties
    <3> HIDE DEF more
    <3>4. groups = more
      BY <2>1 DEF more
    <3> HIDE DEF groups
    <3> QED
      BY <1>1, <2>1, <3>2, <3>3, <3>4
  <2>2. CASE x \notin Alerts
    BY <1>1, <2>2
  <2> QED
    BY <2>1, <2>2
<1>3. new = [im EXCEPT !.events = im.events \cup {x}, !.groups = groups]
  BY DEF Stored, Image
<1> HIDE DEF groups, new
<1>4. /\ new.events = im.events \cup {x} /\ new.groups = groups
      /\ new.quarantined = im.quarantined /\ new.baseline = im.baseline
      /\ new.resets = im.resets /\ new \in Image
  BY <1>1, <1>2, <1>3 DEF Image
<1>5. Represented(new)
  <2>1. ASSUME NEW a \in new.events \cap Alerts
        PROVE  \E g \in DOMAIN groups : groups[g].representative = a
    <3>1. CASE a = x
      BY <1>2, <2>1, <3>1
    <3>2. CASE a # x
      BY <1>2, <1>4, <2>1, <3>2 DEF Sound, Represented
    <3> QED
      BY <3>1, <3>2
  <2>2. \A g \in DOMAIN im.groups :
           groups[g].representative \in im.events
    BY <1>2 DEF Sound, Represented
  <2>3. \A g \in DOMAIN groups : groups[g].representative \in new.events
    BY <1>2, <1>4, <2>2
  <2>4. ASSUME NEW g \in DOMAIN groups, NEW h \in DOMAIN groups, g # h
        PROVE  groups[g].representative # groups[h].representative
    <3>1. CASE g \in DOMAIN im.groups /\ h \in DOMAIN im.groups
      BY <1>2, <2>4, <3>1 DEF Sound, Represented
    <3>2. CASE g \notin DOMAIN im.groups
      BY <1>2, <2>2, <2>4, <3>2
    <3>3. CASE h \notin DOMAIN im.groups
      BY <1>2, <2>2, <2>4, <3>3
    <3> QED
      BY <3>1, <3>2, <3>3
  <2> QED
    BY <1>4, <2>1, <2>3, <2>4 DEF Represented
<1>6. Sound(new)
  BY <1>2, <1>4, <1>5 DEF Sound
<1>7. Grows(im, new)
  BY <1>1, <1>2, <1>4, ImageFields, PrefixReflexive DEF Grows
<1> QED
  BY <1>4, <1>6, <1>7 DEF new

(* So does counting one more in a group.                                    *)
LEMMA IncrementGrows ==
    ASSUME NEW im \in Image, Sound(im), NEW at \in DOMAIN im.groups,
           NEW n \in Nat, n > 1
    PROVE  LET new == [im EXCEPT !.groups[at].count = n] IN
           /\ new \in Image /\ Sound(new) /\ Grows(im, new)
           /\ \E g \in DOMAIN new.groups : new.groups[g].count > 1
           /\ new.events = im.events /\ new.baseline = im.baseline
<1> DEFINE new == [im EXCEPT !.groups[at].count = n]
           groups == [im.groups EXCEPT ![at].count = n]
<1>1. /\ im.groups \in Seq(Group) /\ Len(im.groups) \in Nat
      /\ DOMAIN im.groups = 1..Len(im.groups)
      /\ im.groups \in [1..Len(im.groups) -> Group]
  BY ImageFields, LenProperties
<1>2. /\ groups \in [1..Len(im.groups) -> Group]
      /\ groups[at].count = n
      /\ \A g \in DOMAIN im.groups :
            /\ groups[g].representative = im.groups[g].representative
            /\ g # at => groups[g] = im.groups[g]
  BY <1>1 DEF Group
<1>3. groups \in Seq(Group) /\ Len(groups) = Len(im.groups)
      /\ DOMAIN groups = DOMAIN im.groups
  BY <1>1, <1>2
<1>4. new = [im EXCEPT !.groups = groups]
  BY DEF Image
<1> HIDE DEF groups
<1>5. /\ new.events = im.events /\ new.groups = groups
      /\ new.quarantined = im.quarantined /\ new.baseline = im.baseline
      /\ new.resets = im.resets /\ new \in Image
  BY <1>3, <1>4 DEF Image
<1> HIDE DEF new
<1>6. Represented(new)
  BY <1>2, <1>3, <1>5 DEF Sound, Represented
<1>7. Sound(new)
  BY <1>2, <1>3, <1>5, <1>6 DEF Sound
<1>8. Grows(im, new)
  BY <1>1, <1>2, <1>3, <1>5, ImageFields, PrefixReflexive DEF Grows
<1>9. \E g \in DOMAIN new.groups : new.groups[g].count > 1
  BY <1>2, <1>3, <1>5
<1> QED
  BY <1>5, <1>7, <1>8, <1>9 DEF new

-----------------------------------------------------------------------------
(* Frames: what a step of request r leaves alone.                          *)

Steps(r) == \E label, j : /\ pc' = [pc EXCEPT ![r] = label]
                          /\ job' = [job EXCEPT ![r] = j]

(* Nothing but the locals of r changes.                                    *)
LEMMA LocalFrame ==
    ASSUME IngestionInv, NEW r \in Requests, Steps(r), TypeOK',
           UNCHANGED <<db, tx, writer, store>>, RequestInv(r)'
    PROVE  IngestionInv'
<1>1. ASSUME NEW q \in Requests, q # r
      PROVE  RequestInv(q)'
  <2>1. pc'[q] = pc[q] /\ job'[q] = job[q]
    BY <1>1 DEF Steps, IngestionInv, TypeOK
  <2>2. RequestInv(q)
    BY DEF IngestionInv, RequestsInv
  <2> QED
    BY <2>1, <2>2
    DEF RequestInv, Told, Pending, HasRecord, Current, View
<1>2. RequestsInv'
  BY <1>1 DEF RequestsInv
<1>3. WriterInv' /\ StoreInv'
  BY DEF IngestionInv, WriterInv, StoreInv
<1> QED
  BY <1>2, <1>3 DEF IngestionInv

(* r writes: its image grows, and nobody else has the writer lock.          *)
LEMMA WriterFrame ==
    ASSUME IngestionInv, NEW r \in Requests, Steps(r), TypeOK',
           writer \in {NoRequest, r}, writer' = r, db' = db,
           Sound(tx'), Grows(tx, tx'), StoreInv', RequestInv(r)'
    PROVE  IngestionInv'
<1>1. TypeOK /\ WriterInv /\ RequestsInv
  BY DEF IngestionInv
<1>2. ASSUME NEW q \in Requests, q # r
      PROVE  RequestInv(q)'
  <2>1. pc'[q] = pc[q] /\ job'[q] = job[q]
    BY <1>1, <1>2 DEF Steps, TypeOK
  <2>2. RequestInv(q) /\ writer # q /\ writer' # q
    BY <1>1, <1>2, TypeFacts DEF RequestsInv
  <2>3. View(q) = db /\ View(q)' = db
    BY <2>2 DEF View
  <2> QED
    BY <2>1, <2>2, <2>3
    DEF RequestInv, Told, HasRecord, Current
<1>3. RequestsInv'
  BY <1>2 DEF RequestsInv
<1>4. Grows(db, tx)
  BY <1>1, GrowsReflexive DEF WriterInv, TypeOK
<1>5. Grows(db, tx')
  BY <1>1, <1>4, GrowsTransitive DEF TypeOK
<1>6. WriterInv'
  BY <1>1, <1>5, TypeFacts DEF WriterInv
<1> QED
  BY <1>3, <1>6 DEF IngestionInv

(* The session of r ends: with its image, if all samples in it were         *)
(* evaluated, or without.                                                  *)
LEMMA EndFrame ==
    ASSUME IngestionInv, NEW r \in Requests, NEW image \in {db, tx},
           NEW label \in {"done", "failed"}, End(r, image, label),
           UNCHANGED <<store, job>>, pc[r] \in Working,
           image = tx => job[r].todo = << >> \/ db = tx,
           label = "done" => image = tx /\ pc[r] = "finish"
    PROVE  IngestionInv'
<1>1. TypeOK /\ WriterInv /\ StoreInv /\ RequestsInv
  BY DEF IngestionInv
<1>2. Resetter # r /\ NoRequest # r
  BY TypeFacts, <1>1
<1>3. TypeOK'
  BY <1>1 DEF TypeOK, End, Goto
<1>4. Grows(db, db') /\ writer' # r
  BY <1>1, <1>2, GrowsReflexive DEF WriterInv, TypeOK, End
<1>5. ASSUME writer = r PROVE WriterInv' /\ StoreInv'
  <2>1. db' = image /\ tx' = image /\ writer' = NoRequest
    BY <1>5 DEF End
  <2>2. InBaseline(tx, tx.events \cap Metrics) \/ image = db
    <3>1. CASE job[r].todo = << >> /\ image = tx
      BY <1>1, <1>5, <3>1
      DEF RequestsInv, RequestInv, Pending, InBaseline
    <3>2. CASE job[r].todo # << >> \/ image # tx
      BY <3>2
    <3> QED
      BY <3>1, <3>2
  <2>3. WriterInv'
    <3>1. Sound(image) /\ InBaseline(image, image.events \cap Metrics)
      BY <1>1, <2>2 DEF WriterInv
    <3> QED
      BY <1>1, <2>1, <3>1, TypeFacts DEF WriterInv, Sound, Represented, InBaseline
  <2>4. StoreInv'
    <3>1. Grows(db, tx)
      BY <1>1, <1>5 DEF WriterInv
    <3>2. db'.resets = db.resets
      BY <1>4 DEF Grows
    <3>3. store.loaded = TRUE => IsPrefix(image.baseline, store.cache)
      <4>1. /\ db.baseline \in Seq(Sample) /\ tx.baseline \in Seq(Sample)
            /\ store.cache \in Seq(Sample)
        BY <1>1, ImageFields DEF TypeOK, Store
      <4>2. /\ IsPrefix(db.baseline, tx.baseline)
            /\ store.loaded = TRUE => IsPrefix(tx.baseline, store.cache)
        BY <1>1, <3>1 DEF StoreInv, Grows
      <4>3. store.loaded = TRUE => IsPrefix(db.baseline, store.cache)
        BY <4>1, <4>2, PrefixTransitive
      <4> QED
        BY <4>2, <4>3
    <3> QED
      BY <1>1, <1>2, <1>5, <2>1, <3>2, <3>3, TypeFacts DEF StoreInv
  <2> QED
    BY <2>3, <2>4
<1>6. ASSUME writer # r PROVE WriterInv' /\ StoreInv'
  <2>1. UNCHANGED <<db, tx, writer>>
    BY <1>6 DEF End
  <2> QED
    BY <1>1, <2>1 DEF WriterInv, StoreInv
<1>7. ASSUME NEW q \in Requests, q # r
      PROVE  RequestInv(q)'
  <2>1. pc'[q] = pc[q] /\ job'[q] = job[q] /\ RequestInv(q)
    BY <1>1, <1>7 DEF End, Goto, TypeOK, RequestsInv
  <2>2. CASE writer = r
    <3>1. View(q) = db /\ View(q)' = db' /\ writer' # q /\ writer # q
      BY <1>2, <1>7, <2>2, TypeFacts, <1>1 DEF View, End
    <3>2. Told(q, db) => Told(q, db')
      BY <1>1, <1>3, <1>4, ToldGrows DEF TypeOK
    <3>3. Told(q, View(q)) => Told(q, View(q))'
      BY <2>1, <3>1, <3>2 DEF Told
    <3>4. /\ db'.resets = db.resets
          /\ DOMAIN db.groups \subseteq DOMAIN db'.groups
      BY <1>1, <1>3, <1>4, ImageFields DEF Grows, TypeOK
    <3> QED
      BY <2>1, <3>1, <3>3, <3>4 DEF RequestInv, HasRecord, Current
  <2>3. CASE writer # r
    <3>1. UNCHANGED <<db, tx, writer>>
      BY <2>3 DEF End
    <3> QED
      BY <2>1, <3>1 DEF RequestInv, Told, Pending, HasRecord, Current, View
  <2> QED
    BY <2>2, <2>3
<1>8. RequestInv(r)'
  <2>1. pc'[r] = label /\ job'[r] = job[r] /\ RequestInv(r)
    BY <1>1 DEF End, Goto, TypeOK, RequestsInv
  <2>2. View(r)' = db' /\ db'.resets = db.resets
    BY <1>4 DEF View, Grows
  <2>3. label = "done" => /\ Len(job[r].outcomes) = Len(job[r].batch)
                          /\ Told(r, db')
    <3>1. CASE label = "done"
      <4>1. /\ Told(r, View(r))
            /\ Len(job[r].outcomes) = Len(job[r].batch)
        BY <2>1, <3>1 DEF RequestInv, Working
      <4>2. View(r) = db'
        BY <3>1 DEF End, View
      <4> QED
        BY <4>1, <4>2
    <3> QED
      BY <3>1
  <2>4. Told(r, db') => Told(r, View(r))'
    BY <2>1, <2>2 DEF Told
  <2> QED
    BY <1>4, <2>1, <2>2, <2>3, <2>4 DEF RequestInv, Working
<1> QED
  BY <1>3, <1>5, <1>6, <1>7, <1>8 DEF IngestionInv, RequestsInv

-----------------------------------------------------------------------------
(* The steps of a request.                                                 *)

(* Each action preserves the invariant, one lemma for each: a batch arrives.*)
LEMMA ReceiveKeeps ==
    ASSUME IngestionInv, NEW r \in Requests, Receive(r)
    PROVE  IngestionInv'
<1>1. TypeOK /\ WriterInv
  BY DEF IngestionInv
<1>2. PICK b \in Batches :
         job' = [job EXCEPT ![r] = [EmptyJob EXCEPT !.batch = b,
                                                    !.reset = db.resets]]
  BY DEF Receive
<1> DEFINE j == [EmptyJob EXCEPT !.batch = b, !.reset = db.resets]
<1>3. /\ j \in Job /\ j.batch = b /\ j.reset = db.resets
      /\ j.group.reset = 0 /\ j.outcomes = << >> /\ j.todo = << >>
  <2>1. /\ EmptyJob \in Job /\ EmptyJob.outcomes = << >>
        /\ EmptyJob.group.reset = 0
        /\ EmptyJob.todo = << >>
    <3>1. 0 \in 0..MaxResets /\ << >> \in Seq(Records)
          /\ << >> \in Seq(Outcome) /\ << >> \in Seq(Metrics \cup Alerts)
      BY MaxResetsAssumption
    <3> QED
      BY <3>1 DEF EmptyJob, Job
  <2>2. /\ b \in Seq(Records) /\ db.resets \in 0..MaxResets
        /\ 0 \in 0..MaxResets
    BY <1>1, ImageFields, BatchesAssumption, MaxResetsAssumption DEF TypeOK
  <2> QED
    BY <2>1, <2>2 DEF Job
<1> HIDE DEF j
<1>4. /\ job'[r] = j /\ pc'[r] = "record" /\ pc[r] = "new"
      /\ pc' = [pc EXCEPT ![r] = "record"] /\ job' = [job EXCEPT ![r] = j]
      /\ UNCHANGED <<db, tx, writer, store>>
  BY <1>1, <1>2 DEF Receive, Goto, TypeOK, j
<1>5. TypeOK'
  BY <1>1, <1>3, <1>4 DEF TypeOK
<1>6. writer # r
  BY <1>4 DEF IngestionInv, RequestsInv, RequestInv, Working
<1>7. Len(j.outcomes) = 0 /\ Len(j.batch) \in Nat /\ db.resets \in Nat
      /\ DOMAIN j.outcomes = {}
  BY <1>1, <1>3, JobFields, ImageFields DEF TypeOK
<1>8. RequestInv(r)'
  BY <1>3, <1>4, <1>6, <1>7 DEF RequestInv, Told, Working
<1> QED
  BY <1>4, <1>5, <1>8, LocalFrame DEF Steps

(* An outcome that holds is added to those a request was told.              *)
LEMMA ConcludeFacts ==
    ASSUME TypeOK, NEW r \in Requests, HasRecord(r),
           NEW outcome \in Outcome, NEW accepted \in Seq(Metrics \cup Alerts),
           Conclude(r, outcome, accepted),
           NEW before \in Image, NEW after \in Image, Grows(before, after),
           Len(job[r].outcomes) <= Len(job[r].batch),
           Told(r, before),
           CASE outcome \in {"accepted", "retry"} ->
                   Current(r) \in after.events
             [] outcome = "collapsed" ->
                   \E g \in DOMAIN after.groups : after.groups[g].count > 1
             [] OTHER -> Current(r) \in after.quarantined
    PROVE  /\ job'[r] \in Job
           /\ job'[r].batch = job[r].batch
           /\ job'[r].reset = job[r].reset
           /\ job'[r].group = job[r].group
           /\ job'[r].todo = job[r].todo \o accepted
           /\ Len(job'[r].outcomes) <= Len(job'[r].batch)
           /\ pc'[r] = "record"
           /\ job'[r].reset = after.resets =>
                \A k \in DOMAIN job'[r].outcomes :
                    LET record == job'[r].batch[k] IN
                    CASE job'[r].outcomes[k] \in {"accepted", "retry"} ->
                            record \in after.events
                      [] job'[r].outcomes[k] = "collapsed" ->
                            \E g \in DOMAIN after.groups :
                                after.groups[g].count > 1
                      [] OTHER -> record \in after.quarantined
<1> DEFINE j == job[r]
           outcomes == Append(j.outcomes, outcome)
           new == [j EXCEPT !.outcomes = outcomes, !.todo = j.todo \o accepted]
<1>1. j \in Job
  BY DEF TypeOK
<1>2. /\ j.outcomes \in Seq(Outcome) /\ Len(j.outcomes) \in Nat
      /\ DOMAIN j.outcomes = 1..Len(j.outcomes)
      /\ j.todo \in Seq(Metrics \cup Alerts) /\ Len(j.batch) \in Nat
  BY <1>1, JobFields
<1>3. job'[r] = new /\ pc'[r] = "record"
  BY DEF Conclude, Goto, TypeOK
<1>4. /\ outcomes \in Seq(Outcome) /\ Len(outcomes) = Len(j.outcomes) + 1
      /\ \A k \in 1..Len(j.outcomes) : outcomes[k] = j.outcomes[k]
      /\ outcomes[Len(j.outcomes) + 1] = outcome
      /\ j.todo \o accepted \in Seq(Metrics \cup Alerts)
  BY <1>2
<1>5. DOMAIN outcomes = 1..(Len(j.outcomes) + 1)
  BY <1>4, LenProperties
<1> HIDE DEF outcomes
<1>6. /\ new \in Job /\ new.outcomes = outcomes /\ new.batch = j.batch
      /\ new.reset = j.reset /\ new.todo = j.todo \o accepted
      /\ new.group = j.group
  BY <1>1, <1>4 DEF Job
<1> HIDE DEF new
<1>7. Len(new.outcomes) <= Len(new.batch)
  BY <1>2, <1>4, <1>6 DEF HasRecord
<1>8. Told(r, after)
  BY ToldGrows
<1>9. Current(r) = j.batch[Len(j.outcomes) + 1]
  BY DEF Current
<1>10. ASSUME j.reset = after.resets, NEW k \in DOMAIN outcomes
       PROVE  CASE outcomes[k] \in {"accepted", "retry"} ->
                      j.batch[k] \in after.events
                [] outcomes[k] = "collapsed" ->
                      \E g \in DOMAIN after.groups : after.groups[g].count > 1
                [] OTHER -> j.batch[k] \in after.quarantined
  <2>1. CASE k \in 1..Len(j.outcomes)
    BY <1>2, <1>4, <1>8, <1>10, <2>1 DEF Told
  <2>2. CASE k = Len(j.outcomes) + 1
    BY <1>4, <1>9, <2>2
  <2> QED
    BY <1>2, <1>5, <2>1, <2>2
<1> QED
  BY <1>3, <1>6, <1>7, <1>10

(* A statement that writes and settles a record.                            *)
LEMMA WriteConcludes ==
    ASSUME IngestionInv, NEW r \in Requests, pc[r] \in Working, HasRecord(r),
           NEW outcome \in Outcome, NEW accepted \in Seq(Metrics \cup Alerts),
           Conclude(r, outcome, accepted),
           NEW image \in Image, Write(r, image), UNCHANGED <<db, store>>,
           Grows(View(r), image), Sound(image),
           image.baseline = View(r).baseline,
           \A e \in image.events \cap Metrics :
              \/ e \in View(r).events
              \/ \E k \in DOMAIN accepted : accepted[k] = e,
           CASE outcome \in {"accepted", "retry"} ->
                   Current(r) \in image.events
             [] outcome = "collapsed" ->
                   \E g \in DOMAIN image.groups : image.groups[g].count > 1
             [] OTHER -> Current(r) \in image.quarantined
    PROVE  IngestionInv'
<1>1. TypeOK /\ WriterInv /\ StoreInv /\ RequestInv(r)
  BY DEF IngestionInv, RequestsInv
<1>2. /\ writer \in {NoRequest, r} /\ writer' = r /\ tx' = image
      /\ r # Resetter /\ r # NoRequest
  BY <1>1, TypeFacts DEF Write
<1>3. View(r) = tx /\ View(r)' = image
  BY <1>1, <1>2 DEF View, WriterInv
<1>4. Told(r, tx) /\ Len(job[r].outcomes) <= Len(job[r].batch)
  BY <1>1, <1>3 DEF RequestInv
<1>5. /\ job'[r] \in Job /\ job'[r].batch = job[r].batch
      /\ job'[r].reset = job[r].reset /\ job'[r].group = job[r].group
      /\ job'[r].todo = job[r].todo \o accepted
      /\ Len(job'[r].outcomes) <= Len(job'[r].batch)
      /\ pc'[r] = "record"
      /\ Told(r, image)'
  <2>1. tx \in Image /\ Grows(tx, image)
    BY <1>1, <1>3 DEF TypeOK
  <2>2. ASSUME job'[r].reset = image.resets
        PROVE \A k \in DOMAIN job'[r].outcomes :
                    LET record == job'[r].batch[k] IN
                    CASE job'[r].outcomes[k] \in {"accepted", "retry"} ->
                            record \in image.events
                      [] job'[r].outcomes[k] = "collapsed" ->
                            \E g \in DOMAIN image.groups :
                                image.groups[g].count > 1
                      [] OTHER -> record \in image.quarantined
    BY <1>1, <1>4, <2>1, <2>2, ConcludeFacts
  <2>3. Told(r, image)'
    BY ONLY <2>2 DEF Told
  <2>4. /\ job'[r] \in Job /\ job'[r].batch = job[r].batch
        /\ job'[r].reset = job[r].reset /\ job'[r].group = job[r].group
        /\ job'[r].todo = job[r].todo \o accepted
        /\ Len(job'[r].outcomes) <= Len(job'[r].batch)
        /\ pc'[r] = "record"
    BY <1>1, <1>4, <2>1, ConcludeFacts
  <2> QED
    BY <2>3, <2>4
<1>6. Steps(r)
  BY DEF Steps, Conclude, Goto
<1>7. TypeOK'
  BY <1>1, <1>2, <1>5, <1>6 DEF TypeOK, Steps
<1>8. StoreInv'
  BY <1>1, <1>2, <1>3 DEF StoreInv
<1>9. Pending(r)'
  <2>1. Pending(r)
    BY <1>1, <1>2 DEF RequestInv, WriterInv, InBaseline, Pending
  <2>2. /\ job[r].todo \in Seq(Metrics \cup Alerts)
        /\ accepted \in Seq(Metrics \cup Alerts)
        /\ Len(job[r].todo) \in Nat /\ Len(accepted) \in Nat
        /\ DOMAIN job[r].todo = 1..Len(job[r].todo)
        /\ DOMAIN accepted = 1..Len(accepted)
    BY <1>1, JobFields, LenProperties DEF TypeOK
  <2> DEFINE todo == job[r].todo \o accepted
  <2>3. /\ Len(todo) = Len(job[r].todo) + Len(accepted)
        /\ todo \in Seq(Metrics \cup Alerts)
        /\ \A k \in 1..Len(job[r].todo) : todo[k] = job[r].todo[k]
        /\ \A k \in 1..Len(accepted) :
              todo[Len(job[r].todo) + k] = accepted[k]
    BY ONLY <2>2, ConcatSeq
  <2>4. DOMAIN todo = 1..Len(todo)
    BY <2>3, LenProperties
  <2> HIDE DEF todo
  <2>5. ASSUME NEW e \in image.events \cap Metrics
        PROVE  \/ \E k \in DOMAIN image.baseline : image.baseline[k].record = e
               \/ \E k \in DOMAIN todo : todo[k] = e
    <3>1. CASE e \in tx.events
      <4>1. CASE \E k \in DOMAIN job[r].todo : job[r].todo[k] = e
        <5>1. PICK k \in 1..Len(job[r].todo) : job[r].todo[k] = e
          BY <4>1, <2>2
        <5>2. k \in DOMAIN todo /\ todo[k] = e
          BY <5>1, <2>2, <2>3, <2>4
        <5> QED
          BY <5>2
      <4> QED
        BY <1>3, <2>1, <2>5, <3>1, <4>1 DEF Pending
    <3>2. CASE \E k \in DOMAIN accepted : accepted[k] = e
      <4>1. PICK k \in 1..Len(accepted) : accepted[k] = e
        BY <3>2, <2>2
      <4>2. /\ Len(job[r].todo) + k \in DOMAIN todo
            /\ todo[Len(job[r].todo) + k] = e
        BY <4>1, <2>2, <2>3, <2>4
      <4> QED
        BY <4>2
    <3> QED
      BY <1>3, <2>5, <3>1, <3>2
  <2> QED
    BY <1>2, <1>5, <2>5 DEF Pending, todo
<1>10. RequestInv(r)'
  <2>1. job'[r].reset <= db'.resets /\ job'[r].group.reset <= db'.resets
    BY <1>1, <1>5 DEF RequestInv
  <2> QED
    BY <1>2, <1>3, <1>5, <1>9, <2>1 DEF RequestInv, Working
<1> QED
  BY <1>1, <1>2, <1>3, <1>6, <1>7, <1>8, <1>10, WriterFrame

(* An invalid record is quarantined.                                        *)
LEMMA QuarantineKeeps ==
    ASSUME IngestionInv, NEW r \in Requests, Quarantine(r)
    PROVE  IngestionInv'
<1> DEFINE image == [View(r) EXCEPT !.quarantined = @ \cup {Current(r)}]
<1>1. /\ pc[r] = "record" /\ HasRecord(r) /\ Current(r) \in Invalid
      /\ Write(r, image) /\ Conclude(r, "quarantined", << >>)
      /\ UNCHANGED <<db, store>>
  BY DEF Quarantine
<1>2. TypeOK /\ WriterInv /\ View(r) \in Image /\ Sound(View(r))
  BY TypeFacts DEF IngestionInv, WriterInv, View
<1>3. /\ image \in Image /\ Sound(image) /\ Grows(View(r), image)
      /\ Current(r) \in image.quarantined
      /\ image.events = View(r).events /\ image.baseline = View(r).baseline
  BY <1>1, <1>2, QuarantineGrows
<1>4. /\ "quarantined" \in Outcome /\ << >> \in Seq(Metrics \cup Alerts)
      /\ pc[r] \in Working
  BY <1>1 DEF Outcome, Working
<1> HIDE DEF image
<1> QED
  BY <1>1, <1>3, <1>4, WriteConcludes

(* A record is stored.                                                      *)
LEMMA StoreRecordKeeps ==
    ASSUME IngestionInv, NEW r \in Requests, StoreRecord(r)
    PROVE  IngestionInv'
<1> DEFINE image == Stored(View(r), Current(r))
<1>1. /\ pc[r] = "store" /\ Current(r) \notin View(r).events
      /\ Write(r, image) /\ Conclude(r, "accepted", <<Current(r)>>)
      /\ UNCHANGED <<db, store>>
  BY DEF StoreRecord
<1>2. TypeOK /\ WriterInv /\ View(r) \in Image /\ Sound(View(r))
  BY TypeFacts DEF IngestionInv, WriterInv, View
<1>3. HasRecord(r) /\ Current(r) \in Metrics \cup Alerts
  BY <1>1 DEF IngestionInv, RequestsInv, RequestInv
<1>4. /\ image \in Image /\ Sound(image) /\ Grows(View(r), image)
      /\ image.events = View(r).events \cup {Current(r)}
      /\ image.baseline = View(r).baseline
  BY <1>1, <1>2, <1>3, StoredGrows
<1> DEFINE accepted == <<Current(r)>>
<1>5. /\ accepted \in Seq(Metrics \cup Alerts)
      /\ 1 \in DOMAIN accepted /\ accepted[1] = Current(r)
  BY <1>3
<1>6. "accepted" \in Outcome /\ pc[r] \in Working
  BY <1>1 DEF Outcome, Working
<1>7. Conclude(r, "accepted", accepted)
  BY <1>1
<1> HIDE DEF image, accepted
<1> QED
  BY <1>1, <1>3, <1>4, <1>5, <1>6, <1>7, WriteConcludes

(* A duplicate is counted in the group that was looked up.                  *)
LEMMA IncrementKeeps ==
    ASSUME IngestionInv, NEW r \in Requests, Increment(r)
    PROVE  IngestionInv'
<1> DEFINE n == job[r].count + 1
           image == [View(r) EXCEPT !.groups[job[r].group.at].count = n]
<1>1. /\ pc[r] = "increment" /\ job[r].group.reset = View(r).resets
      /\ Write(r, image) /\ Conclude(r, "collapsed", << >>)
      /\ UNCHANGED <<db, store>>
  BY DEF Increment
<1>2. TypeOK /\ WriterInv /\ View(r) \in Image /\ Sound(View(r))
  BY TypeFacts DEF IngestionInv, WriterInv, View
<1>3. /\ HasRecord(r) /\ job[r].count >= 1
      /\ job[r].group.at \in DOMAIN View(r).groups
  BY <1>1 DEF IngestionInv, RequestsInv, RequestInv
<1>4. n \in Nat /\ n > 1
  BY <1>2, <1>3, JobFields DEF TypeOK
<1> HIDE DEF n
<1>5. /\ image \in Image /\ Sound(image) /\ Grows(View(r), image)
      /\ \E g \in DOMAIN image.groups : image.groups[g].count > 1
      /\ image.events = View(r).events /\ image.baseline = View(r).baseline
  BY <1>2, <1>3, <1>4, IncrementGrows
<1>6. /\ "collapsed" \in Outcome /\ << >> \in Seq(Metrics \cup Alerts)
      /\ pc[r] \in Working
  BY <1>1 DEF Outcome, Working
<1> HIDE DEF image
<1> QED
  BY <1>1, <1>3, <1>5, <1>6, WriteConcludes

(* A record is looked up.                                                   *)
LEMMA LookupRecordKeeps ==
    ASSUME IngestionInv, NEW r \in Requests, LookupRecord(r)
    PROVE  IngestionInv'
<1>1. TypeOK /\ WriterInv /\ RequestInv(r)
  BY DEF IngestionInv, RequestsInv
<1>2. /\ pc[r] = "record" /\ HasRecord(r) /\ Current(r) \notin Invalid
      /\ UNCHANGED <<db, tx, writer, store>>
  BY DEF LookupRecord
<1>3. View(r)' = View(r) /\ View(r) \in Image
  BY <1>1, <1>2, TypeFacts DEF View
<1>4. /\ job[r] \in Job /\ Len(job[r].outcomes) \in Nat
      /\ Len(job[r].batch) \in Nat
      /\ job[r].todo \in Seq(Metrics \cup Alerts)
  BY <1>1, JobFields DEF TypeOK
<1>5. Current(r) \in Metrics \cup Alerts
  BY <1>2, <1>4, JobFields DEF Current, HasRecord, Records
<1>6. CASE Current(r) \in View(r).events
  <2>1. Conclude(r, "retry", << >>)
    BY <1>6 DEF LookupRecord
  <2>2. /\ "retry" \in Outcome /\ << >> \in Seq(Metrics \cup Alerts)
        /\ Told(r, View(r)) /\ Grows(View(r), View(r))
        /\ Len(job[r].outcomes) <= Len(job[r].batch)
        /\ job[r].todo \o << >> = job[r].todo
    BY <1>1, <1>2, <1>3, <1>4, GrowsReflexive
    DEF Outcome, RequestInv, Working
  <2>3. PICK image \in Image : image = View(r)
    BY <1>3
  <2>4. /\ job'[r] \in Job /\ job'[r].batch = job[r].batch
        /\ job'[r].reset = job[r].reset /\ job'[r].group = job[r].group
        /\ job'[r].todo = job[r].todo
        /\ Len(job'[r].outcomes) <= Len(job'[r].batch)
        /\ pc'[r] = "record"
    BY <1>1, <1>2, <1>6, <2>1, <2>2, <2>3, ConcludeFacts, ZenonT(40)
  <2>5. ASSUME job'[r].reset = image.resets
        PROVE \A k \in DOMAIN job'[r].outcomes :
                    LET record == job'[r].batch[k] IN
                    CASE job'[r].outcomes[k] \in {"accepted", "retry"} ->
                            record \in image.events
                      [] job'[r].outcomes[k] = "collapsed" ->
                            \E g \in DOMAIN image.groups :
                                image.groups[g].count > 1
                      [] OTHER -> record \in image.quarantined
    BY <1>1, <1>2, <1>6, <2>1, <2>2, <2>3, <2>5, ConcludeFacts, ZenonT(40)
  <2>6. Told(r, image)'
    BY ONLY <2>5 DEF Told
  <2>7. Told(r, View(r))'
    BY <1>3, <2>3, <2>6 DEF Told
  <2>8. Steps(r)
    BY <2>1 DEF Steps, Conclude, Goto
  <2>9. TypeOK'
    BY <1>1, <1>2, <2>4, <2>8 DEF TypeOK, Steps
  <2>10. RequestInv(r)'
    BY <1>1, <1>2, <2>4, <2>7 DEF RequestInv, Working, Pending
  <2> QED
    BY <1>2, <2>8, <2>9, <2>10, LocalFrame
<1>7. CASE Current(r) \notin View(r).events
  <2>1. /\ pc' = [pc EXCEPT ![r] = IF Current(r) \in Alerts THEN "group"
                                   ELSE "store"]
        /\ job' = job
    BY <1>7 DEF LookupRecord, Goto
  <2>2. Steps(r) /\ TypeOK'
    <3>1. job' = [job EXCEPT ![r] = job[r]]
      BY <1>1, <2>1 DEF TypeOK
    <3> QED
      BY <1>1, <1>2, <2>1, <3>1 DEF Steps, TypeOK
  <2>3. Told(r, View(r))'
    BY <1>1, <1>2, <1>3, <2>1 DEF RequestInv, Working, Told
  <2>4. /\ pc'[r] \in {"group", "store"}
        /\ pc'[r] = "group" => Current(r) \in Alerts
    BY <1>1, <2>1 DEF TypeOK
  <2>5. RequestInv(r)'
    BY <1>1, <1>2, <1>3, <1>5, <2>1, <2>3, <2>4
    DEF RequestInv, Working, HasRecord, Current, Pending
  <2> QED
    BY <1>2, <2>2, <2>5, LocalFrame
<1> QED
  BY <1>6, <1>7

(* The group of a duplicate is looked up.                                   *)
LEMMA LookupGroupKeeps ==
    ASSUME IngestionInv, NEW r \in Requests, LookupGroup(r)
    PROVE  IngestionInv'
<1>1. TypeOK /\ WriterInv /\ RequestInv(r)
  BY DEF IngestionInv, RequestsInv
<1>2. pc[r] = "group" /\ UNCHANGED <<db, tx, writer, store>>
  BY DEF LookupGroup
<1>3. View(r)' = View(r) /\ View(r) \in Image /\ Sound(View(r))
  BY <1>1, <1>2, TypeFacts DEF View, WriterInv
<1>4. job[r] \in Job
  BY <1>1 DEF TypeOK
<1>5. CASE Goto(r, "store") /\ UNCHANGED job
  <2>1. Steps(r) /\ TypeOK'
    <3>1. job' = [job EXCEPT ![r] = job[r]]
      BY <1>1, <1>5 DEF TypeOK
    <3> QED
      BY <1>1, <1>2, <1>5, <3>1 DEF Steps, TypeOK, Goto
  <2>2. pc'[r] = "store"
    BY <1>1, <1>5 DEF Goto, TypeOK
  <2>3. Told(r, View(r))'
    BY <1>1, <1>2, <1>3, <1>5 DEF RequestInv, Working, Told
  <2>4. RequestInv(r)'
    BY <1>1, <1>2, <1>3, <1>5, <2>2, <2>3
    DEF RequestInv, Working, HasRecord, Current, Pending
  <2> QED
    BY <1>2, <2>1, <2>4, LocalFrame
<1>6. ASSUME Len(View(r).groups) = 1,
             job' = [job EXCEPT
                        ![r].group = [at |-> 1, reset |-> View(r).resets],
                        ![r].count = View(r).groups[1].count],
             Goto(r, "increment")
      PROVE  IngestionInv'
  <2> DEFINE at == [at |-> 1, reset |-> View(r).resets]
             n == View(r).groups[1].count
             j == [job[r] EXCEPT !.group = at, !.count = n]
  <2>1. /\ 1 \in DOMAIN View(r).groups /\ n \in Nat /\ n >= 1
        /\ View(r).resets \in 0..MaxResets
    <3> DEFINE groups == View(r).groups
    <3>1. /\ groups \in Seq(Group) /\ DOMAIN groups = 1..Len(groups)
          /\ View(r).resets \in 0..MaxResets
      BY <1>3, ImageFields
    <3>2. 1 \in DOMAIN groups
      BY <1>6, <3>1
    <3>3. groups[1] \in Group
      BY ONLY <3>1, <3>2, ElementOfSeq
    <3>4. groups[1].count \in Nat /\ groups[1].count >= 1
      BY <1>3, <3>2, <3>3 DEF Sound, Group
    <3> QED
      BY <3>1, <3>2, <3>4
  <2>2. /\ j \in Job /\ j.group.at = 1 /\ j.group.reset = View(r).resets
        /\ j.count = n /\ j.batch = job[r].batch
        /\ j.outcomes = job[r].outcomes /\ j.todo = job[r].todo
        /\ j.reset = job[r].reset
    BY <1>4, <2>1 DEF Job
  <2>3. job' = [job EXCEPT ![r] = j]
    BY <1>1, <1>6 DEF TypeOK
  <2> HIDE DEF j, n
  <2>4. job'[r] = j /\ pc'[r] = "increment" /\ Steps(r) /\ TypeOK'
    BY <1>1, <1>2, <1>6, <2>2, <2>3 DEF TypeOK, Goto, Steps
  <2>5. Told(r, View(r))'
    BY <1>1, <1>2, <1>3, <2>2, <2>4 DEF RequestInv, Working, Told
  <2>7. View(r).resets = db.resets /\ db.resets \in Nat
    BY <1>1, ViewGrows, ImageFields DEF Grows, TypeOK
  <2>6. RequestInv(r)'
    BY <1>1, <1>2, <1>3, <2>1, <2>2, <2>4, <2>5, <2>7, SMTT(30)
    DEF RequestInv, Working, HasRecord, Current, Pending
  <2> QED
    BY <1>2, <2>4, <2>6, LocalFrame
<1> QED
  BY <1>5, <1>6 DEF LookupGroup

(* Publish and Processed only move the request on.                         *)
LEMMA PassedOn ==
    ASSUME IngestionInv, NEW r \in Requests,
           NEW label \in {"detect", "finish"},
           Goto(r, label), UNCHANGED <<db, tx, writer, store, job>>,
           pc[r] \in {"record", "detect"},
           pc[r] = "record" => ~HasRecord(r),
           label = "detect" <=> job[r].todo # << >>
    PROVE  IngestionInv'
<1>1. TypeOK /\ WriterInv /\ RequestInv(r)
  BY DEF IngestionInv, RequestsInv
<1>2. job[r] \in Job
  BY <1>1 DEF TypeOK
<1>3. Steps(r) /\ TypeOK' /\ pc'[r] = label
  <2>1. job' = [job EXCEPT ![r] = job[r]]
    BY <1>1 DEF TypeOK
  <2> QED
    BY <1>1, <2>1 DEF Steps, TypeOK, Goto
<1>4. Told(r, View(r))'
  BY <1>1 DEF RequestInv, Working, Told, View
<1>5. Len(job[r].outcomes) = Len(job[r].batch)
  BY <1>1, <1>2, JobFields DEF RequestInv, HasRecord
<1>6. RequestInv(r)'
  BY <1>1, <1>3, <1>4, <1>5 DEF RequestInv, Working, Pending
<1> QED
  BY <1>3, <1>6, LocalFrame

(* The batch is passed on, and its processing ends.                         *)
LEMMA PublishKeeps ==
    ASSUME IngestionInv, NEW r \in Requests, Publish(r) \/ Processed(r)
    PROVE  IngestionInv'
<1> QED
  BY PassedOn DEF Publish, Processed

(* The steps that end the session of a request.                             *)
LEMMA EndsKeep ==
    ASSUME IngestionInv, NEW r \in Requests,
           \/ LookupGroupFails(r) \/ IncrementFails(r) \/ StoreRejected(r)
           \/ WriterTimeout(r) \/ DetectFails(r) \/ AnalysisFails(r)
           \/ Commit(r) \/ CommitFails(r)
    PROVE  IngestionInv'
<1>1. RequestInv(r)
  BY DEF IngestionInv, RequestsInv
<1>2. ASSUME End(r, db, "failed"), UNCHANGED <<store, job>>,
             pc[r] \in Working
      PROVE  IngestionInv'
  <2>1. "failed" \in {"done", "failed"} /\ db \in {db, tx}
    OBVIOUS
  <2> QED
    BY <1>2, <2>1, EndFrame
<1>3. CASE AnalysisFails(r)
  BY <1>3, EndFrame DEF AnalysisFails, Working
<1>4. CASE Commit(r)
  BY <1>1, <1>4, EndFrame DEF Commit, Working, RequestInv
<1> QED
  BY <1>2, <1>3, <1>4
  DEF LookupGroupFails, IncrementFails, StoreRejected, WriterTimeout,
      DetectFails, CommitFails, Working

-----------------------------------------------------------------------------
(* The evaluation of one representative.                                   *)

(* The head and the tail of a sequence.                                     *)
LEMMA TailSeq ==
    ASSUME NEW S, NEW s \in Seq(S), s # << >>
    PROVE  /\ Head(s) \in S /\ Tail(s) \in Seq(S)
           /\ Len(Tail(s)) = Len(s) - 1 /\ Head(s) = s[1]
           /\ \A k \in 1..(Len(s) - 1) : Tail(s)[k] = s[k + 1]
<1> QED
  BY HeadTailProperties

(* What the cached state becomes: the loaded samples and the new one.       *)
LEMMA PutFacts ==
    ASSUME TypeOK, WriterInv, StoreInv, NEW r \in Requests, writer = r,
           NEW record \in Metrics
    PROVE  LET sample == Evaluated(record)
               s == Put(Get(store, tx.baseline), sample)
           IN /\ Flush(s) \in Store
              /\ Flush(s).dirty = FALSE /\ Flush(s).loaded = TRUE
              /\ s.dirty = TRUE /\ s.cache = Flush(s).cache
              /\ s.cache \in Seq(Sample)
              /\ IsPrefix(tx.baseline, s.cache)
              /\ \A k \in DOMAIN s.cache : s.cache[k].reset = tx.resets
              /\ \E k \in DOMAIN s.cache : s.cache[k].record = record
<1> DEFINE sample == Evaluated(record)
           cache == IF store.loaded THEN store.cache ELSE tx.baseline
           more == Append(cache, sample)
           s == Put(Get(store, tx.baseline), sample)
<1>1. /\ store \in Store /\ tx \in Image /\ store.cache \in Seq(Sample)
      /\ tx.baseline \in Seq(Sample) /\ store.loaded \in BOOLEAN
      /\ writer # Resetter /\ tx.resets = db.resets
      /\ tx.resets \in 0..MaxResets
  BY ImageFields, TypeFacts DEF TypeOK, Store, WriterInv, Grows
<1>2. sample \in Sample /\ sample.record = record /\ sample.reset = tx.resets
  BY <1>1 DEF Evaluated, Sample
<1>3. /\ cache \in Seq(Sample) /\ IsPrefix(tx.baseline, cache)
      /\ \A k \in DOMAIN cache : cache[k].reset = tx.resets
  <2>1. CASE store.loaded
    BY <1>1, <2>1 DEF StoreInv
  <2>2. CASE ~store.loaded
    BY <1>1, <2>2, PrefixReflexive DEF WriterInv, Sound
  <2> QED
    BY <2>1, <2>2
<1> HIDE DEF sample
<1> DEFINE got == Get(store, tx.baseline)
<1>4. got \in Store /\ got.cache = cache /\ got.loaded = TRUE
  BY <1>1 DEF Get, Store
<1> HIDE DEF cache, got
<1>5. /\ more \in Seq(Sample) /\ Len(more) = Len(cache) + 1
      /\ \A k \in 1..Len(cache) : more[k] = cache[k]
      /\ more[Len(cache) + 1] = sample
      /\ IsPrefix(cache, more) /\ Len(cache) \in Nat
  BY <1>2, <1>3, PrefixOfAppend
<1>6. /\ DOMAIN more = 1..(Len(cache) + 1)
      /\ DOMAIN cache = 1..Len(cache)
  BY <1>3, <1>5, LenProperties
<1> HIDE DEF more
<1>7. IsPrefix(tx.baseline, more)
  BY <1>1, <1>3, <1>5, PrefixTransitive
<1>8. \A k \in DOMAIN more : more[k].reset = tx.resets
  <2>1. ASSUME NEW k \in DOMAIN more
        PROVE  more[k].reset = tx.resets
    <3>1. CASE k \in 1..Len(cache)
      BY <1>3, <1>5, <1>6, <3>1
    <3>2. CASE k = Len(cache) + 1
      BY <1>2, <1>5, <3>2
    <3> QED
      BY <1>5, <1>6, <2>1, <3>1, <3>2
  <2> QED
    BY <2>1
<1>9. \E k \in DOMAIN more : more[k].record = record
  <2>1. Len(cache) + 1 \in DOMAIN more
    BY <1>5, <1>6
  <2> QED
    BY <1>2, <1>5, <2>1
<1>10. s \in Store /\ s.cache = more /\ s.dirty = TRUE /\ s.loaded = TRUE
  <2>1. s = [got EXCEPT !.cache = Append(got.cache, sample), !.dirty = TRUE]
    BY DEF Put, got
  <2>2. Append(got.cache, sample) = more
    BY <1>4 DEF more
  <2> HIDE DEF s
  <2> QED
    BY <1>4, <1>5, <2>1, <2>2 DEF Store
<1> HIDE DEF s
<1>11. /\ Flush(s) \in Store /\ Flush(s).cache = more
       /\ Flush(s).dirty = FALSE /\ Flush(s).loaded = TRUE
  BY <1>5, <1>10 DEF Store, Flush
<1> QED
  BY <1>5, <1>7, <1>8, <1>9, <1>10, <1>11 DEF s, sample

(* An event is evaluated.                                                   *)
LEMMA EvaluateKeeps ==
    ASSUME IngestionInv, NEW r \in Requests, Evaluate(r)
    PROVE  IngestionInv'
<1>1. TypeOK /\ WriterInv /\ StoreInv /\ RequestInv(r)
  BY DEF IngestionInv, RequestsInv
<1>2. /\ pc[r] = "detect" /\ job[r].todo # << >> /\ writer = r
      /\ job' = [job EXCEPT ![r].todo = Tail(@)]
      /\ db' = db /\ writer' = writer /\ pc' = pc
  BY <1>1 DEF Evaluate, RequestInv
<1> DEFINE j == [job[r] EXCEPT !.todo = Tail(job[r].todo)]
           record == Head(job[r].todo)
<1>3. /\ job[r] \in Job /\ job[r].todo \in Seq(Metrics \cup Alerts)
      /\ Len(job[r].todo) \in Nat
      /\ DOMAIN job[r].todo = 1..Len(job[r].todo)
      /\ tx \in Image /\ db \in Image
  BY <1>1, JobFields DEF TypeOK
<1>4. /\ record \in Metrics \cup Alerts
      /\ Tail(job[r].todo) \in Seq(Metrics \cup Alerts)
      /\ Len(Tail(job[r].todo)) = Len(job[r].todo) - 1
      /\ record = job[r].todo[1]
      /\ \A k \in 1..(Len(job[r].todo) - 1) :
            Tail(job[r].todo)[k] = job[r].todo[k + 1]
  BY <1>2, <1>3, TailSeq
<1>5. DOMAIN Tail(job[r].todo) = 1..(Len(job[r].todo) - 1)
  BY <1>4, LenProperties
<1>6. /\ j \in Job /\ j.todo = Tail(job[r].todo)
      /\ j.batch = job[r].batch /\ j.outcomes = job[r].outcomes
      /\ j.reset = job[r].reset /\ j.group = job[r].group
  BY <1>3, <1>4 DEF Job
<1>7. job' = [job EXCEPT ![r] = j]
  BY <1>2
<1> HIDE DEF j, record
<1>8. job'[r] = j /\ Steps(r)
  <2>1. pc' = [pc EXCEPT ![r] = pc[r]]
    BY <1>1, <1>2 DEF TypeOK
  <2> QED
    BY <1>1, <1>7, <2>1 DEF Steps, TypeOK
<1>9. \A e \in Metrics :
         (\E k \in DOMAIN job[r].todo : job[r].todo[k] = e) =>
            e = record \/ \E k \in DOMAIN j.todo : j.todo[k] = e
  <2>1. ASSUME NEW e, NEW k \in DOMAIN job[r].todo, job[r].todo[k] = e,
               e # record
        PROVE  \E i \in DOMAIN j.todo : j.todo[i] = e
    <3>1. k # 1 /\ k \in 1..Len(job[r].todo)
      BY <1>3, <1>4, <2>1
    <3>2. k - 1 \in 1..(Len(job[r].todo) - 1) /\ (k - 1) + 1 = k
      BY <1>3, <3>1
    <3>3. k - 1 \in DOMAIN j.todo /\ j.todo[k - 1] = e
      BY <1>4, <1>5, <1>6, <2>1, <3>2
    <3> QED
      BY <3>3
  <2> QED
    BY <2>1
<1>10. Pending(r)
  BY <1>1, <1>2 DEF RequestInv
<1>11. /\ tx' \in Image /\ tx'.events = tx.events /\ Grows(tx, tx')
       /\ tx'.quarantined = tx.quarantined /\ tx'.groups = tx.groups
       /\ Sound(tx') /\ store' \in Store /\ StoreInv' /\ Pending(r)'
  <2>1. CASE record \in Metrics
    <3> DEFINE s == Put(Get(store, tx.baseline), Evaluated(record))
    <3>1. store' = Flush(s) /\ tx' = [tx EXCEPT !.baseline = Flushed(s, @)]
      BY <2>1 DEF Evaluate, record
    <3>2. /\ Flush(s) \in Store
          /\ Flush(s).dirty = FALSE /\ Flush(s).loaded = TRUE
          /\ s.dirty = TRUE /\ s.cache = Flush(s).cache
          /\ s.cache \in Seq(Sample)
          /\ IsPrefix(tx.baseline, s.cache)
          /\ \A k \in DOMAIN s.cache : s.cache[k].reset = tx.resets
          /\ \E k \in DOMAIN s.cache : s.cache[k].record = record
      BY <1>1, <1>2, <2>1, PutFacts
    <3> HIDE DEF s
    <3>3. /\ tx' \in Image /\ tx'.events = tx.events
          /\ tx'.groups = tx.groups /\ tx'.resets = tx.resets
          /\ tx'.quarantined = tx.quarantined /\ tx'.baseline = s.cache
      BY <1>3, <3>1, <3>2 DEF Image, Flushed
    <3>4. Sound(tx')
      BY <1>1, <3>2, <3>3 DEF WriterInv, Sound, Represented
    <3>5. Grows(tx, tx')
      BY <1>3, <3>2, <3>3, GrowsReflexive DEF Grows
    <3>6. StoreInv'
      <4>2. IsPrefix(s.cache, s.cache)
        BY <3>2, PrefixReflexive
      <4>3. tx.resets = db.resets
        BY <1>1, <1>2 DEF WriterInv, Grows
      <4>4. writer # Resetter
        BY <1>1, <1>2, TypeFacts
      <4> QED
        BY <1>2, <3>1, <3>2, <3>3, <4>2, <4>3, <4>4 DEF StoreInv
    <3>7. ASSUME NEW e \in tx'.events \cap Metrics
          PROVE  \/ \E k \in DOMAIN tx'.baseline : tx'.baseline[k].record = e
                 \/ \E k \in DOMAIN j.todo : j.todo[k] = e
      <4>1. CASE \E k \in DOMAIN tx.baseline : tx.baseline[k].record = e
        <5>1. PICK k \in DOMAIN tx.baseline : tx.baseline[k].record = e
          BY <4>1
        <5>2. /\ tx.baseline \in Seq(Sample)
              /\ DOMAIN tx.baseline = 1..Len(tx.baseline)
              /\ Len(tx.baseline) \in Nat
              /\ DOMAIN s.cache = 1..Len(s.cache) /\ Len(s.cache) \in Nat
          BY <1>3, <3>2, ImageFields, LenProperties
        <5>3. k \in DOMAIN s.cache /\ s.cache[k] = tx.baseline[k]
          BY <3>2, <5>1, <5>2, PrefixDef
        <5> QED
          BY <3>3, <5>1, <5>3
      <4>2. CASE e = record
        BY <3>2, <3>3, <4>2
      <4> QED
        BY <1>9, <1>10, <3>3, <3>7, <4>1, <4>2 DEF Pending
    <3>8. Pending(r)'
      BY <1>6, <1>8, <3>7 DEF Pending
    <3> QED
      BY <3>1, <3>2, <3>3, <3>4, <3>5, <3>6, <3>8
  <2>2. CASE record \notin Metrics
    <3>1. tx' = tx /\ store' = store
      BY <2>2 DEF Evaluate, record
    <3>2. Sound(tx) /\ Grows(tx, tx) /\ store \in Store
      BY <1>1, <1>3, GrowsReflexive DEF WriterInv, TypeOK
    <3>3. StoreInv'
      BY <1>1, <1>2, <3>1 DEF StoreInv
    <3>4. Pending(r)'
      BY <1>8, <1>9, <1>10, <2>2, <3>1 DEF Pending
    <3> QED
      BY <1>3, <3>1, <3>2, <3>3, <3>4
  <2> QED
    BY <2>1, <2>2
<1>12. TypeOK'
  BY <1>1, <1>2, <1>6, <1>7, <1>11 DEF TypeOK
<1>13. Told(r, View(r))'
  <2>1. Told(r, tx)
    BY <1>1, <1>2 DEF RequestInv, Working, View
  <2>2. View(r)' = tx' /\ tx'.resets = tx.resets
    BY <1>2, <1>11 DEF View, Grows
  <2> QED
    BY <1>6, <1>8, <1>11, <2>1, <2>2 DEF Told
<1>14. RequestInv(r)'
  BY <1>1, <1>2, <1>6, <1>8, <1>11, <1>13 DEF RequestInv, Working
<1> QED
  BY <1>2, <1>8, <1>11, <1>12, <1>14, WriterFrame

-----------------------------------------------------------------------------
(* The steps of everybody: the reset and the restart.                       *)

(* A reset clears the tables.                                               *)
LEMMA ClearRowsKeeps ==
    ASSUME IngestionInv, ClearRows
    PROVE  IngestionInv'
<1>1. TypeOK /\ WriterInv /\ StoreInv /\ RequestsInv
  BY DEF IngestionInv
<1>2. /\ writer = NoRequest /\ db.resets < MaxResets /\ writer' = Resetter
      /\ tx' = EmptyImage(db.resets + 1) /\ store' = EmptyStore
      /\ db' = db /\ pc' = pc /\ job' = job
  BY DEF ClearRows
<1>3. db.resets + 1 \in 0..MaxResets
  BY <1>1, <1>2, ImageFields, MaxResetsAssumption DEF TypeOK
<1>4. tx' \in Image /\ Sound(tx')
  BY <1>2, <1>3, EmptyImageFacts
<1>5. TypeOK'
  BY <1>1, <1>2, <1>4 DEF TypeOK, EmptyStore, Store
<1>6. WriterInv'
  BY <1>1, <1>2, <1>4, TypeFacts DEF WriterInv
<1>7. StoreInv'
  BY <1>2 DEF StoreInv, EmptyStore
<1>8. ASSUME NEW r \in Requests
      PROVE  RequestInv(r)'
  <2>1. RequestInv(r) /\ writer # r /\ writer' # r
    BY <1>1, <1>2, TypeFacts DEF RequestsInv
  <2>2. View(r) = db /\ View(r)' = db
    BY <1>2, <2>1 DEF View
  <2> QED
    BY <1>2, <2>1, <2>2 DEF RequestInv, Told, HasRecord, Current
<1> QED
  BY <1>5, <1>6, <1>7, <1>8 DEF IngestionInv, RequestsInv

(* A request that was told something before the reset was told it of a     *)
(* database that is gone.                                                   *)
LEMMA ResetEndsKeeps ==
    ASSUME IngestionInv, ResetEnds
    PROVE  IngestionInv'
<1>1. TypeOK /\ WriterInv /\ StoreInv /\ RequestsInv
  BY DEF IngestionInv
<1>2. PICK image \in {tx, db} : db' = image /\ tx' = image
  BY DEF ResetEnds
<1>3. /\ writer = Resetter /\ writer' = NoRequest /\ store' = store
      /\ pc' = pc /\ job' = job
  BY DEF ResetEnds
<1>4. /\ db.resets + 1 \in 0..MaxResets /\ db.resets \in Nat
      /\ tx = EmptyImage(db.resets + 1) /\ tx.resets = db.resets + 1
  BY <1>1, <1>3, ImageFields DEF TypeOK, WriterInv, EmptyImage
<1>5. /\ image \in Image /\ Sound(image)
      /\ InBaseline(image, image.events \cap Metrics)
  BY <1>1, <1>2, <1>4, EmptyImageFacts DEF WriterInv, TypeOK
<1>6. TypeOK'
  BY <1>1, <1>2, <1>3, <1>5 DEF TypeOK
<1>7. WriterInv'
  BY <1>1, <1>2, <1>3, <1>5, TypeFacts
  DEF WriterInv, Sound, Represented, InBaseline
<1>8. store.loaded = FALSE /\ store.cache = << >>
  BY <1>1, <1>3 DEF StoreInv, TypeOK, Store
<1>9. StoreInv'
  BY <1>1, <1>3, <1>8 DEF StoreInv
<1>10. ASSUME NEW r \in Requests
       PROVE  RequestInv(r)'
  <2>1. RequestInv(r) /\ writer # r /\ writer' # r /\ job[r] \in Job
    BY <1>1, <1>3, TypeFacts DEF RequestsInv, TypeOK
  <2>2. View(r) = db /\ View(r)' = image
    BY <1>2, <1>3, <2>1 DEF View
  <2>3. CASE image = db
    BY <1>2, <1>3, <2>1, <2>2, <2>3 DEF RequestInv, Told, HasRecord, Current
  <2>4. CASE image = tx
    <3>1. job[r].reset < image.resets /\ db'.resets = image.resets
      BY <1>2, <1>4, <2>1, <2>4, JobFields DEF RequestInv
    <3>2. Told(r, View(r))'
      BY <1>3, <2>1, <2>2, <3>1, JobFields DEF Told
    <3>3. job[r].group.reset # image.resets
      BY <1>4, <2>1, <2>4, JobFields DEF RequestInv
    <3> QED
      BY <1>2, <1>3, <1>4, <2>1, <2>2, <3>1, <3>2, <3>3, JobFields
      DEF RequestInv, HasRecord, Current
  <2> QED
    BY <2>3, <2>4
<1> QED
  BY <1>6, <1>7, <1>9, <1>10 DEF IngestionInv, RequestsInv

(* The process restarts.                                                    *)
LEMMA RestartKeeps ==
    ASSUME IngestionInv, Restart
    PROVE  IngestionInv'
<1>1. TypeOK /\ WriterInv /\ StoreInv /\ RequestsInv
  BY DEF IngestionInv
<1>2. /\ tx' = db /\ writer' = NoRequest /\ store' = EmptyStore
      /\ db' = db /\ job' = job
      /\ \A r \in Requests : /\ pc'[r] \in {"new", "done", "failed"}
                             /\ pc'[r] # "failed" => pc'[r] = pc[r]
  BY DEF Restart
<1>3. TypeOK'
  BY <1>1 DEF Restart, TypeOK, EmptyStore, Store
<1>4. WriterInv'
  BY <1>1, <1>2, TypeFacts DEF WriterInv, Sound, Represented, InBaseline
<1>5. StoreInv'
  BY <1>2 DEF StoreInv, EmptyStore
<1>6. ASSUME NEW r \in Requests
      PROVE  RequestInv(r)'
  <2>1. RequestInv(r) /\ writer' # r
    BY <1>1, <1>2, TypeFacts DEF RequestsInv
  <2>2. View(r)' = db
    BY <1>2 DEF View
  <2>3. pc[r] = "done" => View(r) = db
    BY <2>1 DEF RequestInv, Working, View
  <2>4. pc'[r] = "done" => Told(r, View(r))'
    BY <1>2, <2>1, <2>2, <2>3 DEF RequestInv, Told
  <2>5. pc'[r] \notin Working
    BY <1>2 DEF Working
  <2>6. pc'[r] = "done" => Len(job'[r].outcomes) = Len(job'[r].batch)
    BY <1>2, <2>1 DEF RequestInv
  <2>7. /\ Len(job'[r].outcomes) <= Len(job'[r].batch)
        /\ job'[r].reset <= db'.resets /\ job'[r].group.reset <= db'.resets
    BY <1>2, <2>1 DEF RequestInv
  <2> QED
    BY <2>1, <2>4, <2>5, <2>6, <2>7 DEF RequestInv, Working
<1> QED
  BY <1>3, <1>4, <1>5, <1>6 DEF IngestionInv, RequestsInv

-----------------------------------------------------------------------------
(* The theorems.                                                           *)

(* The initial state satisfies the invariant.                               *)
LEMMA IngestionInit ==
    ASSUME Init
    PROVE  IngestionInv
<1>1. 0 \in 0..MaxResets
  BY MaxResetsAssumption
<1>2. /\ EmptyImage(0) \in Image /\ Sound(EmptyImage(0))
      /\ InBaseline(EmptyImage(0), EmptyImage(0).events \cap Metrics)
  BY <1>1, EmptyImageFacts
<1>3. EmptyJob \in Job
  <2>1. /\ << >> \in Seq(Records) /\ << >> \in Seq(Outcome)
        /\ << >> \in Seq(Metrics \cup Alerts)
    OBVIOUS
  <2> QED
    BY <1>1, <2>1 DEF EmptyJob, Job
<1>4. TypeOK
  BY <1>2, <1>3 DEF Init, TypeOK, EmptyStore, Store
<1>5. WriterInv
  BY <1>2, <1>4, TypeFacts DEF Init, WriterInv
<1>6. StoreInv
  BY DEF Init, StoreInv, EmptyStore
<1>7. ASSUME NEW r \in Requests
      PROVE  RequestInv(r)
  <2>1. /\ pc[r] = "new" /\ job[r].outcomes = << >>
        /\ job[r].batch = << >> /\ job[r].reset = 0 /\ db.resets = 0
        /\ job[r].group.reset = 0
        /\ writer # r
    BY <1>4, TypeFacts DEF Init, EmptyJob, EmptyImage
  <2> QED
    BY <2>1 DEF RequestInv, Working
<1> QED
  BY <1>4, <1>5, <1>6, <1>7 DEF IngestionInv, RequestsInv

(* IngestionInv is inductive.                                               *)
LEMMA IngestionStep ==
    ASSUME IngestionInv, [Next]_vars
    PROVE  IngestionInv'
<1>1. CASE UNCHANGED vars
  BY <1>1
  DEF vars, IngestionInv, TypeOK, WriterInv, StoreInv, RequestsInv,
      RequestInv, Told, Pending, HasRecord, Current, View
<1>2. ASSUME NEW r \in Requests, Receive(r) \/ Step(r)
      PROVE  IngestionInv'
  BY <1>2, ReceiveKeeps, QuarantineKeeps, LookupRecordKeeps,
     LookupGroupKeeps, IncrementKeeps, StoreRecordKeeps, PublishKeeps,
     EvaluateKeeps, EndsKeep
  DEF Step
<1> QED
  BY <1>1, <1>2, ClearRowsKeeps, ResetEndsKeeps, RestartKeeps DEF Next

(* The inductive invariant holds in every state of the specification.       *)
THEOREM IngestionInvariant == Spec => []IngestionInv
<1>1. Init => IngestionInv
  BY IngestionInit
<1>2. IngestionInv /\ [Next]_vars => IngestionInv'
  BY IngestionStep
<1> QED
  BY <1>1, <1>2, PTL DEF Spec

(* Every variable of the ingestion keeps its type.                          *)
THEOREM IngestionTyped == Spec => []TypeOK
<1>1. IngestionInv => TypeOK
  BY DEF IngestionInv
<1> QED
  BY <1>1, IngestionInvariant, PTL

(* What a request was told is in the committed database until a reset,      *)
(* whichever other requests were rolled back or cut off by a restart.       *)
THEOREM AnswersStored == Spec => []AnswersAreStored
<1>1. IngestionInv => AnswersAreStored
  <2> SUFFICES ASSUME IngestionInv, NEW r \in Requests, pc[r] = "done",
                      job[r].reset = db.resets,
                      NEW k \in DOMAIN job[r].batch
               PROVE  LET record == job[r].batch[k] IN
                      CASE job[r].outcomes[k] \in {"accepted", "retry"} ->
                              record \in db.events
                        [] job[r].outcomes[k] = "collapsed" ->
                              \E g \in DOMAIN db.groups :
                                  db.groups[g].count > 1
                        [] OTHER -> record \in db.quarantined
    BY DEF AnswersAreStored
  <2>1. TypeOK /\ RequestInv(r) /\ job[r] \in Job
    BY DEF IngestionInv, RequestsInv, TypeOK
  <2>2. writer # r /\ View(r) = db
    BY <2>1 DEF RequestInv, Working, View
  <2>3. Told(r, db) /\ k \in DOMAIN job[r].outcomes
    BY <2>1, <2>2, JobFields DEF RequestInv
  <2> QED
    BY <2>3 DEF Told
<1> QED
  BY <1>1, IngestionInvariant, PTL

(* Stored alerts and groups represent each other one to one.                *)
THEOREM StormsRepresented == Spec => []StormsHaveRepresentatives
<1>1. IngestionInv => StormsHaveRepresentatives
  BY DEF IngestionInv, WriterInv, Sound, Represented,
         StormsHaveRepresentatives
<1> QED
  BY <1>1, IngestionInvariant, PTL

(* No committed sample is lost by a rollback, a restart or a reset that is  *)
(* rolled back, and a loaded cache continues the committed baseline.        *)
THEOREM SamplesKept == Spec => []CommittedSamplesAreKept
<1>1. IngestionInv => CommittedSamplesAreKept
  BY DEF IngestionInv, TypeOK, Store, WriterInv, StoreInv, InBaseline,
         CommittedSamplesAreKept
<1> QED
  BY <1>1, IngestionInvariant, PTL

(* After a reset no sample of the old baseline is in the row or the cache.  *)
THEOREM BaselineFresh == Spec => []BaselineStartsFresh
<1>1. IngestionInv => BaselineStartsFresh
  BY TypeFacts
  DEF IngestionInv, WriterInv, StoreInv, Sound, BaselineStartsFresh
<1> QED
  BY <1>1, IngestionInvariant, PTL

(* Only a reset shortens the committed baseline: a commit extends it.       *)
THEOREM BaselineGrows == Spec => BaselineOnlyGrows
<1> DEFINE Kept == \/ IsPrefix(db.baseline, db'.baseline)
                   \/ db'.resets = db.resets + 1
<1>1. ASSUME IngestionInv, [Next]_vars
      PROVE  Kept
  <2>1. /\ TypeOK /\ WriterInv
        /\ IsPrefix(db.baseline, db.baseline)
    BY <1>1, PrefixReflexive, ImageFields DEF IngestionInv, TypeOK
  <2>2. ASSUME NEW r \in Requests,
               \/ End(r, db, "failed") \/ End(r, tx, "failed")
               \/ End(r, tx, "done")
        PROVE  Kept
    <3>1. db' = db \/ (writer = r /\ db' = tx)
      BY <2>2 DEF End
    <3> QED
      BY <2>1, <3>1 DEF WriterInv, Grows
  <2>3. CASE ResetEnds
    <3>1. tx.resets = db.resets + 1
      BY <2>1, <2>3 DEF ResetEnds, WriterInv, EmptyImage
    <3> QED
      BY <2>1, <2>3, <3>1 DEF ResetEnds
  <2>4. ASSUME NEW r \in Requests, Receive(r) \/ Step(r)
        PROVE  db' = db \/ Kept
    BY <2>2, <2>4
    DEF Receive, Step, Quarantine, LookupRecord, LookupGroup,
        LookupGroupFails, Increment, IncrementFails, StoreRecord,
        StoreRejected, WriterTimeout, Publish, Evaluate, DetectFails,
        AnalysisFails, Processed, Commit, CommitFails
  <2>5. CASE UNCHANGED vars \/ ClearRows \/ Restart
    BY <2>1, <2>5 DEF vars, ClearRows, Restart
  <2> QED
    BY <1>1, <2>1, <2>3, <2>4, <2>5 DEF Next
<1> QED
  BY <1>1, IngestionInvariant, PTL DEF Spec, BaselineOnlyGrows
=============================================================================
