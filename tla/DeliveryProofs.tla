--------------------------- MODULE DeliveryProofs ---------------------------
(***************************************************************************)
(* Delivery, for every set of events and of runs, every limit and any number *)
(* of failures: no event is lost, and without a failure none is reported     *)
(* twice.                                                                   *)
(*                                                                         *)
(* What a run is about to delete has been accepted, and what it purges has   *)
(* no valid address: that is all NothingLost needs.  ReportedOnce needs the  *)
(* flag: the one run of a job that is under way holds rows of its own kind   *)
(* that are in the table, and a reported row that is still there is one that *)
(* such a run is about to delete.                                           *)
(***************************************************************************)
EXTENDS Delivery, FiniteSetTheorems, TLAPS

\* The parts of the state that a step reads and changes are there.
Shape ==
  /\ DOMAIN run = Runs /\ \A p \in Runs : DOMAIN run[p] = {"pc", "offset", "ids", "bad"}
  /\ running \in [Crons -> BOOLEAN]
  /\ faults \in Nat

\* What is purged has no valid address, and what is deleted has been accepted.
Safe ==
  \A p \in Runs : /\ run[p].bad \intersect (Sftp \union Valid) = {}
                  /\ At(p, "delete") => run[p].ids \subseteq reported

\* One run of each job is under way, and its flag is set.
Single ==
  /\ \A p \in Runs : ~At(p, "idle") => running[p[1]]
  /\ \A p, q \in Runs : ~At(p, "idle") /\ ~At(q, "idle") /\ p[1] = q[1] => p = q

\* A run holds rows of its kind, and until it deletes them they are in the table.
Own ==
  \A p \in Runs :
    /\ p[1] = "sftp" => run[p].ids \subseteq Sftp
    /\ p[1] = "activity" => run[p].ids \subseteq Valid \ Sftp
    /\ ~At(p, "delete") => run[p].ids \subseteq db
    /\ At(p, "idle") => run[p].ids = {}

\* A row that was reported and is still there is about to be deleted.
Due == \A r \in db \intersect reported : \E p \in Runs : At(p, "delete") /\ r \in run[p].ids

\* Only events that happened are stored or reported.
Known == db \subseteq happened /\ reported \subseteq happened

Quiet == faults = 0 => again = {} /\ Single /\ Own /\ Due /\ Known

IInv == Shape /\ Safe /\ NothingLost /\ Quiet

-----------------------------------------------------------------------------
\* A page holds SFTP rows of the table.
LEMMA PageRows ==
  ASSUME NEW o, NEW page \in Pages(o)
  PROVE  page \subseteq db \intersect Sftp
  BY DEF Pages

\* Push takes rows of the page only.
LEMMA PushRows ==
  ASSUME NEW ids, NEW page, NEW taken \in Push(ids, page)
  PROVE  taken \subseteq page
  BY DEF Push

\* A run belongs to one of the two jobs.
LEMMA RunKinds ==
  ASSUME NEW p \in Runs
  PROVE  p[1] \in Crons /\ (p[1] = "sftp" \/ p[1] = "activity")
  BY RunsAssumption DEF Crons

LEMMA InitShape == Init => IInv
  BY DEF Init, IInv, Shape, Safe, NothingLost, Quiet, Single, Own, Due, Known, NoRun, At, Crons

-----------------------------------------------------------------------------
\* The shape is kept by every step.
LEMMA NextShape ==
  ASSUME Shape, [Next]_vars
  PROVE  Shape'
<1>1. ASSUME NEW r \in Rows, SaveActivity(r) PROVE Shape'
  BY <1>1 DEF Shape, SaveActivity, Fault
<1>2. ASSUME NEW p \in Runs, Fire(p) PROVE Shape'
  BY <1>2, RunKinds DEF Shape, Fire, At
<1>3. ASSUME NEW p \in Runs, Fail(p) PROVE Shape'
  BY <1>3, RunKinds DEF Shape, Fail, Fault, End, NoRun
<1>4. ASSUME NEW p \in Runs, Find(p) PROVE Shape'
  BY <1>4, RunKinds DEF Shape, Find, End, NoRun
<1>5. ASSUME NEW p \in Runs, Purge(p) PROVE Shape'
  BY <1>5, RunKinds DEF Shape, Purge, End, NoRun
<1>6. ASSUME NEW p \in Runs, FetchRecords(p) PROVE Shape'
  BY <1>6, RunKinds DEF Shape, FetchRecords, End, NoRun
<1>7. ASSUME NEW p \in Runs, Send(p) PROVE Shape'
  <2>1. CASE run' = [run EXCEPT ![p].pc = "delete"] /\ UNCHANGED <<running, faults>>
    BY <2>1 DEF Shape
  <2>2. CASE Fault /\ UNCHANGED <<run, running>>
    BY <2>2 DEF Shape, Fault
  <2>3. CASE Fault /\ End(p)
    BY <2>3, RunKinds DEF Shape, Fault, End, NoRun
  <2> QED BY <1>7, <2>1, <2>2, <2>3 DEF Send
<1>8. ASSUME NEW p \in Runs, Delete(p) PROVE Shape'
  BY <1>8, RunKinds DEF Shape, Delete, End, NoRun
<1>9. CASE Crash
  BY <1>9 DEF Shape, Crash, Fault, NoRun
<1>10. CASE UNCHANGED vars
  BY <1>10 DEF Shape, vars
<1> QED BY <1>1, <1>2, <1>3, <1>4, <1>5, <1>6, <1>7, <1>8, <1>9, <1>10 DEF Next, Step

\* A run may take any value whose rows to purge and to delete are safe.
LEMMA SafeRun ==
  ASSUME Shape, Safe, NEW p \in Runs, NEW x, run' = [run EXCEPT ![p] = x],
         reported \subseteq reported',
         x.bad \intersect (Sftp \union Valid) = {},
         x.pc = "delete" => x.ids \subseteq reported'
  PROVE  Safe'
  BY DEF Shape, Safe, At

LEMMA SafeEnd ==
  ASSUME Shape, Safe, NEW p \in Runs, End(p), UNCHANGED reported
  PROVE  Safe'
<1>1. run' = [run EXCEPT ![p] = NoRun]
  BY DEF End
<1> QED BY <1>1, SafeRun DEF NoRun

\* No step loses an event.
LEMMA NextSafe ==
  ASSUME Shape, Safe, NothingLost, [Next]_vars
  PROVE  Safe' /\ NothingLost'
<1>1. ASSUME NEW r \in Rows, SaveActivity(r) PROVE Safe' /\ NothingLost'
  BY <1>1 DEF Safe, NothingLost, SaveActivity, At, panel
<1>2. ASSUME NEW p \in Runs, Fire(p) PROVE Safe' /\ NothingLost'
  BY <1>2 DEF Shape, Safe, NothingLost, Fire, At, panel
<1>3. ASSUME NEW p \in Runs, Fail(p) PROVE Safe' /\ NothingLost'
  BY <1>3, SafeEnd DEF NothingLost, Fail, panel
<1>4. ASSUME NEW p \in Runs, Find(p) PROVE Safe' /\ NothingLost'
  <2>1. NothingLost' /\ UNCHANGED reported
    BY <1>4 DEF NothingLost, Find, panel
  <2>2. PICK found \in SUBSET (db \ Sftp) :
          \/ End(p)
          \/ run' = [run EXCEPT ![p] = [@ EXCEPT !.pc = IF found \ Valid # {} THEN "purge" ELSE "send",
                                                 !.ids = found \intersect Valid, !.bad = found \ Valid]]
    BY <1>4 DEF Find
  <2>3. CASE ~End(p)
    <3> DEFINE x == [run[p] EXCEPT !.pc = IF found \ Valid # {} THEN "purge" ELSE "send",
                                   !.ids = found \intersect Valid, !.bad = found \ Valid]
    <3>1. run' = [run EXCEPT ![p] = x]
      BY <2>2, <2>3 DEF Shape
    <3>2. x.bad = found \ Valid /\ x.pc # "delete"
      BY DEF Shape
    <3> QED BY <2>1, <3>1, <3>2, SafeRun
  <2> QED BY <2>1, <2>2, <2>3, SafeEnd
<1>5. ASSUME NEW p \in Runs, Purge(p) PROVE Safe' /\ NothingLost'
  <2>1. UNCHANGED <<reported, stored>> /\ db' = db \ run[p].bad
    BY <1>5 DEF Purge, panel
  <2>2. NothingLost'
    BY <2>1 DEF NothingLost, Safe
  <2>3. CASE ~End(p)
    <3> DEFINE x == [run[p] EXCEPT !.pc = "send", !.bad = {}]
    <3>1. run' = [run EXCEPT ![p] = x]
      BY <1>5, <2>3 DEF Purge, Shape
    <3>2. x.bad = {} /\ x.pc # "delete"
      BY DEF Shape
    <3> QED BY <2>1, <2>2, <3>1, <3>2, SafeRun
  <2> QED BY <2>1, <2>2, <2>3, SafeEnd
<1>6. ASSUME NEW p \in Runs, FetchRecords(p) PROVE Safe' /\ NothingLost'
  <2>1. NothingLost' /\ UNCHANGED reported
    BY <1>6 DEF NothingLost, FetchRecords, panel
  <2>2. run[p].bad \intersect (Sftp \union Valid) = {} /\ run[p].pc = "fetch"
    BY <1>6 DEF Safe, FetchRecords, At
  <2>3. PICK page \in Pages(run[p].offset) : \E taken \in Push(run[p].ids, page) :
          \/ End(p)
          \/ run' = [run EXCEPT ![p].ids = @ \union taken, ![p].offset = @ + Cardinality(page)]
          \/ run' = [run EXCEPT ![p].pc = "send"]
    BY <1>6, Zenon DEF FetchRecords
  <2>4. ASSUME NEW taken \in Push(run[p].ids, page),
               run' = [run EXCEPT ![p].ids = @ \union taken, ![p].offset = @ + Cardinality(page)]
        PROVE  Safe' /\ NothingLost'
    <3> DEFINE x == [run[p] EXCEPT !.ids = run[p].ids \union taken, !.offset = run[p].offset + Cardinality(page)]
    <3>1. run' = [run EXCEPT ![p] = x]
      BY <2>4 DEF Shape
    <3>2. x.bad = run[p].bad /\ x.pc = run[p].pc
      BY DEF Shape
    <3> HIDE DEF x
    <3> QED BY <2>1, <2>2, <3>1, <3>2, SafeRun
  <2>5. CASE run' = [run EXCEPT ![p].pc = "send"]
    <3> DEFINE x == [run[p] EXCEPT !.pc = "send"]
    <3>1. run' = [run EXCEPT ![p] = x]
      BY <2>5 DEF Shape
    <3>2. x.bad = run[p].bad /\ x.pc = "send"
      BY DEF Shape
    <3> QED BY <2>1, <2>2, <3>1, <3>2, SafeRun
  <2> QED BY <2>1, <2>3, <2>4, <2>5, SafeEnd
<1>7. ASSUME NEW p \in Runs, Send(p) PROVE Safe' /\ NothingLost'
  <2>1. UNCHANGED <<db, stored>> /\ reported \subseteq reported'
    BY <1>7 DEF Send, Accept, panel
  <2>2. NothingLost'
    BY <2>1 DEF NothingLost
  <2>3. CASE Accept(run[p].ids) /\ run' = [run EXCEPT ![p].pc = "delete"]
    <3> DEFINE x == [run[p] EXCEPT !.pc = "delete"]
    <3>1. run' = [run EXCEPT ![p] = x]
      BY <2>3 DEF Shape
    <3>2. x.bad = run[p].bad /\ x.ids = run[p].ids /\ run[p].bad \intersect (Sftp \union Valid) = {}
      BY DEF Shape, Safe
    <3>3. run[p].ids \subseteq reported'
      BY <2>3 DEF Accept
    <3> QED BY <2>1, <2>2, <3>1, <3>2, <3>3, SafeRun
  <2>4. CASE UNCHANGED run
    BY <2>1, <2>2, <2>4 DEF Safe, At
  <2>5. CASE End(p)
    <3>1. run' = [run EXCEPT ![p] = NoRun]
      BY <2>5 DEF End
    <3> QED BY <2>1, <2>2, <3>1, SafeRun DEF NoRun
  <2> QED BY <1>7, <2>3, <2>4, <2>5 DEF Send
<1>8. ASSUME NEW p \in Runs, Delete(p) PROVE Safe' /\ NothingLost'
  <2>1. PICK rows \in SUBSET run[p].ids :
          /\ db' = db \ rows /\ UNCHANGED <<stored, reported>>
          /\ End(p) \/ run' = [run EXCEPT ![p].ids = @ \ rows]
    BY <1>8 DEF Delete, panel
  <2>2. run[p].ids \subseteq reported /\ run[p].bad \intersect (Sftp \union Valid) = {}
    BY <1>8 DEF Delete, Safe
  <2>3. NothingLost'
    BY <2>1, <2>2 DEF NothingLost
  <2>4. CASE run' = [run EXCEPT ![p].ids = @ \ rows]
    <3> DEFINE x == [run[p] EXCEPT !.ids = run[p].ids \ rows]
    <3>1. run' = [run EXCEPT ![p] = x]
      BY <2>4 DEF Shape
    <3>2. x.bad = run[p].bad /\ x.ids = run[p].ids \ rows
      BY DEF Shape
    <3> QED BY <2>1, <2>2, <2>3, <3>1, <3>2, SafeRun
  <2> QED BY <2>1, <2>3, <2>4, SafeEnd
<1>9. CASE Crash
  BY <1>9 DEF Safe, NothingLost, Crash, NoRun, At, panel
<1>10. CASE UNCHANGED vars
  BY <1>10 DEF Safe, NothingLost, vars, At
<1> QED BY <1>1, <1>2, <1>3, <1>4, <1>5, <1>6, <1>7, <1>8, <1>9, <1>10 DEF Next, Step

-----------------------------------------------------------------------------
\* Without a failure no step reports an event twice: one lemma per conjunct.
LEMMA NextSingle ==
  ASSUME Shape, Single, [Next]_vars, ~Fault
  PROVE  Single'
<1>1. ASSUME NEW p \in Runs, ~At(p, "idle"), End(p) PROVE Single'
  BY <1>1, RunKinds DEF Shape, Single, End, NoRun, At
<1>2. ASSUME NEW p \in Runs, NEW x, ~At(p, "idle"), run' = [run EXCEPT ![p] = x], UNCHANGED running
      PROVE  Single'
  BY <1>2, RunKinds DEF Shape, Single, At
<1>3. ASSUME NEW r \in Rows, SaveActivity(r) PROVE Single'
  BY <1>3 DEF Single, SaveActivity, At
<1>4. ASSUME NEW p \in Runs, Fire(p) PROVE Single'
  BY <1>4, RunKinds DEF Shape, Single, Fire, At
<1>5. ASSUME NEW p \in Runs, Find(p) PROVE Single'
  BY <1>1, <1>2, <1>5 DEF Find, At
<1>6. ASSUME NEW p \in Runs, Purge(p) PROVE Single'
  BY <1>1, <1>2, <1>6 DEF Purge, At
<1>7. ASSUME NEW p \in Runs, FetchRecords(p) PROVE Single'
  BY <1>1, <1>2, <1>7 DEF FetchRecords, At
<1>8. ASSUME NEW p \in Runs, Send(p) PROVE Single'
  BY <1>1, <1>2, <1>8 DEF Send, At
<1>9. ASSUME NEW p \in Runs, Delete(p) PROVE Single'
  BY <1>1, <1>2, <1>9 DEF Delete, At
<1>10. CASE UNCHANGED vars
  BY <1>10 DEF Single, vars, At
<1> QED BY <1>3, <1>4, <1>5, <1>6, <1>7, <1>8, <1>9, <1>10 DEF Next, Step, Fail, Crash

\* A run may take any value with rows of its kind that are in the table, when
\* the rows of the others stay there.
LEMMA OwnRun ==
  ASSUME Shape, Own, NEW p \in Runs, NEW x, run' = [run EXCEPT ![p] = x],
         \A q \in Runs \ {p} : ~At(q, "delete") => run[q].ids \subseteq db',
         p[1] = "sftp" => x.ids \subseteq Sftp,
         p[1] = "activity" => x.ids \subseteq Valid \ Sftp,
         x.pc # "delete" => x.ids \subseteq db',
         x.pc = "idle" => x.ids = {}
  PROVE  Own'
  BY DEF Shape, Own, At

LEMMA OwnEnd ==
  ASSUME Shape, Own, NEW p \in Runs, End(p),
         \A q \in Runs \ {p} : ~At(q, "delete") => run[q].ids \subseteq db'
  PROVE  Own'
<1>1. run' = [run EXCEPT ![p] = NoRun]
  BY DEF End
<1> QED BY <1>1, OwnRun DEF NoRun

LEMMA NextOwn ==
  ASSUME Shape, Safe, Single, Own, [Next]_vars, ~Fault
  PROVE  Own'
<1>1. ASSUME UNCHANGED db PROVE \A q \in Runs : ~At(q, "delete") => run[q].ids \subseteq db'
  BY <1>1 DEF Own
<1>2. ASSUME NEW r \in Rows, SaveActivity(r) PROVE Own'
  BY <1>2 DEF Own, SaveActivity, At
<1>3. ASSUME NEW p \in Runs, Fire(p) PROVE Own'
  <2> DEFINE x == [run[p] EXCEPT !.pc = "fetch"]
  <2>1. run' = [run EXCEPT ![p] = x] /\ x.pc = "fetch" /\ x.ids = run[p].ids /\ UNCHANGED db
    BY <1>3 DEF Fire, Shape
  <2>2. run[p].ids = {}
    BY <1>3 DEF Fire, Own
  <2> QED BY <1>1, <2>1, <2>2, OwnRun
<1>4. ASSUME NEW p \in Runs, Find(p) PROVE Own'
  <2>1. UNCHANGED db /\ p[1] = "activity"
    BY <1>4 DEF Find
  <2>2. PICK found \in SUBSET (db \ Sftp) :
          \/ End(p)
          \/ run' = [run EXCEPT ![p] = [@ EXCEPT !.pc = IF found \ Valid # {} THEN "purge" ELSE "send",
                                                 !.ids = found \intersect Valid, !.bad = found \ Valid]]
    BY <1>4 DEF Find
  <2>3. CASE ~End(p)
    <3> DEFINE x == [run[p] EXCEPT !.pc = IF found \ Valid # {} THEN "purge" ELSE "send",
                                   !.ids = found \intersect Valid, !.bad = found \ Valid]
    <3>1. run' = [run EXCEPT ![p] = x]
      BY <2>2, <2>3 DEF Shape
    <3>2. x.ids = found \intersect Valid /\ x.pc # "delete" /\ x.pc # "idle"
      BY DEF Shape
    <3> QED BY <1>1, <2>1, <3>1, <3>2, OwnRun
  <2> QED BY <1>1, <2>1, <2>2, <2>3, OwnEnd
<1>5. ASSUME NEW p \in Runs, Purge(p) PROVE Own'
  <2>1. db' = db \ run[p].bad /\ run[p].bad \intersect (Sftp \union Valid) = {} /\ ~At(p, "delete")
    BY <1>5 DEF Purge, Safe, At
  <2>2. ASSUME NEW q \in Runs, ~At(q, "delete") PROVE run[q].ids \subseteq db'
    BY <2>1, <2>2, RunKinds DEF Own
  <2>3. CASE ~End(p)
    <3> DEFINE x == [run[p] EXCEPT !.pc = "send", !.bad = {}]
    <3>1. run' = [run EXCEPT ![p] = x]
      BY <1>5, <2>3 DEF Purge, Shape
    <3>2. x.ids = run[p].ids /\ x.pc = "send"
      BY DEF Shape
    <3>3. /\ p[1] = "sftp" => run[p].ids \subseteq Sftp
          /\ p[1] = "activity" => run[p].ids \subseteq Valid \ Sftp
      BY DEF Own
    <3> QED BY <2>1, <2>2, <3>1, <3>2, <3>3, OwnRun
  <2> QED BY <2>2, <2>3, OwnEnd
<1>6. ASSUME NEW p \in Runs, FetchRecords(p) PROVE Own'
  <2>1. UNCHANGED db /\ p[1] = "sftp" /\ ~At(p, "delete")
    BY <1>6 DEF FetchRecords, At
  <2>2. run[p].ids \subseteq db \intersect Sftp
    BY <2>1 DEF Own
  <2>3. PICK page \in Pages(run[p].offset) : \E taken \in Push(run[p].ids, page) :
          \/ End(p)
          \/ run' = [run EXCEPT ![p].ids = @ \union taken, ![p].offset = @ + Cardinality(page)]
          \/ run' = [run EXCEPT ![p].pc = "send"]
    BY <1>6, Zenon DEF FetchRecords
  <2>4. ASSUME NEW taken \in Push(run[p].ids, page),
               run' = [run EXCEPT ![p].ids = @ \union taken, ![p].offset = @ + Cardinality(page)]
        PROVE  Own'
    <3> DEFINE x == [run[p] EXCEPT !.ids = run[p].ids \union taken, !.offset = run[p].offset + Cardinality(page)]
    <3>1. run' = [run EXCEPT ![p] = x]
      BY <2>4 DEF Shape
    <3>2. x.ids = run[p].ids \union taken /\ x.pc = "fetch"
      BY <1>6 DEF Shape, FetchRecords, At
    <3>3. taken \subseteq db \intersect Sftp
      BY PageRows, PushRows
    <3>4. x.ids \subseteq db \intersect Sftp
      BY <2>2, <3>2, <3>3
    <3> HIDE DEF x
    <3> QED BY <1>1, <2>1, <3>1, <3>2, <3>4, OwnRun
  <2>5. CASE run' = [run EXCEPT ![p].pc = "send"]
    <3> DEFINE x == [run[p] EXCEPT !.pc = "send"]
    <3>1. run' = [run EXCEPT ![p] = x]
      BY <2>5 DEF Shape
    <3>2. x.ids = run[p].ids /\ x.pc = "send"
      BY DEF Shape
    <3> QED BY <1>1, <2>1, <2>2, <3>1, <3>2, OwnRun
  <2> QED BY <1>1, <2>1, <2>3, <2>4, <2>5, OwnEnd
<1>7. ASSUME NEW p \in Runs, Send(p) PROVE Own'
  <2>1. run' = [run EXCEPT ![p].pc = "delete"] /\ UNCHANGED db
    BY <1>7 DEF Send
  <2> DEFINE x == [run[p] EXCEPT !.pc = "delete"]
  <2>2. run' = [run EXCEPT ![p] = x] /\ x.ids = run[p].ids /\ x.pc = "delete"
    BY <2>1 DEF Shape
  <2>3. /\ p[1] = "sftp" => run[p].ids \subseteq Sftp
        /\ p[1] = "activity" => run[p].ids \subseteq Valid \ Sftp
    BY DEF Own
  <2> QED BY <1>1, <2>1, <2>2, <2>3, OwnRun
<1>8. ASSUME NEW p \in Runs, Delete(p) PROVE Own'
  <2>1. PICK rows \in SUBSET run[p].ids :
          /\ db' = db \ rows
          /\ End(p) \/ run' = [run EXCEPT ![p].ids = @ \ rows]
    BY <1>8 DEF Delete
  <2>2. At(p, "delete") /\ ~At(p, "idle")
    BY <1>8 DEF Delete, At
  <2>3. ASSUME NEW q \in Runs \ {p}, ~At(q, "delete") PROVE run[q].ids \subseteq db'
    <3>1. run[q].ids \subseteq db
      BY <2>3 DEF Own
    <3>2. CASE p[1] = q[1]
      BY <2>2, <3>2 DEF Single, Own
    <3>3. CASE p[1] # q[1]
      BY <2>1, <3>1, <3>3, RunKinds DEF Own
    <3> QED BY <3>2, <3>3
  <2>4. CASE run' = [run EXCEPT ![p].ids = @ \ rows]
    <3> DEFINE x == [run[p] EXCEPT !.ids = run[p].ids \ rows]
    <3>1. run' = [run EXCEPT ![p] = x] /\ x.ids = run[p].ids \ rows /\ x.pc = "delete"
      BY <2>2, <2>4 DEF Shape, At
    <3>2. /\ p[1] = "sftp" => run[p].ids \subseteq Sftp
          /\ p[1] = "activity" => run[p].ids \subseteq Valid \ Sftp
      BY DEF Own
    <3> QED BY <2>3, <3>1, <3>2, OwnRun
  <2> QED BY <2>1, <2>3, <2>4, OwnEnd
<1>9. CASE UNCHANGED vars
  BY <1>9 DEF Own, vars, At
<1> QED BY <1>2, <1>3, <1>4, <1>5, <1>6, <1>7, <1>8, <1>9 DEF Next, Step, Fail, Crash

\* A run that keeps its rows to delete goes on being the one that deletes them.
LEMMA DueKept ==
  ASSUME Shape, Due, NEW p \in Runs, NEW x, run' = [run EXCEPT ![p] = x], ~At(p, "delete"),
         db' \intersect reported' \subseteq db \intersect reported
  PROVE  Due'
  BY DEF Shape, Due, At

LEMMA NextDue ==
  ASSUME Shape, Safe, Single, Own, Due, Known, again = {}, [Next]_vars, ~Fault
  PROVE  Due' /\ Known' /\ (again = {})'
<1>1. ASSUME NEW r \in Rows, SaveActivity(r) PROVE Due' /\ Known' /\ (again = {})'
  <2>1. r \notin happened /\ happened' = happened \union {r} /\ db' = db \union {r} /\ UNCHANGED <<run, reported, again>>
    BY <1>1 DEF SaveActivity, panel
  <2>2. db' \intersect reported' = db \intersect reported
    BY <2>1 DEF Known
  <2>3. Due'
    BY <2>1, <2>2 DEF Due, At
  <2> QED BY <2>1, <2>3 DEF Known
<1>2. ASSUME NEW p \in Runs, NEW x, run' = [run EXCEPT ![p] = x], ~At(p, "delete"),
             db' \subseteq db, UNCHANGED <<happened, reported, again>>
      PROVE  Due' /\ Known' /\ (again = {})'
  <2>1. Due'
    BY <1>2, DueKept
  <2> QED BY <1>2, <2>1 DEF Known
<1>3. ASSUME NEW p \in Runs, Fire(p) PROVE Due' /\ Known' /\ (again = {})'
  <2>1. /\ run' = [run EXCEPT ![p] = [run[p] EXCEPT !.pc = "fetch"]]
        /\ ~At(p, "delete") /\ db' \subseteq db /\ UNCHANGED <<happened, reported, again>>
    BY <1>3 DEF Fire, panel, Shape, At
  <2> QED BY <1>2, <2>1
<1>4. ASSUME NEW p \in Runs, Find(p) PROVE Due' /\ Known' /\ (again = {})'
  <2>1. ~At(p, "delete") /\ db' \subseteq db /\ UNCHANGED <<happened, reported, again>>
    BY <1>4 DEF Find, panel, At
  <2>2. \E x : run' = [run EXCEPT ![p] = x]
    BY <1>4, Zenon DEF Find, End
  <2> QED BY <1>2, <2>1, <2>2
<1>5. ASSUME NEW p \in Runs, Purge(p) PROVE Due' /\ Known' /\ (again = {})'
  <2>1. ~At(p, "delete") /\ db' \subseteq db /\ UNCHANGED <<happened, reported, again>>
    BY <1>5 DEF Purge, panel, At
  <2>2. \E x : run' = [run EXCEPT ![p] = x]
    BY <1>5, Zenon DEF Purge, End
  <2> QED BY <1>2, <2>1, <2>2
<1>6. ASSUME NEW p \in Runs, FetchRecords(p) PROVE Due' /\ Known' /\ (again = {})'
  <2>1. ~At(p, "delete") /\ db' \subseteq db /\ UNCHANGED <<happened, reported, again>>
    BY <1>6 DEF FetchRecords, panel, At
  <2>2. PICK page \in Pages(run[p].offset) : \E taken \in Push(run[p].ids, page) :
          \/ End(p)
          \/ run' = [run EXCEPT ![p].ids = @ \union taken, ![p].offset = @ + Cardinality(page)]
          \/ run' = [run EXCEPT ![p].pc = "send"]
    BY <1>6, Zenon DEF FetchRecords
  <2>3. ASSUME NEW taken,
               run' = [run EXCEPT ![p].ids = @ \union taken, ![p].offset = @ + Cardinality(page)]
        PROVE  run' = [run EXCEPT ![p] = [run[p] EXCEPT !.ids = run[p].ids \union taken,
                                                        !.offset = run[p].offset + Cardinality(page)]]
    BY <2>3 DEF Shape
  <2>4. ASSUME run' = [run EXCEPT ![p].pc = "send"]
        PROVE  run' = [run EXCEPT ![p] = [run[p] EXCEPT !.pc = "send"]]
    BY <2>4 DEF Shape
  <2>5. \E x : run' = [run EXCEPT ![p] = x]
    BY <2>2, <2>3, <2>4, Zenon DEF End
  <2> QED BY <1>2, <2>1, <2>5
<1>7. ASSUME NEW p \in Runs, Send(p) PROVE Due' /\ Known' /\ (again = {})'
  <2>1. /\ run' = [run EXCEPT ![p].pc = "delete"] /\ UNCHANGED <<db, happened>> /\ At(p, "send")
        /\ reported' = reported \union run[p].ids
        /\ again' = again \union (run[p].ids \intersect reported)
    BY <1>7 DEF Send, Accept
  <2>2. run[p].ids \subseteq db
    BY <2>1 DEF Own, At
  <2>3. ASSUME NEW r \in run[p].ids, r \in reported PROVE FALSE
    <3>1. PICK q \in Runs : At(q, "delete") /\ r \in run[q].ids
      BY <2>2, <2>3 DEF Due
    <3>2. p[1] = q[1]
      BY <2>3, <3>1, RunKinds DEF Own
    <3>3. p = q
      BY <2>1, <3>1, <3>2 DEF Single, At
    <3> QED BY <2>1, <3>1, <3>3 DEF At
  <2>4. \A q \in Runs : run'[q].ids = run[q].ids /\ (At(q, "delete") => run'[q].pc = "delete")
    BY <2>1 DEF Shape, At
  <2>5. run'[p].pc = "delete"
    BY <2>1 DEF Shape
  <2>6. Due'
    BY <2>1, <2>4, <2>5 DEF Due, At
  <2> QED BY <2>1, <2>2, <2>3, <2>6 DEF Known
<1>8. ASSUME NEW p \in Runs, Delete(p) PROVE Due' /\ Known' /\ (again = {})'
  <2>1. PICK rows \in SUBSET run[p].ids :
          /\ db' = db \ rows
          /\ IF rows = run[p].ids THEN End(p) ELSE run' = [run EXCEPT ![p].ids = @ \ rows]
    BY <1>8 DEF Delete
  <2>2. UNCHANGED <<happened, reported, again>>
    BY <1>8 DEF Delete, panel
  <2>3. ASSUME NEW r \in db' \intersect reported' PROVE \E q \in Runs : run'[q].pc = "delete" /\ r \in run'[q].ids
    <3>1. PICK q \in Runs : At(q, "delete") /\ r \in run[q].ids
      BY <2>1, <2>2 DEF Due
    <3>2. CASE q # p
      BY <2>1, <3>1, <3>2 DEF Shape, End, At
    <3>3. CASE q = p
      <4>1. r \notin rows /\ rows # run[p].ids
        BY <2>1, <3>1, <3>3
      <4> QED BY <2>1, <3>1, <3>3, <4>1 DEF Shape, At
    <3> QED BY <3>2, <3>3
  <2>4. Due'
    BY <2>3 DEF Due, At
  <2> QED BY <2>1, <2>2, <2>4 DEF Known
<1>9. CASE UNCHANGED vars
  BY <1>9 DEF Due, Known, vars, At
<1> QED BY <1>1, <1>3, <1>4, <1>5, <1>6, <1>7, <1>8, <1>9 DEF Next, Step, Fail, Crash

\* Until something fails nothing has been reported twice.
LEMMA NextQuiet ==
  ASSUME Shape, Safe, Quiet, [Next]_vars
  PROVE  Quiet'
<1> SUFFICES ASSUME faults' = 0 PROVE (again = {})' /\ Single' /\ Own' /\ Due' /\ Known'
  BY DEF Quiet
<1>1. ~Fault
  BY DEF Fault, Shape
<1>2. faults = 0
  BY <1>1 DEF Next, vars, Step, SaveActivity, Fire, Fail, Find, Purge, FetchRecords, Send, Delete, Crash
<1> QED BY <1>1, <1>2, NextSingle, NextOwn, NextDue DEF Quiet

LEMMA InductiveStep ==
  ASSUME IInv, [Next]_vars
  PROVE  IInv'
  BY NextShape, NextSafe, NextQuiet DEF IInv

-----------------------------------------------------------------------------
\* No event that was stored is lost: it is in the table until the Panel has accepted
\* it, whatever failed between the query, the request and the deletions, unless it
\* has no valid address and is none of SFTP (activityCron.Run, sftpCron.Run).
THEOREM NoEventLost == Spec => []NothingLost
<1>1. IInv => NothingLost
  BY DEF IInv
<1> QED BY <1>1, InitShape, InductiveStep, PTL DEF Spec

\* Until something fails the Panel gets each event in one request only, however
\* often the scheduler fires the jobs and whatever rows are stored meanwhile
\* (mu of activityCron and sftpCron).
THEOREM OnceWithoutFailure == Spec => []ReportedOnce
<1>1. IInv => ReportedOnce
  BY DEF IInv, Quiet, ReportedOnce
<1> QED BY <1>1, InitShape, InductiveStep, PTL DEF Spec

-----------------------------------------------------------------------------
(* What a request carries.  A run never holds more than Max events, or Max    *)
(* groups of SFTP events, from the moment it has read them.                  *)

Load(p, ids) == IF p[1] = "sftp" THEN Keys(ids) ELSE ids

\* A run, with the rows stored so far.
RunOk(p, r, rows) ==
  /\ r.pc \in {"idle", "fetch", "purge", "send", "delete"}
  /\ r.ids \subseteq rows /\ r.bad \subseteq Rows /\ r.offset \in Nat
  /\ Cardinality(Load(p, r.ids)) <= Max

TableOk ==
  /\ happened \subseteq Rows /\ stored \subseteq happened /\ db \subseteq stored
  /\ reported \subseteq stored /\ again \subseteq reported
  /\ faults \in 0..MaxFaults

LoadInv == Shape /\ TableOk /\ \A p \in Runs : RunOk(p, run[p], stored)

\* Rows, and the groups of rows, can be counted.
LEMMA RowsCount ==
  ASSUME NEW S \in SUBSET Rows
  PROVE  IsFiniteSet(S) /\ Cardinality(S) \in Nat
  BY RowsAssumption, FS_Subset, FS_CardinalityType

LEMMA KeysCount ==
  ASSUME NEW S \in SUBSET Rows
  PROVE  IsFiniteSet(Keys(S)) /\ Cardinality(Keys(S)) \in Nat
<1> DEFINE f == [r \in S |-> KeyOf[r]]
<1>1. f \in Surjection(S, Keys(S))
  BY DEF Surjection, Keys
<1>2. IsFiniteSet(S)
  BY RowsCount
<1> HIDE DEF f
<1> QED BY <1>1, <1>2, FS_Surjection, FS_CardinalityType

\* Fewer rows are no greater load.
LEMMA LessLoad ==
  ASSUME NEW p, NEW S \in SUBSET Rows, NEW T \in SUBSET S
  PROVE  /\ Cardinality(Load(p, S)) \in Nat /\ Cardinality(Load(p, T)) \in Nat
         /\ Cardinality(Load(p, T)) <= Cardinality(Load(p, S))
<1>1. IsFiniteSet(Load(p, S)) /\ Cardinality(Load(p, S)) \in Nat
  BY RowsCount, KeysCount DEF Load
<1>2. Load(p, T) \subseteq Load(p, S)
  BY DEF Load, Keys
<1> QED BY <1>1, <1>2, FS_Subset, FS_CardinalityType

\* What Push takes of a page fits into the request.
LEMMA PushFits ==
  ASSUME NEW ids \in SUBSET Rows, NEW page \in SUBSET Rows, NEW taken \in Push(ids, page),
         Cardinality(Keys(ids)) <= Max
  PROVE  Cardinality(Keys(ids \union taken)) <= Max
<1> DEFINE new == {r \in page : KeyOf[r] \notin Keys(ids)}
           room == Max - Cardinality(Keys(ids))
<1>1. PICK B \in SUBSET Keys(new) :
        /\ Cardinality(B) = Least(room, Cardinality(Keys(new)))
        /\ taken = (page \ new) \union {r \in new : KeyOf[r] \in B}
  BY DEF Push
<1>2. IsFiniteSet(Keys(ids)) /\ Cardinality(Keys(ids)) \in Nat
      /\ IsFiniteSet(Keys(new)) /\ Cardinality(Keys(new)) \in Nat
  BY KeysCount
<1>3. IsFiniteSet(B) /\ Cardinality(B) \in Nat
  BY <1>2, FS_Subset, FS_CardinalityType
<1>4. Cardinality(B) <= room
  BY <1>1, <1>2, BoundsAssumption DEF Least
<1>5. Keys(ids \union taken) \subseteq Keys(ids) \union B
  BY <1>1 DEF Keys
<1>6. /\ IsFiniteSet(Keys(ids) \union B)
      /\ Cardinality(Keys(ids) \union B) = Cardinality(Keys(ids)) + Cardinality(B) - Cardinality(Keys(ids) \intersect B)
  BY <1>2, <1>3, FS_Union
<1>7. Cardinality(Keys(ids) \intersect B) \in Nat
  BY <1>2, FS_Subset, FS_CardinalityType
<1>8. Cardinality(Keys(ids) \union B) <= Max
  BY <1>2, <1>3, <1>4, <1>6, <1>7, BoundsAssumption
<1>9. /\ Cardinality(Keys(ids \union taken)) <= Cardinality(Keys(ids) \union B)
      /\ Cardinality(Keys(ids \union taken)) \in Nat /\ Cardinality(Keys(ids) \union B) \in Nat
  BY <1>5, <1>6, FS_Subset, FS_CardinalityType
<1> QED BY <1>8, <1>9, BoundsAssumption

\* A run that is not under way carries nothing.
LEMMA NoLoad ==
  ASSUME NEW p, NEW rows
  PROVE  RunOk(p, NoRun, rows)
<1>1. Load(p, {}) = {}
  BY DEF Load, Keys
<1>2. Cardinality(Load(p, {})) <= Max
  BY <1>1, FS_EmptySet, BoundsAssumption
<1>3. NoRun.pc = "idle" /\ NoRun.offset = 0 /\ NoRun.ids = {} /\ NoRun.bad = {}
  BY DEF NoRun
<1> QED BY <1>2, <1>3 DEF RunOk

\* One run changes; what is stored only grows.
LEMMA RunsKept ==
  ASSUME Shape, \A q \in Runs : RunOk(q, run[q], stored), stored \subseteq stored',
         NEW p \in Runs, NEW r, run' = [run EXCEPT ![p] = r], RunOk(p, r, stored)
  PROVE  \A q \in Runs : RunOk(q, run'[q], stored')
<1>1. \A q \in Runs : RunOk(q, run'[q], stored)
  BY DEF Shape
<1> QED BY <1>1 DEF RunOk

\* The runs stay as they are, or one ends.
LEMMA RunsEnd ==
  ASSUME Shape, \A q \in Runs : RunOk(q, run[q], stored), UNCHANGED stored, NEW p \in Runs,
         End(p) \/ UNCHANGED run
  PROVE  \A q \in Runs : RunOk(q, run'[q], stored')
<1>1. CASE End(p)
  <2>1. run' = [run EXCEPT ![p] = NoRun]
    BY <1>1 DEF End
  <2> QED BY <2>1, NoLoad, RunsKept
<1>2. CASE UNCHANGED run
  BY <1>2
<1> QED BY <1>1, <1>2

LEMMA NextLoad ==
  ASSUME LoadInv, [Next]_vars
  PROVE  LoadInv'
<1>0. Shape /\ TableOk /\ \A q \in Runs : RunOk(q, run[q], stored)
  BY DEF LoadInv
<1>s. Shape'
  BY <1>0, NextShape
<1>f. Fault => faults' \in 0..MaxFaults
  BY <1>0, BoundsAssumption DEF Fault, TableOk
<1>k. /\ UNCHANGED faults \/ Fault
      /\ UNCHANGED <<happened, stored, reported, again>>
      /\ db' \subseteq db
      => TableOk'
  BY <1>0, <1>f DEF TableOk
<1>1. ASSUME NEW r \in Rows, SaveActivity(r) PROVE LoadInv'
  <2>1. TableOk'
    BY <1>0, <1>1, <1>f DEF TableOk, SaveActivity, panel
  <2>2. UNCHANGED run /\ stored \subseteq stored'
    BY <1>1 DEF SaveActivity
  <2>3. \A q \in Runs : RunOk(q, run'[q], stored')
    BY <1>0, <2>2 DEF RunOk
  <2> QED BY <1>s, <2>1, <2>3 DEF LoadInv
<1>2. ASSUME NEW p \in Runs, Fire(p) PROVE LoadInv'
  <2>1. TableOk' /\ UNCHANGED stored
    BY <1>2, <1>k DEF Fire, panel
  <2> DEFINE r == [run[p] EXCEPT !.pc = "fetch"]
  <2>2. run' = [run EXCEPT ![p] = r]
    BY <1>2 DEF Fire
  <2>3. RunOk(p, r, stored)
    BY <1>0 DEF RunOk, Shape
  <2> HIDE DEF r
  <2>4. \A q \in Runs : RunOk(q, run'[q], stored')
    BY <1>0, <2>1, <2>2, <2>3, RunsKept
  <2> QED BY <1>s, <2>1, <2>4 DEF LoadInv
<1>3. ASSUME NEW p \in Runs, Fail(p) PROVE LoadInv'
  <2>1. TableOk' /\ UNCHANGED stored /\ End(p)
    BY <1>3, <1>k DEF Fail, panel
  <2>2. \A q \in Runs : RunOk(q, run'[q], stored')
    BY <1>0, <2>1, RunsEnd
  <2> QED BY <1>s, <2>1, <2>2 DEF LoadInv
<1>4. ASSUME NEW p \in Runs, Find(p) PROVE LoadInv'
  <2>1. TableOk' /\ UNCHANGED stored
    BY <1>4, <1>k DEF Find, panel
  <2>2. PICK found \in SUBSET (db \ Sftp) :
          /\ Cardinality(found) = Least(Max, Cardinality(db \ Sftp))
          /\ IF found = {} THEN End(p)
             ELSE /\ run' = [run EXCEPT ![p] = [@ EXCEPT !.pc = IF found \ Valid # {} THEN "purge" ELSE "send",
                                                         !.ids = found \intersect Valid, !.bad = found \ Valid]]
                  /\ UNCHANGED running
    BY <1>4 DEF Find
  <2>3. CASE End(p)
    BY <1>0, <1>s, <2>1, <2>3, RunsEnd DEF LoadInv
  <2>4. CASE ~End(p)
    <3> DEFINE l == IF found \ Valid # {} THEN "purge" ELSE "send"
               r == [run[p] EXCEPT !.pc = l, !.ids = found \intersect Valid, !.bad = found \ Valid]
    <3>1. run' = [run EXCEPT ![p] = r]
      BY <2>2, <2>4
    <3>2. found \subseteq Rows /\ found \subseteq stored /\ db \ Sftp \subseteq Rows
      BY <1>0 DEF TableOk
    <3>3. Cardinality(found) \in Nat /\ Cardinality(db \ Sftp) \in Nat
      BY <3>2, RowsCount
    <3>4. Cardinality(found) <= Max
      BY <2>2, <3>3, BoundsAssumption DEF Least
    <3>5. p[1] = "activity"
      BY <1>4 DEF Find
    <3>6. Cardinality(Load(p, found \intersect Valid)) <= Max
      <4>1. Load(p, found) = found
        BY <3>5 DEF Load
      <4>2. /\ Cardinality(Load(p, found \intersect Valid)) \in Nat
            /\ Cardinality(Load(p, found \intersect Valid)) <= Cardinality(Load(p, found))
        BY <3>2, LessLoad
      <4> QED BY <3>3, <3>4, <4>1, <4>2, BoundsAssumption
    <3>7. r.pc = l /\ r.ids = found \intersect Valid /\ r.bad = found \ Valid /\ r.offset = run[p].offset
      BY <1>0 DEF Shape
    <3>8. l \in {"idle", "fetch", "purge", "send", "delete"}
      OBVIOUS
    <3>9. run[p].offset \in Nat
      BY <1>0 DEF RunOk
    <3> HIDE DEF r, l
    <3>10. RunOk(p, r, stored)
      BY <3>2, <3>6, <3>7, <3>8, <3>9 DEF RunOk
    <3> QED BY <1>0, <1>s, <2>1, <3>1, <3>10, RunsKept DEF LoadInv
  <2> QED BY <2>3, <2>4
<1>5. ASSUME NEW p \in Runs, Purge(p) PROVE LoadInv'
  <2>1. TableOk' /\ UNCHANGED stored
    BY <1>5, <1>k DEF Purge, panel
  <2>2. CASE End(p)
    BY <1>0, <1>s, <2>1, <2>2, RunsEnd DEF LoadInv
  <2>3. CASE ~End(p)
    <3> DEFINE r == [run[p] EXCEPT !.pc = "send", !.bad = {}]
    <3>1. run' = [run EXCEPT ![p] = r]
      BY <1>5, <2>3 DEF Purge
    <3>2. r.pc = "send" /\ r.ids = run[p].ids /\ r.bad = {} /\ r.offset = run[p].offset
      BY <1>0 DEF Shape
    <3> HIDE DEF r
    <3>3. RunOk(p, r, stored)
      BY <1>0, <3>2 DEF RunOk
    <3> QED BY <1>0, <1>s, <2>1, <3>1, <3>3, RunsKept DEF LoadInv
  <2> QED BY <2>2, <2>3
<1>6. ASSUME NEW p \in Runs, FetchRecords(p) PROVE LoadInv'
  <2>1. TableOk' /\ UNCHANGED stored
    BY <1>6, <1>k DEF FetchRecords, panel
  <2>2. PICK page \in Pages(run[p].offset) : \E taken \in Push(run[p].ids, page) :
          IF taken # {}
          THEN /\ run' = [run EXCEPT ![p].ids = @ \union taken, ![p].offset = @ + Cardinality(page)]
               /\ UNCHANGED running
          ELSE IF run[p].ids = {} THEN End(p)
          ELSE run' = [run EXCEPT ![p].pc = "send"] /\ UNCHANGED running
    BY <1>6 DEF FetchRecords
  <2>3. PICK taken \in Push(run[p].ids, page) :
          IF taken # {}
          THEN /\ run' = [run EXCEPT ![p].ids = @ \union taken, ![p].offset = @ + Cardinality(page)]
               /\ UNCHANGED running
          ELSE IF run[p].ids = {} THEN End(p)
          ELSE run' = [run EXCEPT ![p].pc = "send"] /\ UNCHANGED running
    BY <2>2
  <2>4. CASE End(p)
    BY <1>0, <1>s, <2>1, <2>4, RunsEnd DEF LoadInv
  <2>5. CASE run' = [run EXCEPT ![p].pc = "send"]
    <3> DEFINE r == [run[p] EXCEPT !.pc = "send"]
    <3>1. run' = [run EXCEPT ![p] = r]
      BY <2>5
    <3>2. RunOk(p, r, stored)
      BY <1>0 DEF RunOk, Shape
    <3> HIDE DEF r
    <3> QED BY <1>0, <1>s, <2>1, <3>1, <3>2, RunsKept DEF LoadInv
  <2>6. CASE run' = [run EXCEPT ![p].ids = @ \union taken, ![p].offset = @ + Cardinality(page)]
    <3> DEFINE ids == run[p].ids \union taken
               n == run[p].offset + Cardinality(page)
               r == [run[p] EXCEPT !.ids = ids, !.offset = n]
    <3>1. run' = [run EXCEPT ![p] = r]
      BY <1>0, <2>6 DEF Shape
    <3>2. page \subseteq db /\ taken \subseteq page /\ db \subseteq stored /\ stored \subseteq Rows
      BY <1>0, PageRows, PushRows DEF TableOk
    <3>3. run[p].ids \subseteq stored /\ run[p].bad \subseteq Rows /\ run[p].offset \in Nat
          /\ run[p].pc \in {"idle", "fetch", "purge", "send", "delete"}
          /\ Cardinality(Load(p, run[p].ids)) <= Max
      BY <1>0 DEF RunOk
    <3>4. p[1] = "sftp"
      BY <1>6 DEF FetchRecords
    <3>5. Cardinality(Load(p, ids)) <= Max
      <4>1. Cardinality(Keys(run[p].ids)) <= Max
        BY <3>3, <3>4 DEF Load
      <4>2. Cardinality(Keys(run[p].ids \union taken)) <= Max
        BY <3>2, <3>3, <4>1, PushFits
      <4> QED BY <3>4, <4>2 DEF Load
    <3>6. n \in Nat
      <4>1. Cardinality(page) \in Nat
        BY <3>2, RowsCount
      <4> QED BY <3>3, <4>1
    <3>7. ids \subseteq stored
      BY <3>2, <3>3
    <3> HIDE DEF ids, n
    <3>8. r.ids = ids /\ r.offset = n /\ r.pc = run[p].pc /\ r.bad = run[p].bad
      BY <1>0 DEF Shape
    <3> HIDE DEF r
    <3>9. RunOk(p, r, stored)
      BY <3>3, <3>5, <3>6, <3>7, <3>8 DEF RunOk
    <3> QED BY <1>0, <1>s, <2>1, <3>1, <3>9, RunsKept DEF LoadInv
  <2> QED BY <2>3, <2>4, <2>5, <2>6
<1>7. ASSUME NEW p \in Runs, Send(p) PROVE LoadInv'
  <2>1. run[p].ids \subseteq stored
    BY <1>0 DEF RunOk
  <2>2. UNCHANGED <<happened, stored, db>> /\ (UNCHANGED faults \/ Fault)
        /\ (Accept(run[p].ids) \/ UNCHANGED <<reported, again>>)
    BY <1>7 DEF Send, panel
  <2>3. TableOk'
    BY <1>0, <1>f, <2>1, <2>2 DEF TableOk, Accept
  <2>4. CASE run' = [run EXCEPT ![p].pc = "delete"]
    <3> DEFINE r == [run[p] EXCEPT !.pc = "delete"]
    <3>1. run' = [run EXCEPT ![p] = r]
      BY <2>4
    <3>2. RunOk(p, r, stored)
      BY <1>0 DEF RunOk, Shape
    <3> HIDE DEF r
    <3> QED BY <1>0, <1>s, <2>2, <2>3, <3>1, <3>2, RunsKept DEF LoadInv
  <2>5. CASE UNCHANGED run \/ End(p)
    BY <1>0, <1>s, <2>2, <2>3, <2>5, RunsEnd DEF LoadInv
  <2> QED BY <1>7, <2>4, <2>5 DEF Send
<1>8. ASSUME NEW p \in Runs, Delete(p) PROVE LoadInv'
  <2>1. PICK rows \in SUBSET run[p].ids :
          /\ db' = db \ rows
          /\ IF rows = run[p].ids THEN End(p)
             ELSE run' = [run EXCEPT ![p].ids = @ \ rows] /\ UNCHANGED running
    BY <1>8 DEF Delete
  <2>2. TableOk' /\ UNCHANGED stored
    BY <1>8, <1>k, <2>1 DEF Delete, panel
  <2>3. CASE End(p)
    BY <1>0, <1>s, <2>2, <2>3, RunsEnd DEF LoadInv
  <2>4. CASE run' = [run EXCEPT ![p].ids = @ \ rows]
    <3> DEFINE ids == run[p].ids \ rows
               r == [run[p] EXCEPT !.ids = ids]
    <3>1. run' = [run EXCEPT ![p] = r]
      BY <2>4
    <3>2. run[p].ids \subseteq stored /\ stored \subseteq Rows /\ ids \subseteq run[p].ids
      BY <1>0 DEF RunOk, TableOk
    <3>3. /\ Cardinality(Load(p, ids)) <= Cardinality(Load(p, run[p].ids))
          /\ Cardinality(Load(p, ids)) \in Nat /\ Cardinality(Load(p, run[p].ids)) \in Nat
      BY <3>2, LessLoad
    <3>4. Cardinality(Load(p, run[p].ids)) <= Max
      BY <1>0 DEF RunOk
    <3>5. Cardinality(Load(p, ids)) <= Max
      BY <3>3, <3>4, BoundsAssumption
    <3> HIDE DEF ids
    <3>6. r.ids = ids /\ r.offset = run[p].offset /\ r.pc = run[p].pc /\ r.bad = run[p].bad
      BY <1>0 DEF Shape
    <3> HIDE DEF r
    <3>7. RunOk(p, r, stored)
      BY <1>0, <3>2, <3>5, <3>6 DEF RunOk
    <3> QED BY <1>0, <1>s, <2>2, <3>1, <3>7, RunsKept DEF LoadInv
  <2> QED BY <2>1, <2>3, <2>4
<1>9. CASE Crash
  <2>1. TableOk' /\ UNCHANGED stored
    BY <1>9, <1>k DEF Crash, panel
  <2>2. \A q \in Runs : run'[q] = NoRun
    BY <1>9 DEF Crash
  <2>3. \A q \in Runs : RunOk(q, run'[q], stored')
    BY <2>2, NoLoad
  <2> QED BY <1>s, <2>1, <2>3 DEF LoadInv
<1>10. CASE UNCHANGED vars
  BY <1>0, <1>s, <1>10 DEF vars, LoadInv, TableOk
<1> QED BY <1>1, <1>2, <1>3, <1>4, <1>5, <1>6, <1>7, <1>8, <1>9, <1>10 DEF Next, Step

LEMMA InitLoad ==
  ASSUME Init
  PROVE  LoadInv
<1>1. Shape
  BY InitShape DEF IInv
<1>2. TableOk
  BY BoundsAssumption DEF Init, TableOk
<1>3. \A p \in Runs : run[p] = NoRun
  BY DEF Init
<1>4. \A p \in Runs : RunOk(p, run[p], stored)
  BY <1>3, NoLoad
<1> QED BY <1>1, <1>2, <1>4 DEF LoadInv

\* The tables keep their types and only stored events are reported; a request carries at
\* most ActivitySendCount events, or groups of SFTP events, however many pages it was
\* read from (activityCron.Run, sftpCron.Run, eventMap.Push).
THEOREM DeliveryTypeOK == Spec => []TypeOK
<1>1. LoadInv => TypeOK
  BY DEF LoadInv, Shape, TableOk, RunOk, TypeOK, Load
<1> QED BY <1>1, InitLoad, NextLoad, PTL DEF Spec
=============================================================================
