------------------------------ MODULE Delivery ------------------------------
(***************************************************************************)
(* The activity log of the daemon: SaveActivity stores a row per event      *)
(* (server/activity.go), and two cron jobs (internal/cron) report the rows  *)
(* to the Panel and delete them: one sends the SFTP events, merged by user, *)
(* server, address, event and minute, the other everything else.  The       *)
(* scheduler may fire a job that still runs, rows are stored meanwhile, and *)
(* queries, requests and answers fail.                                      *)
(***************************************************************************)
EXTENDS Naturals, FiniteSets

CONSTANTS
  Rows,       \* the events that may happen
  Sftp,       \* those of SFTP sessions
  Valid,      \* those with an address that can be parsed
  EventOf,    \* the rank of each row's event in the order of the query
  KeyOf,      \* what a row is merged by
  Runs,       \* the firings of the jobs that may run at once: pairs of a job and a number
  Max,        \* System.ActivitySendCount
  Chunk,      \* rows one statement deletes
  MaxFaults   \* bound: failures

ASSUME RowsAssumption ==
  /\ IsFiniteSet(Rows)
  /\ Sftp \subseteq Rows /\ Valid \subseteq Rows
  /\ EventOf \in [Rows -> Nat]
  /\ \A r, s \in Rows : KeyOf[r] = KeyOf[s] => EventOf[r] = EventOf[s]
ASSUME BoundsAssumption == Max \in Nat \ {0} /\ Chunk \in Nat \ {0} /\ MaxFaults \in Nat

Crons == {"activity", "sftp"}

ASSUME RunsAssumption == Runs \subseteq Crons \X Nat

VARIABLES
  happened,   \* events that happened
  stored,     \* rows that were stored at some time
  db,         \* rows of the table
  running,    \* the flag of each job
  run,        \* the runs under way
  reported,   \* rows the Panel has been sent and accepted
  again,      \* rows it accepted more than once
  faults      \* failures so far

vars == <<happened, stored, db, running, run, reported, again, faults>>

NoRun == [pc |-> "idle", offset |-> 0, ids |-> {}, bad |-> {}]

Least(a, b) == IF a < b THEN a ELSE b

Init ==
  /\ happened = {} /\ stored = {} /\ db = {}
  /\ running = [c \in Crons |-> FALSE]
  /\ run = [p \in Runs |-> NoRun]
  /\ reported = {} /\ again = {} /\ faults = 0

panel == <<reported, again>>

Fault == faults < MaxFaults /\ faults' = faults + 1

\* SaveActivity, which gives up after three seconds.
SaveActivity(r) ==
  /\ r \notin happened /\ happened' = happened \union {r}
  /\ \/ db' = db \union {r} /\ stored' = stored \union {r} /\ UNCHANGED faults
     \/ Fault /\ UNCHANGED <<db, stored>>
  /\ UNCHANGED <<running, run, panel>>

-----------------------------------------------------------------------------
(* What both jobs do.                                                       *)

At(p, l) == run[p].pc = l

\* Mutant: the flag stays set.
EndBusy(p) == run' = [run EXCEPT ![p] = NoRun] /\ UNCHANGED running

\* Run returns and clears the flag.
End(p) ==
  /\ run' = [run EXCEPT ![p] = NoRun]
  /\ running' = [running EXCEPT ![p[1]] = FALSE]

\* Mutant: a job runs while it runs.
FireAnyway(p) ==
  /\ At(p, "idle")
  /\ running' = [running EXCEPT ![p[1]] = TRUE]
  /\ run' = [run EXCEPT ![p].pc = "fetch"]
  /\ UNCHANGED <<happened, stored, db, panel, faults>>

\* The scheduler fires the job; Run returns at once while another is under way.
Fire(p) ==
  /\ At(p, "idle") /\ ~running[p[1]]
  /\ running' = [running EXCEPT ![p[1]] = TRUE]
  /\ run' = [run EXCEPT ![p].pc = "fetch"]
  /\ UNCHANGED <<happened, stored, db, panel, faults>>

\* A query fails and the run ends.
Fail(p) ==
  /\ run[p].pc \in {"fetch", "purge", "delete"}
  /\ Fault /\ End(p)
  /\ UNCHANGED <<happened, stored, db, panel>>

\* The Panel's handler accepts what it is sent.
Accept(ids) ==
  /\ reported' = reported \union ids
  /\ again' = again \union (ids \intersect reported)

\* Mutant: what was sent without an answer is deleted too.
SendAnyway(p) ==
  /\ At(p, "send")
  /\ \/ Accept(run[p].ids) /\ UNCHANGED faults
     \/ Fault /\ UNCHANGED panel
  /\ run' = [run EXCEPT ![p].pc = "delete"]
  /\ UNCHANGED <<happened, stored, db, running>>

\* SendActivityLogs.  A request the Panel did not get, or whose answer got lost,
\* is sent again, until the time of the retries is over.
Send(p) ==
  /\ At(p, "send")
  /\ \/ /\ Accept(run[p].ids) /\ run' = [run EXCEPT ![p].pc = "delete"]
        /\ UNCHANGED <<running, faults>>
     \/ /\ Fault
        /\ Accept(run[p].ids) \/ UNCHANGED panel
        /\ UNCHANGED <<run, running>> \/ End(p)
  /\ UNCHANGED <<happened, stored, db>>

\* The rows are deleted by statements of at most Chunk rows each.
Delete(p) ==
  /\ At(p, "delete")
  /\ \E rows \in SUBSET run[p].ids :
       /\ Cardinality(rows) = Least(Chunk, Cardinality(run[p].ids))
       /\ db' = db \ rows
       /\ IF rows = run[p].ids THEN End(p)
          ELSE run' = [run EXCEPT ![p].ids = @ \ rows] /\ UNCHANGED running
  /\ UNCHANGED <<happened, stored, panel, faults>>

-----------------------------------------------------------------------------
(* The job of everything else: one query without an order.                  *)

\* Rows without a valid address are deleted unsent.
Find(p) ==
  LET open == db \ Sftp IN
  /\ p[1] = "activity" /\ At(p, "fetch")
  /\ \E found \in SUBSET open :
       /\ Cardinality(found) = Least(Max, Cardinality(open))
       /\ IF found = {} THEN End(p)
          ELSE /\ run' = [run EXCEPT ![p] = [@ EXCEPT !.pc = IF found \ Valid # {} THEN "purge" ELSE "send",
                                                      !.ids = found \intersect Valid, !.bad = found \ Valid]]
               /\ UNCHANGED running
  /\ UNCHANGED <<happened, stored, db, panel, faults>>

Purge(p) ==
  /\ At(p, "purge") /\ db' = db \ run[p].bad
  /\ IF run[p].ids = {} THEN End(p)
     ELSE run' = [run EXCEPT ![p] = [@ EXCEPT !.pc = "send", !.bad = {}]] /\ UNCHANGED running
  /\ UNCHANGED <<happened, stored, panel, faults>>

-----------------------------------------------------------------------------
(* The SFTP job: pages of a query by event, descending, until a page adds   *)
(* nothing.  What is sent are the groups of the rows in ids.                *)

\* The groups of rows, and the event of a group.
Keys(rows) == {KeyOf[r] : r \in rows}
Precedes(S, T) == \A r \in S, s \in T : EventOf[r] >= EventOf[s]

\* fetchRecords: Max rows after the first offset ones.  The order of equal events
\* is the database's, at each query.
Pages(offset) ==
  LET all    == db \intersect Sftp
      firsts == {S \in SUBSET all : Cardinality(S) = Least(offset, Cardinality(all)) /\ Precedes(S, all \ S)}
      After(S) == {T \in SUBSET (all \ S) : /\ Cardinality(T) = Least(Max, Cardinality(all \ S))
                                            /\ Precedes(T, all \ (S \union T))}
  IN UNION {After(S) : S \in firsts}

\* Mutant: a full map takes new groups.
PushAll(ids, page) == {page}

\* The rows of a page that Push takes: those of groups in the map, and of the first
\* new ones until it has Max; the others are left for the next run.
Push(ids, page) ==
  LET new  == {r \in page : KeyOf[r] \notin Keys(ids)}
      Of(A) == {r \in new : KeyOf[r] \in A}
      room == Max - Cardinality(Keys(ids))
  IN {(page \ new) \union Of(A) : A \in {B \in SUBSET Keys(new) :
        Cardinality(B) = Least(room, Cardinality(Keys(new))) /\ Precedes(Of(B), new \ Of(B))}}

FetchRecords(p) ==
  /\ p[1] = "sftp" /\ At(p, "fetch")
  /\ \E page \in Pages(run[p].offset) : \E taken \in Push(run[p].ids, page) :
       IF taken # {}
       THEN /\ run' = [run EXCEPT ![p].ids = @ \union taken, ![p].offset = @ + Cardinality(page)]
            /\ UNCHANGED running
       ELSE IF run[p].ids = {} THEN End(p)
       ELSE run' = [run EXCEPT ![p].pc = "send"] /\ UNCHANGED running
  /\ UNCHANGED <<happened, stored, db, panel, faults>>

\* The daemon ends and is started again; the table is a file.
Crash ==
  /\ Fault
  /\ running' = [c \in Crons |-> FALSE] /\ run' = [p \in Runs |-> NoRun]
  /\ UNCHANGED <<happened, stored, db, panel>>

Step(p) == Find(p) \/ Purge(p) \/ FetchRecords(p) \/ Send(p) \/ Delete(p)

Next ==
  \/ \E r \in Rows : SaveActivity(r)
  \/ \E p \in Runs : Fire(p) \/ Step(p) \/ Fail(p)
  \/ Crash

Spec == Init /\ [][Next]_vars

\* The scheduler fires each job again and again, and a run goes on; failures come
\* to an end.
Fairness == \A c \in Crons : WF_vars(\E p \in Runs : p[1] = c /\ (Fire(p) \/ Step(p)))
FairSpec == Spec /\ Fairness

-----------------------------------------------------------------------------
(* Properties.                                                              *)

\* A request never carries more than Max events.
TypeOK ==
  /\ happened \subseteq Rows /\ stored \subseteq happened /\ db \subseteq stored
  /\ reported \subseteq stored /\ again \subseteq reported
  /\ running \in [Crons -> BOOLEAN] /\ faults \in 0..MaxFaults
  /\ \A p \in Runs :
       /\ run[p].pc \in {"idle", "fetch", "purge", "send", "delete"}
       /\ run[p].ids \subseteq Rows /\ run[p].offset \in Nat /\ run[p].bad \subseteq Rows
       /\ At(p, "send") => Cardinality(IF p[1] = "sftp" THEN Keys(run[p].ids) ELSE run[p].ids) <= Max

\* A stored event is in the table until the Panel has accepted it, whatever failed
\* between the query, the request and the deletions; only events without a valid
\* address, and none of SFTP, go without (activityCron.Run, sftpCron.Run).
NothingLost == \A r \in stored : r \in db \/ r \in reported \/ r \notin Sftp \union Valid

\* Until something fails the Panel gets each event in one request only, however often
\* the scheduler fires the jobs (mu of activityCron and sftpCron).
ReportedOnce == faults = 0 => again = {}

\* The table is emptied again and again: the limit of a request and the paging leave
\* no event behind for ever, so that with NothingLost each is reported.
Emptied == []<>(db = {})
=============================================================================
