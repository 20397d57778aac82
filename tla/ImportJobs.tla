----------------------------- MODULE ImportJobs -----------------------------
(***************************************************************************)
(* Import jobs: an uploaded file is previewed, committed, imported row by  *)
(* row by a run inside the server process, and rolled back.                *)
(* import-jobs.service.ts with duplicates.ts, and the row loops of         *)
(* import-export.service.ts.                                               *)
(*                                                                         *)
(* A slot is one request, and then the run that commit starts for it.  A   *)
(* row is abstracted to its identity key (serial number or e-mail, as the  *)
(* duplicate scan normalises it) and to whether its other columns are      *)
(* accepted.  The column mapping is taken as given, and so is the file:    *)
(* no handler removes it.                                                  *)
(***************************************************************************)
EXTENDS Naturals, Sequences, FiniteSets

CONSTANTS
  Slots,       \* how many requests and runs can be in flight
  Jobs,        \* uploaded files
  File,        \* File[j]: the rows of job j
  Kind,        \* Kind[j]: what they are, "assets" or "employees"
  NoKey,       \* the key of a row that leaves it empty
  Batch,       \* rows in a batch
  Present,     \* <<kind, key>> of the rows that were there before
  Faults,      \* may calls fail and the process stop
  MaxRuns      \* bound: MaxRuns[j]: how often job j is committed

ASSUME ImportConstants ==
  /\ Batch \in Nat \ {0} /\ MaxRuns \in [Jobs -> Nat] /\ Faults \in BOOLEAN
  /\ Kind \in [Jobs -> {"assets", "employees"}]
  /\ Jobs # {} /\ DOMAIN File = Jobs
  /\ \A j \in Jobs : File[j] \in Seq({File[j][i] : i \in DOMAIN File[j]})

VARIABLES
  status,      \* status[j]: import_jobs.status
  createdIds,  \* createdIds[j]: rows its last completed run says it created
  failed,      \* failed[j]: its failed_count
  records,     \* rows of the asset and employee tables that jobs created
  runs,        \* runs[j]: how often the job was set running
  slot,        \* slot[s]: what is in flight, and what it holds in memory
  removed,     \* history: <<kind, key>> that roll-backs took away
  raced,       \* history: have two requests on one job overlapped
  broken,      \* history: has a run ended early after it created a row
  lost,        \* history: has a run ended without writing how
  faulted      \* history: rows, as the records they would be, with a call that failed

job == <<status, createdIds, failed, runs>>
history == <<removed, raced, broken, lost, faulted>>
vars == <<job, records, slot, history>>

Status == {"queued", "previewed", "running", "completed", "failed", "rolled_back"}

\* A created row, told apart from others by its job, run and place in the file.
Record == [job : Jobs, run : Nat, at : Nat]

Request == {"preview", "commit", "delete", "mark_rolled_back"}

\* "audit": an employee is created and not yet in the audit log.
Run == {"scan", "import", "audit", "mark_step", "fail"}

\* todo: the places of the rows left to import; next: the number of the next
\* one within its batch; the other fields are what the run reports at its end.
Slot == [op : {"idle"} \union Request \union Run, job : Jobs, dry : BOOLEAN, run : Nat,
         todo : SUBSET Nat, next : 1..Batch, ids : SUBSET Record, failed : Nat]

Idle == [op |-> "idle", job |-> CHOOSE j \in Jobs : TRUE, dry |-> FALSE, run |-> 0,
         todo |-> {}, next |-> 1, ids |-> {}, failed |-> 0]

Init ==
  /\ status = [j \in Jobs |-> "queued"]
  /\ createdIds = [j \in Jobs |-> {}]
  /\ failed = [j \in Jobs |-> 0]
  /\ runs = [j \in Jobs |-> 0]
  /\ records = {}
  /\ slot = [s \in Slots |-> Idle]
  /\ removed = {}
  /\ raced = FALSE /\ broken = FALSE /\ lost = FALSE
  /\ faulted = {}

-----------------------------------------------------------------------------
(* Helpers.                                                                *)

Row(r) == File[r.job][r.at]

KeyOf(r) == <<Kind[r.job], Row(r).key>>

\* The identity keys in the tables.
Known == Present \union {KeyOf(r) : r \in records}

\* assertMutable
Mutable(j) == status[j] \notin {"running", "completed", "rolled_back"}

\* Mutant: of the rows that share a key none is kept.
DuplicatesAll(j) ==
  {i \in DOMAIN File[j] :
     LET k == File[j][i].key
     IN k # NoKey /\ (<<Kind[j], k>> \in Known \/ \E e \in DOMAIN File[j] \ {i} : File[j][e].key = k)}

\* findDuplicates: the places of rows whose key is in the table already or
\* earlier in the file; rows without a key are no duplicates.
Duplicates(j) ==
  {i \in DOMAIN File[j] :
     LET k == File[j][i].key
     IN k # NoKey /\ (<<Kind[j], k>> \in Known \/ \E e \in 1..(i - 1) : File[j][e].key = k)}

Begin(s, j, op, v) ==
  /\ slot[s].op = "idle"
  /\ slot' = [slot EXCEPT ![s] = [v EXCEPT !.op = op, !.job = j]]
  /\ raced' = (raced \/ \E t \in Slots : slot[t].op \in Request /\ slot[t].job = j)
  /\ UNCHANGED <<job, records, removed, broken, lost, faulted>>

Finish(s) == slot' = [slot EXCEPT ![s] = Idle]

SetStatus(j, to) == status' = [status EXCEPT ![j] = to]

-----------------------------------------------------------------------------
(* preview, and commit up to the start of its run.                         *)

BeginPreview(s, j) == Mutable(j) /\ Begin(s, j, "preview", Idle)

WritePreview(s) ==
  /\ slot[s].op = "preview"
  /\ SetStatus(slot[s].job, "previewed")
  /\ Finish(s)
  /\ UNCHANGED <<createdIds, failed, runs, records, history>>

\* validateOnly runs import nothing.
BeginCommit(s, j, validateOnly) ==
  /\ Mutable(j) /\ runs[j] < MaxRuns[j]
  /\ Begin(s, j, "commit", [Idle EXCEPT !.dry = validateOnly])

WriteCommit(s) ==
  LET j == slot[s].job
  IN /\ slot[s].op = "commit" /\ runs[j] < MaxRuns[j]
     /\ SetStatus(j, "running")
     /\ runs' = [runs EXCEPT ![j] = @ + 1]
     /\ slot' = [slot EXCEPT ![s].op = "scan", ![s].run = runs[j] + 1]
     /\ UNCHANGED <<createdIds, failed, records, history>>

-----------------------------------------------------------------------------
(* process: the run.                                                       *)

\* What is not a duplicate is to be imported; validateOnly stops here.
Scan(s) ==
  LET v == slot[s]
      dups == Duplicates(v.job)
  IN /\ v.op = "scan"
     /\ slot' = [slot EXCEPT ![s] =
          [v EXCEPT !.op = "import", !.failed = Cardinality(dups),
                    !.todo = IF v.dry THEN {} ELSE DOMAIN File[v.job] \ dups]]
     /\ UNCHANGED <<job, records, history>>

\* May this row be created: its columns are accepted, an employee has an
\* e-mail, and the table's unique index has no such key.
Accepted(r) ==
  /\ Row(r).valid
  /\ Row(r).key = NoKey => Kind[r.job] = "assets"
  /\ Row(r).key # NoKey => KeyOf(r) \notin Known

\* Mutant: the ids of the batches before are forgotten.
KeepIds(v, r) == IF v.next = 1 THEN {r} ELSE v.ids \union {r}

AddId(v, r) == v.ids \union {r}

\* The record that a run makes of row i.
RecordOf(v, i) == [job |-> v.job, run |-> v.run, at |-> i]

\* The run has row i before it, in the order of the file.
IsNext(v, i) == \A k \in v.todo : i <= k

\* It is done with row i.  Each call of importAssetRows or importEmployeeRows
\* gets one batch.
Past(v, i) == [v EXCEPT !.op = "import", !.todo = @ \ {i}, !.next = (v.next % Batch) + 1]

\* importAssetRows creates an asset and its entry in the audit log in one
\* transaction.
ImportAsset(s) ==
  /\ slot[s].op = "import" /\ Kind[slot[s].job] = "assets"
  /\ \E i \in slot[s].todo :
       LET r == RecordOf(slot[s], i)
       IN /\ IsNext(slot[s], i) /\ Accepted(r)
          /\ records' = records \union {r}
          /\ slot' = [slot EXCEPT ![s] = [Past(slot[s], i) EXCEPT !.ids = AddId(slot[s], r)]]
  /\ UNCHANGED <<job, history>>

\* importEmployeeRows creates the employee first ...
CreateEmployee(s) ==
  /\ slot[s].op = "import" /\ Kind[slot[s].job] = "employees"
  /\ \E i \in slot[s].todo :
       LET r == RecordOf(slot[s], i)
       IN /\ IsNext(slot[s], i) /\ Accepted(r)
          /\ records' = records \union {r}
  /\ slot' = [slot EXCEPT ![s].op = "audit"]
  /\ UNCHANGED <<job, history>>

\* ... and writes the audit log in a statement of its own, before it keeps the id.
AuditEmployee(s) ==
  /\ slot[s].op = "audit"
  /\ \E i \in slot[s].todo :
       /\ IsNext(slot[s], i)
       /\ slot' = [slot EXCEPT ![s] =
            [Past(slot[s], i) EXCEPT !.ids = AddId(slot[s], RecordOf(slot[s], i))]]
  /\ UNCHANGED <<job, records, history>>

\* A row that is not accepted is counted.
RefuseRow(s) ==
  /\ slot[s].op = "import"
  /\ \E i \in slot[s].todo :
       /\ IsNext(slot[s], i) /\ ~Accepted(RecordOf(slot[s], i))
       /\ slot' = [slot EXCEPT ![s] = [Past(slot[s], i) EXCEPT !.failed = slot[s].failed + 1]]
  /\ UNCHANGED <<job, records, history>>

\* Mutant: the duplicates are not counted as failed.
CompleteUncounted(s) ==
  LET v == slot[s]
      j == v.job
  IN /\ v.op = "import" /\ v.todo = {}
     /\ SetStatus(j, "completed")
     /\ createdIds' = [createdIds EXCEPT ![j] = v.ids]
     /\ failed' = [failed EXCEPT ![j] = v.failed - Cardinality(Duplicates(j))]
     /\ IF v.ids = {} THEN Finish(s) ELSE slot' = [slot EXCEPT ![s].op = "mark_step"]
     /\ UNCHANGED <<runs, records, history>>

\* The job is completed; the onboarding step that follows is inside the same
\* try block.
Complete(s) ==
  LET v == slot[s]
      j == v.job
  IN /\ v.op = "import" /\ v.todo = {}
     /\ SetStatus(j, "completed")
     /\ createdIds' = [createdIds EXCEPT ![j] = v.ids]
     /\ failed' = [failed EXCEPT ![j] = v.failed]
     /\ IF v.ids = {} THEN Finish(s) ELSE slot' = [slot EXCEPT ![s].op = "mark_step"]
     /\ UNCHANGED <<runs, records, history>>

MarkStep(s) ==
  /\ slot[s].op = "mark_step"
  /\ Finish(s)
  /\ UNCHANGED <<job, records, history>>

-----------------------------------------------------------------------------
(* Faults.                                                                 *)

\* A call that the try block of a row makes fails: the row is counted as failed
\* and the run goes on.  An employee whose audit entry fails is there already.
RowFails(s) ==
  /\ Faults /\ slot[s].op \in {"import", "audit"}
  /\ \E i \in slot[s].todo :
       /\ IsNext(slot[s], i)
       /\ slot' = [slot EXCEPT ![s] = [Past(slot[s], i) EXCEPT !.failed = slot[s].failed + 1]]
       /\ faulted' = faulted \union {RecordOf(slot[s], i)}
  /\ UNCHANGED <<job, records, removed, raced, broken, lost>>

\* Where a run calls the database outside the try block of a row, so that an
\* exception ends it: the scan, the look-ups before a batch, its last update and
\* the onboarding step.
MayThrow(v) ==
  \/ v.op \in {"scan", "mark_step"}
  \/ v.op = "import" /\ (v.todo = {} \/ v.next = 1)

\* Mutant: nothing catches it.
ThrowUncaught(s) ==
  /\ Faults /\ MayThrow(slot[s])
  /\ Finish(s)
  /\ broken' = (broken \/ slot[s].ids # {})
  /\ UNCHANGED <<job, records, removed, raced, lost, faulted>>

Throw(s) ==
  /\ Faults /\ MayThrow(slot[s])
  /\ slot' = [slot EXCEPT ![s].op = "fail"]
  /\ broken' = (broken \/ slot[s].ids # {})
  /\ UNCHANGED <<job, records, removed, raced, lost, faulted>>

\* The catch block: the counts and the ids of an earlier completion stay.
WriteFailed(s) ==
  LET j == slot[s].job
  IN /\ slot[s].op = "fail"
     /\ SetStatus(j, "failed")
     /\ Finish(s)
     /\ UNCHANGED <<createdIds, failed, runs, records, history>>

\* The update in the catch block fails too, or the run cannot load its job,
\* which it does before the try block: the job stays running.
LoseRun(s) ==
  /\ Faults /\ slot[s].op \in {"scan", "fail"}
  /\ Finish(s)
  /\ lost' = TRUE
  /\ UNCHANGED <<job, records, removed, raced, broken, faulted>>

\* A request fails at its next call.
RequestFails(s) ==
  /\ Faults /\ slot[s].op \in Request
  /\ Finish(s)
  /\ UNCHANGED <<job, records, history>>

\* The process stops; nothing takes up what was in flight.
Crash ==
  /\ Faults /\ \E s \in Slots : slot[s].op # "idle"
  /\ slot' = [s \in Slots |-> Idle]
  /\ lost' = (lost \/ \E s \in Slots : slot[s].op \in Run)
  /\ broken' = (broken \/ \E s \in Slots :
                   slot[s].op = "audit" \/ (slot[s].op \in Run /\ slot[s].ids # {}))
  /\ UNCHANGED <<job, records, removed, raced, faulted>>

-----------------------------------------------------------------------------
(* rollback.                                                               *)

BeginRollback(s, j) ==
  /\ status[j] = "completed"
  /\ Begin(s, j, "delete", [Idle EXCEPT !.ids = createdIds[j]])

DeleteRows(s) ==
  /\ slot[s].op = "delete"
  /\ records' = records \ slot[s].ids
  /\ removed' = removed \union {KeyOf(r) : r \in records \intersect slot[s].ids}
  /\ slot' = [slot EXCEPT ![s].op = "mark_rolled_back", ![s].ids = {}]
  /\ UNCHANGED <<job, raced, broken, lost, faulted>>

WriteRolledBack(s) ==
  /\ slot[s].op = "mark_rolled_back"
  /\ SetStatus(slot[s].job, "rolled_back")
  /\ Finish(s)
  /\ UNCHANGED <<createdIds, failed, runs, records, history>>

-----------------------------------------------------------------------------
Start(s) ==
  \E j \in Jobs :
    \/ BeginPreview(s, j)
    \/ \E validateOnly \in BOOLEAN : BeginCommit(s, j, validateOnly)
    \/ BeginRollback(s, j)

Continue(s) ==
  \/ WritePreview(s)
  \/ WriteCommit(s)
  \/ Scan(s)
  \/ ImportAsset(s)
  \/ CreateEmployee(s)
  \/ AuditEmployee(s)
  \/ RefuseRow(s)
  \/ RowFails(s)
  \/ Complete(s)
  \/ MarkStep(s)
  \/ Throw(s)
  \/ WriteFailed(s)
  \/ LoseRun(s)
  \/ RequestFails(s)
  \/ DeleteRows(s)
  \/ WriteRolledBack(s)

Next == Crash \/ \E s \in Slots : Start(s) \/ Continue(s)

\* Calls return, and the event loop runs what is queued, as long as the
\* process lives; nobody has to send requests.
Spec == Init /\ [][Next]_vars /\ \A s \in Slots : WF_vars(Continue(s))

-----------------------------------------------------------------------------
(* Properties.                                                             *)

\* A job's counts are about the rows of its file, its ids about rows it made.
TypeOK ==
  /\ status \in [Jobs -> Status]
  /\ createdIds \in [Jobs -> SUBSET Record] /\ \A j \in Jobs : \A r \in createdIds[j] : r.job = j
  /\ failed \in [Jobs -> Nat] /\ \A j \in Jobs : failed[j] <= Len(File[j])
  /\ records \subseteq Record
  /\ runs \in [Jobs -> Nat] /\ \A j \in Jobs : runs[j] <= MaxRuns[j]
  /\ slot \in [Slots -> Slot]
  /\ \A s \in Slots : slot[s].failed <= Len(File[slot[s].job])
  /\ \A x \in removed : \E j \in Jobs : \E i \in DOMAIN File[j] : x = <<Kind[j], File[j][i].key>>
  /\ {raced, broken, lost} \subseteq BOOLEAN
  /\ faulted \subseteq Record

\* Whatever overlaps, fails or is tried again: a completed job that created
\* rows reports every row of its file once, as created or as failed.
CountsAddUp ==
  \A j \in Jobs :
    (status[j] = "completed" /\ createdIds[j] # {}) =>
      Cardinality(createdIds[j]) + failed[j] = Len(File[j])

\* The record is an employee whose audit entry failed: the run that created it
\* counted its row as failed, and did not keep its id.
Stray(r) == Kind[r.job] = "employees" /\ r \in faulted

\* A job that is rolled back leaves none of its rows but stray employees, unless
\* two requests on one job overlapped or a run ended early after it had created
\* a row.
RollbackRemovesAll ==
  (~raced /\ ~broken) =>
    \A j \in Jobs : status[j] = "rolled_back" => \A r \in records : r.job = j => Stray(r)

\* Row i of job j has a key, which comes with acceptable columns wherever it is
\* in the file.
Importable(j, i) ==
  /\ File[j][i].key # NoKey
  /\ \A e \in DOMAIN File[j] : File[j][e].key = File[j][i].key => File[j][e].valid

\* A call for a row of file j that has the key of row i failed in this run.
KeyFaulted(j, run, i) ==
  \E r \in faulted : r.job = j /\ r.run = run /\ File[j][r.at].key = File[j][i].key

\* Whatever overlaps, fails or is tried again: when a run completes, every
\* key in its file that comes with acceptable columns is in the table, unless
\* a roll-back has taken it away or this run met a failing call at a row with
\* that key, which it has then counted as failed.
CompletionImportsAll ==
  [][ \A s \in Slots :
        (/\ slot[s].op = "import" /\ slot[s].todo = {} /\ ~slot[s].dry
         /\ status[slot[s].job] # "completed" /\ status'[slot[s].job] = "completed")
        => LET j == slot[s].job
           IN \A i \in DOMAIN File[j] :
                Importable(j, i) =>
                  \/ <<Kind[j], File[j][i].key>> \in Known \union removed
                  \/ KeyFaulted(j, slot[s].run, i) ]_vars

\* A running job comes to an end, unless its run was lost with the process or
\* with its last update.
JobEnds == \A j \in Jobs : status[j] = "running" ~> (status[j] # "running" \/ lost)
-----------------------------------------------------------------------------
(* What the properties rest on.                                            *)

\* What a run created is among the rows of its file that it has done with, and
\* nobody else's; before it scans there is nothing.
RowsInv ==
  /\ \A r \in records \union faulted : r.at \in DOMAIN File[r.job]
  /\ \A s \in Slots :
       /\ slot[s].op \in {"commit", "scan"} => slot[s].ids = {} /\ slot[s].failed = 0
       /\ slot[s].op = "audit" => Kind[slot[s].job] = "employees"
       /\ slot[s].op \in {"import", "audit"} =>
            /\ slot[s].todo \subseteq DOMAIN File[slot[s].job]
            /\ \A r \in slot[s].ids :
                 r.job = slot[s].job /\ r.run = slot[s].run /\ r.at \notin slot[s].todo

\* A run that imports has each row of the file done, failed or before it.
CountInv ==
  /\ \A s \in Slots :
       slot[s].op \in {"import", "audit"} =>
         /\ IsFiniteSet(slot[s].ids)
         /\ slot[s].dry => slot[s].ids = {} /\ slot[s].todo = {}
         /\ ~slot[s].dry =>
              Cardinality(slot[s].ids) + slot[s].failed + Cardinality(slot[s].todo)
                = Len(File[slot[s].job])
  /\ \A j \in Jobs :
       createdIds[j] # {} => Cardinality(createdIds[j]) + failed[j] = Len(File[j])

\* Each good key of a file that is being imported was in the tables, or is
\* the key of a row that is left or whose call failed; the key of an employee
\* that waits for its audit entry was in the tables.
PlacedInv ==
  \A s \in Slots :
    LET j == slot[s].job
        InTables(i) == <<Kind[j], File[j][i].key>> \in Known \union removed
    IN /\ (slot[s].op \in {"import", "audit"} /\ ~slot[s].dry) =>
            \A i \in DOMAIN File[j] :
              Importable(j, i) =>
                \/ InTables(i)
                \/ KeyFaulted(j, slot[s].run, i)
                \/ \E e \in slot[s].todo : File[j][e].key = File[j][i].key
       /\ slot[s].op = "audit" => \A i \in slot[s].todo : IsNext(slot[s], i) => InTables(i)

\* A request, or a run that has not written its end yet, is about job j.
Active(s) == slot[s].op \in {"scan", "import", "audit", "fail"}

Involved(s, j) == (slot[s].op \in Request \/ Active(s)) /\ slot[s].job = j

\* A run that holds v has created r, and knows it.
InHand(v, r) ==
  \/ r \in v.ids
  \/ v.op = "audit" /\ \E i \in v.todo : IsNext(v, i) /\ r = RecordOf(v, i)

\* While requests on one job take turns and no run ended early with rows, the
\* status is a lock: a request still finds what it read, a run is alone, and
\* what a job created is in the hands of its run or of its completed row, or is
\* a stray employee.
LockInv ==
  (~raced /\ ~broken) =>
    /\ \A s, t \in Slots : \A j \in Jobs : Involved(s, j) /\ Involved(t, j) => s = t
    /\ \A s \in Slots :
         LET j == slot[s].job
         IN /\ Active(s) => status[j] = "running"
            /\ slot[s].op = "fail" => slot[s].ids = {}
            /\ slot[s].op = "mark_step" => slot[s].ids # {}
            /\ slot[s].op \in {"preview", "commit"} => Mutable(j)
            /\ slot[s].op = "delete" => status[j] = "completed" /\ slot[s].ids = createdIds[j]
            /\ slot[s].op = "mark_rolled_back" => \A r \in records : r.job = j => Stray(r)
    /\ \A r \in records :
         \/ status[r.job] = "completed" /\ r \in createdIds[r.job]
         \/ \E s \in Slots : Active(s) /\ slot[s].job = r.job /\ InHand(slot[s], r)
         \/ Stray(r)
=============================================================================
