-------------------------- MODULE ImportJobsProofs --------------------------
(***************************************************************************)
(* Theorems about ImportJobs for any files and any number of slots.        *)
(***************************************************************************)
EXTENDS ImportJobs, FiniteSetTheorems, WellFoundedInduction, TLAPS

-----------------------------------------------------------------------------
(* Files, rows and slots.                                                  *)

\* The places of a file are the numbers up to its length.
LEMMA Places ==
  ASSUME NEW j \in Jobs
  PROVE  /\ Len(File[j]) \in Nat
         /\ DOMAIN File[j] = 1..Len(File[j])
         /\ IsFiniteSet(DOMAIN File[j])
         /\ Cardinality(DOMAIN File[j]) = Len(File[j])
  <1>1. File[j] \in Seq({File[j][i] : i \in DOMAIN File[j]})
    BY ImportConstants
  <1>2. Len(File[j]) \in Nat /\ DOMAIN File[j] = 1..Len(File[j])
    BY <1>1
  <1>3. /\ IsFiniteSet(1..Len(File[j]))
        /\ Cardinality(1..Len(File[j])) =
             IF 1 > Len(File[j]) THEN 0 ELSE Len(File[j]) - 1 + 1
    <2> DEFINE n == Len(File[j])
    <2>1. 1 \in Int /\ n \in Int
      BY <1>2
    <2> HIDE DEF n
    <2>2. IsFiniteSet(1..n) /\ Cardinality(1..n) = IF 1 > n THEN 0 ELSE n - 1 + 1
      BY <2>1, FS_Interval
    <2> QED
      BY <2>2 DEF n
  <1> QED
    BY <1>2, <1>3

\* Duplicates are rows of the file.
LEMMA DuplicatesPlaced ==
  ASSUME NEW j \in Jobs
  PROVE  /\ Duplicates(j) \subseteq DOMAIN File[j]
         /\ IsFiniteSet(Duplicates(j))
         /\ Cardinality(Duplicates(j)) \in 0..Len(File[j])
         /\ IsFiniteSet(DOMAIN File[j] \ Duplicates(j))
         /\ Cardinality(DOMAIN File[j] \ Duplicates(j))
              = Len(File[j]) - Cardinality(Duplicates(j))
  <1>1. Duplicates(j) \subseteq DOMAIN File[j]
    BY DEF Duplicates
  <1>2. /\ IsFiniteSet(Duplicates(j))
        /\ Cardinality(Duplicates(j)) <= Cardinality(DOMAIN File[j])
    BY <1>1, Places, FS_Subset
  <1>3. Cardinality(Duplicates(j)) \in Nat /\ Len(File[j]) \in Nat
    BY <1>2, Places, FS_CardinalityType
  <1>4. /\ IsFiniteSet(DOMAIN File[j] \ Duplicates(j))
        /\ Cardinality(DOMAIN File[j] \ Duplicates(j))
             = Cardinality(DOMAIN File[j]) - Cardinality(DOMAIN File[j] \cap Duplicates(j))
    BY Places, FS_Difference
  <1>5. DOMAIN File[j] \cap Duplicates(j) = Duplicates(j)
    BY <1>1
  <1>6. Cardinality(Duplicates(j)) <= Len(File[j])
    BY <1>2, Places
  <1>7. Cardinality(Duplicates(j)) \in 0..Len(File[j])
    BY <1>3, <1>6
  <1>8. Cardinality(DOMAIN File[j] \ Duplicates(j)) = Len(File[j]) - Cardinality(Duplicates(j))
    BY <1>4, <1>5, Places
  <1> QED
    BY <1>1, <1>2, <1>4, <1>7, <1>8

LEMMA IdleTyped ==
  /\ Idle \in Slot
  /\ Idle.op = "idle" /\ Idle.ids = {} /\ Idle.failed = 0 /\ Idle.todo = {} /\ Idle.next = 1
  <1>1. (CHOOSE j \in Jobs : TRUE) \in Jobs
    BY ImportConstants
  <1>2. 1 \in 1..Batch
    BY ImportConstants
  <1> QED
    BY <1>1, <1>2 DEF Idle, Slot

\* The number of the next row within its batch.
LEMMA NextInBatch ==
  ASSUME NEW n \in 1..Batch
  PROVE  (n % Batch) + 1 \in 1..Batch
  <1>1. Batch \in Nat /\ Batch > 0 /\ n \in Int
    BY ImportConstants
  <1>2. n % Batch \in 0..(Batch - 1)
    BY <1>1
  <1> QED
    BY <1>1, <1>2

-----------------------------------------------------------------------------
(* What the steps do to the slots.                                         *)

\* Slot s comes to hold v, and the others stay.
Holds(s, v) == slot' = [slot EXCEPT ![s] = v]

LEMMA HoldsDoes ==
  ASSUME slot \in [Slots -> Slot], NEW s \in Slots, NEW v \in Slot, Holds(s, v)
  PROVE  /\ slot' \in [Slots -> Slot]
         /\ slot'[s] = v
         /\ \A t \in Slots \ {s} : slot'[t] = slot[t]
  BY DEF Holds

\* A request begins with what its kind needs, and with nothing of a run.
LEMMA StartDoes ==
  ASSUME TypeOK, NEW s \in Slots, Start(s)
  PROVE  \E j \in Jobs, v \in Slot :
           /\ Holds(s, v)
           /\ slot[s].op = "idle"
           /\ v.job = j
           /\ \/ v.op \in {"preview", "commit"} /\ Mutable(j) /\ v.ids = {}
              \/ v.op = "delete" /\ status[j] = "completed" /\ v.ids = createdIds[j]
           /\ v.failed = 0
           /\ raced' = (raced \/ \E t \in Slots : slot[t].op \in Request /\ slot[t].job = j)
           /\ UNCHANGED <<job, records, removed, broken, lost, faulted>>
  <1> USE DEF Begin, Holds
  <1>1. PICK j \in Jobs : \/ BeginPreview(s, j)
                          \/ \E validateOnly \in BOOLEAN : BeginCommit(s, j, validateOnly)
                          \/ BeginRollback(s, j)
    BY DEF Start
  <1>2. CASE BeginPreview(s, j)
    <2> DEFINE v == [Idle EXCEPT !.op = "preview", !.job = j]
    <2>1. v \in Slot /\ v.job = j /\ v.op = "preview" /\ v.ids = {} /\ v.failed = 0
      BY IdleTyped DEF Slot, Request
    <2>2. Holds(s, v) /\ Mutable(j)
      BY <1>2 DEF BeginPreview
    <2> HIDE DEF v
    <2> QED
      BY <1>2, <2>1, <2>2 DEF BeginPreview
  <1>3. ASSUME NEW validateOnly \in BOOLEAN, BeginCommit(s, j, validateOnly)
        PROVE  \E v \in Slot :
                 /\ Holds(s, v)
                 /\ v.job = j /\ v.op = "commit" /\ v.ids = {} /\ v.failed = 0
    <2> DEFINE w == [Idle EXCEPT !.dry = validateOnly]
               v == [w EXCEPT !.op = "commit", !.job = j]
    <2>1. w \in Slot /\ w.ids = {} /\ w.failed = 0
      BY IdleTyped DEF Slot
    <2>2. Holds(s, v)
      BY <1>3 DEF BeginCommit
    <2> HIDE DEF w
    <2>3. v \in Slot /\ v.job = j /\ v.op = "commit" /\ v.ids = {} /\ v.failed = 0
      BY <2>1 DEF Slot, Request
    <2> QED
      BY <2>2, <2>3
  <1>4. CASE \E validateOnly \in BOOLEAN : BeginCommit(s, j, validateOnly)
    BY <1>3, <1>4 DEF BeginCommit
  <1>5. CASE BeginRollback(s, j)
    <2> DEFINE w == [Idle EXCEPT !.ids = createdIds[j]]
               v == [w EXCEPT !.op = "delete", !.job = j]
    <2>1. w \in Slot /\ w.ids = createdIds[j] /\ w.failed = 0
      BY IdleTyped DEF Slot, TypeOK
    <2>2. Holds(s, v)
      BY <1>5 DEF BeginRollback
    <2> HIDE DEF w
    <2>3. v \in Slot /\ v.job = j /\ v.op = "delete" /\ v.ids = createdIds[j] /\ v.failed = 0
      BY <2>1 DEF Slot, Request
    <2> QED
      BY <1>5, <2>2, <2>3 DEF BeginRollback
  <1> QED
    BY <1>1, <1>2, <1>4, <1>5

LEMMA SlotFields ==
  ASSUME slot \in [Slots -> Slot], NEW s \in Slots
  PROVE  /\ slot[s] \in Slot
         /\ slot[s].job \in Jobs /\ slot[s].dry \in BOOLEAN /\ slot[s].run \in Nat
         /\ slot[s].todo \subseteq Nat /\ slot[s].next \in 1..Batch
         /\ slot[s].ids \subseteq Record /\ slot[s].failed \in Nat
  BY DEF Slot

LEMMA FinishDoes ==
  ASSUME NEW s \in Slots, Finish(s)
  PROVE  Holds(s, Idle)
  BY DEF Finish, Holds

LEMMA CommitDoes ==
  ASSUME TypeOK, NEW s \in Slots, WriteCommit(s)
  PROVE  \E v \in Slot :
           /\ Holds(s, v)
           /\ v.op = "scan" /\ v.job = slot[s].job /\ v.ids = slot[s].ids
           /\ v.failed = slot[s].failed
  <1> DEFINE n == runs[slot[s].job] + 1
             v == [slot[s] EXCEPT !.op = "scan", !.run = n]
  <1>1. slot[s] \in Slot /\ slot[s].job \in Jobs
    BY SlotFields DEF TypeOK
  <1>2. n \in Nat
    BY <1>1 DEF TypeOK
  <1>3. Holds(s, v)
    BY DEF WriteCommit, Holds
  <1> HIDE DEF n
  <1>4. v \in Slot /\ v.op = "scan" /\ v.job = slot[s].job /\ v.ids = slot[s].ids
        /\ v.failed = slot[s].failed
    BY <1>1, <1>2 DEF Slot, Run
  <1> QED
    BY <1>3, <1>4

LEMMA ScanDoes ==
  ASSUME TypeOK, NEW s \in Slots, Scan(s)
  PROVE  \E v \in Slot :
           /\ Holds(s, v)
           /\ v.op = "import" /\ v.job = slot[s].job /\ v.ids = slot[s].ids
           /\ v.run = slot[s].run /\ v.dry = slot[s].dry
           /\ v.failed = Cardinality(Duplicates(slot[s].job))
           /\ v.todo = IF v.dry THEN {} ELSE DOMAIN File[slot[s].job] \ Duplicates(slot[s].job)
  <1> DEFINE j == slot[s].job
             n == Cardinality(Duplicates(j))
             d == IF slot[s].dry THEN {} ELSE DOMAIN File[j] \ Duplicates(j)
             v == [slot[s] EXCEPT !.op = "import", !.failed = n, !.todo = d]
  <1>1. slot[s] \in Slot /\ j \in Jobs
    BY SlotFields DEF TypeOK
  <1>2. n \in Nat /\ d \subseteq Nat
    <2>1. n \in 0..Len(File[j]) /\ Len(File[j]) \in Nat /\ DOMAIN File[j] = 1..Len(File[j])
      BY <1>1, DuplicatesPlaced, Places
    <2> QED
      BY <2>1
  <1>3. Holds(s, v)
    BY DEF Scan, Holds
  <1> HIDE DEF n, d
  <1>4. v \in Slot /\ v.op = "import" /\ v.job = j /\ v.ids = slot[s].ids
        /\ v.run = slot[s].run /\ v.dry = slot[s].dry /\ v.failed = n /\ v.todo = d
    BY <1>1, <1>2 DEF Slot, Run
  <1> QED
    BY <1>3, <1>4 DEF n, d

\* The record that slot s makes of row i.
Made(s, i) == RecordOf(slot[s], i)

LEMMA MadeTyped ==
  ASSUME TypeOK, NEW s \in Slots, NEW i \in Nat
  PROVE  /\ Made(s, i) \in Record
         /\ Made(s, i).job = slot[s].job /\ Made(s, i).run = slot[s].run /\ Made(s, i).at = i
  BY SlotFields DEF Made, RecordOf, Record, TypeOK

\* Slot s is done with row i, and holds v: one of four ways.
Passed(s, i, v) ==
  \/ /\ slot[s].op = "import" /\ Accepted(Made(s, i))
     /\ records' = records \union {Made(s, i)} /\ faulted' = faulted
     /\ v.ids = slot[s].ids \union {Made(s, i)} /\ v.failed = slot[s].failed
  \/ /\ slot[s].op = "audit"
     /\ records' = records /\ faulted' = faulted
     /\ v.ids = slot[s].ids \union {Made(s, i)} /\ v.failed = slot[s].failed
  \/ /\ slot[s].op = "import" /\ ~Accepted(Made(s, i))
     /\ records' = records /\ faulted' = faulted
     /\ v.ids = slot[s].ids /\ v.failed = slot[s].failed + 1
  \/ /\ slot[s].op \in {"import", "audit"}
     /\ records' = records /\ faulted' = faulted \union {Made(s, i)}
     /\ v.ids = slot[s].ids /\ v.failed = slot[s].failed + 1

Pass(s) == ImportAsset(s) \/ AuditEmployee(s) \/ RefuseRow(s) \/ RowFails(s)

LEMMA PassDoes ==
  ASSUME TypeOK, NEW s \in Slots, Pass(s)
  PROVE  \E i \in slot[s].todo, v \in Slot :
           /\ Holds(s, v) /\ IsNext(slot[s], i) /\ Passed(s, i, v)
           /\ v.op = "import" /\ v.job = slot[s].job
           /\ v.run = slot[s].run /\ v.dry = slot[s].dry
           /\ v.todo = slot[s].todo \ {i}
  <1>1. /\ slot[s] \in Slot /\ slot[s].todo \subseteq Nat /\ slot[s].ids \subseteq Record
        /\ slot[s].failed \in Nat
    BY SlotFields DEF TypeOK
  <1> DEFINE f == slot[s].failed + 1
             with(i) == [Past(slot[s], i) EXCEPT !.ids = slot[s].ids \union {Made(s, i)}]
             without(i) == [Past(slot[s], i) EXCEPT !.failed = f]
  <1>2. ASSUME NEW i \in slot[s].todo
        PROVE  /\ with(i) \in Slot /\ with(i).op = "import" /\ with(i).job = slot[s].job
               /\ with(i).run = slot[s].run /\ with(i).dry = slot[s].dry
               /\ with(i).todo = slot[s].todo \ {i} /\ with(i).failed = slot[s].failed
               /\ with(i).ids = slot[s].ids \union {Made(s, i)}
               /\ without(i) \in Slot /\ without(i).op = "import" /\ without(i).job = slot[s].job
               /\ without(i).run = slot[s].run /\ without(i).dry = slot[s].dry
               /\ without(i).todo = slot[s].todo \ {i} /\ without(i).failed = f
               /\ without(i).ids = slot[s].ids
    <2> DEFINE n == (slot[s].next % Batch) + 1
               m == Made(s, i)
    <2>1. n \in 1..Batch
      BY NextInBatch, SlotFields DEF TypeOK
    <2>2. m \in Record /\ f \in Nat
      BY <1>1, MadeTyped
    <2> HIDE DEF n, m, f
    <2> DEFINE w == [slot[s] EXCEPT !.op = "import", !.todo = @ \ {i}, !.next = n]
    <2>3. Past(slot[s], i) = w
      BY DEF Past, n
    <2>4. /\ w \in Slot /\ w.op = "import" /\ w.job = slot[s].job /\ w.run = slot[s].run
          /\ w.dry = slot[s].dry /\ w.todo = slot[s].todo \ {i} /\ w.failed = slot[s].failed
          /\ w.ids = slot[s].ids
      BY <1>1, <2>1 DEF Slot, Run
    <2> HIDE DEF w
    <2> DEFINE a == [w EXCEPT !.ids = slot[s].ids \union {m}]
               b == [w EXCEPT !.failed = f]
    <2>5. a \in Slot /\ a.op = w.op /\ a.job = w.job /\ a.run = w.run /\ a.dry = w.dry
          /\ a.todo = w.todo /\ a.failed = w.failed /\ a.ids = slot[s].ids \union {m}
      BY <1>1, <2>2, <2>4 DEF Slot
    <2>6. b \in Slot /\ b.op = w.op /\ b.job = w.job /\ b.run = w.run /\ b.dry = w.dry
          /\ b.todo = w.todo /\ b.failed = f /\ b.ids = w.ids
      BY <2>2, <2>4 DEF Slot
    <2>7. with(i) = a /\ without(i) = b
      BY <2>3 DEF m
    <2> QED
      BY <2>4, <2>5, <2>6, <2>7 DEF m
  <1>3. \E i \in slot[s].todo :
          /\ IsNext(slot[s], i)
          /\ \/ Holds(s, with(i)) /\ Passed(s, i, with(i))
             \/ Holds(s, without(i)) /\ Passed(s, i, without(i))
    <2>1. CASE ImportAsset(s)
      <3>1. PICK i \in slot[s].todo :
              /\ IsNext(slot[s], i) /\ Accepted(Made(s, i))
              /\ records' = records \union {Made(s, i)}
              /\ Holds(s, with(i))
        BY <2>1 DEF ImportAsset, Made, Holds, AddId
      <3>2. slot[s].op = "import" /\ faulted' = faulted
        BY <2>1 DEF ImportAsset, history
      <3> HIDE DEF with
      <3>3. with(i).ids = slot[s].ids \union {Made(s, i)} /\ with(i).failed = slot[s].failed
        BY <1>2
      <3> QED
        BY <3>1, <3>2, <3>3 DEF Passed
    <2>2. CASE AuditEmployee(s)
      <3>1. PICK i \in slot[s].todo : IsNext(slot[s], i) /\ Holds(s, with(i))
        BY <2>2 DEF AuditEmployee, Made, Holds, AddId
      <3>2. slot[s].op = "audit" /\ records' = records /\ faulted' = faulted
        BY <2>2 DEF AuditEmployee, history
      <3> HIDE DEF with
      <3>3. with(i).ids = slot[s].ids \union {Made(s, i)} /\ with(i).failed = slot[s].failed
        BY <1>2
      <3> QED
        BY <3>1, <3>2, <3>3 DEF Passed
    <2>3. CASE RefuseRow(s) \/ RowFails(s)
      <3>2. PICK i \in slot[s].todo :
              /\ IsNext(slot[s], i) /\ Holds(s, without(i)) /\ records' = records
              /\ \/ slot[s].op = "import" /\ ~Accepted(Made(s, i)) /\ faulted' = faulted
                 \/ slot[s].op \in {"import", "audit"} /\ faulted' = faulted \union {Made(s, i)}
        <4>1. CASE RefuseRow(s)
          BY <4>1 DEF RefuseRow, Made, Holds, history
        <4>2. CASE RowFails(s)
          BY <4>2 DEF RowFails, Made, Holds
        <4> QED
          BY <2>3, <4>1, <4>2
      <3> HIDE DEF without
      <3>4. without(i).ids = slot[s].ids /\ without(i).failed = slot[s].failed + 1
        BY <1>2
      <3> QED
        BY <3>2, <3>4 DEF Passed
    <2> QED
      BY <2>1, <2>2, <2>3 DEF Pass
  <1> HIDE DEF with, without
  <1> QED
    BY <1>2, <1>3

LEMMA CreateDoes ==
  ASSUME TypeOK, NEW s \in Slots, CreateEmployee(s)
  PROVE  \E i \in slot[s].todo, v \in Slot :
           /\ Holds(s, v) /\ IsNext(slot[s], i)
           /\ slot[s].op = "import" /\ Kind[slot[s].job] = "employees"
           /\ Accepted(Made(s, i)) /\ records' = records \union {Made(s, i)}
           /\ UNCHANGED <<job, history>>
           /\ v.op = "audit" /\ v.job = slot[s].job /\ v.run = slot[s].run
           /\ v.dry = slot[s].dry /\ v.todo = slot[s].todo
           /\ v.ids = slot[s].ids /\ v.failed = slot[s].failed
  <1> DEFINE v == [slot[s] EXCEPT !.op = "audit"]
  <1>1. slot[s] \in Slot
    BY SlotFields DEF TypeOK
  <1>2. /\ v \in Slot /\ v.op = "audit" /\ v.job = slot[s].job /\ v.run = slot[s].run
        /\ v.dry = slot[s].dry /\ v.todo = slot[s].todo
        /\ v.ids = slot[s].ids /\ v.failed = slot[s].failed
    BY <1>1 DEF Slot, Run
  <1>3. Holds(s, v)
    BY DEF CreateEmployee, Holds
  <1> HIDE DEF v
  <1>4. PICK i \in slot[s].todo :
          /\ IsNext(slot[s], i)
          /\ Accepted(Made(s, i)) /\ records' = records \union {Made(s, i)}
    BY DEF CreateEmployee, Made
  <1> QED
    BY <1>2, <1>3, <1>4 DEF CreateEmployee

LEMMA CompleteDoes ==
  ASSUME TypeOK, NEW s \in Slots, Complete(s)
  PROVE  \E v \in Slot :
           /\ Holds(s, v)
           /\ \/ v = Idle
              \/ v.op = "mark_step" /\ v.job = slot[s].job /\ v.ids = slot[s].ids
                 /\ v.ids # {} /\ v.failed = slot[s].failed
  <1> DEFINE v == [slot[s] EXCEPT !.op = "mark_step"]
  <1>1. slot[s] \in Slot
    BY SlotFields DEF TypeOK
  <1>2. v \in Slot /\ v.op = "mark_step" /\ v.job = slot[s].job /\ v.ids = slot[s].ids
        /\ v.failed = slot[s].failed
    BY <1>1 DEF Slot, Run
  <1>3. Holds(s, Idle) \/ (slot[s].ids # {} /\ Holds(s, v))
    BY DEF Complete, Finish, Holds
  <1> QED
    BY <1>2, <1>3, IdleTyped

LEMMA ThrowDoes ==
  ASSUME TypeOK, NEW s \in Slots, Throw(s)
  PROVE  \E v \in Slot :
           /\ Holds(s, v)
           /\ v.op = "fail" /\ v.job = slot[s].job /\ v.ids = slot[s].ids
           /\ v.failed = slot[s].failed
  <1> DEFINE v == [slot[s] EXCEPT !.op = "fail"]
  <1>1. slot[s] \in Slot
    BY SlotFields DEF TypeOK
  <1>2. v \in Slot /\ v.op = "fail" /\ v.job = slot[s].job /\ v.ids = slot[s].ids
        /\ v.failed = slot[s].failed
    BY <1>1 DEF Slot, Run
  <1>3. Holds(s, v)
    BY DEF Throw, Holds
  <1> QED
    BY <1>2, <1>3

LEMMA DeleteDoes ==
  ASSUME TypeOK, NEW s \in Slots, DeleteRows(s)
  PROVE  \E v \in Slot :
           /\ Holds(s, v)
           /\ v.op = "mark_rolled_back" /\ v.job = slot[s].job /\ v.ids = {}
           /\ v.failed = slot[s].failed
  <1> DEFINE v == [slot[s] EXCEPT !.op = "mark_rolled_back", !.ids = {}]
  <1>1. slot[s] \in Slot
    BY SlotFields DEF TypeOK
  <1>2. v \in Slot /\ v.op = "mark_rolled_back" /\ v.job = slot[s].job /\ v.ids = {}
        /\ v.failed = slot[s].failed
    BY <1>1 DEF Slot, Request
  <1>3. Holds(s, v)
    BY DEF DeleteRows, Holds
  <1> QED
    BY <1>2, <1>3

-----------------------------------------------------------------------------
(* Types, rows and counts.                                                 *)

BaseInv == TypeOK /\ RowsInv /\ CountInv

\* What BaseInv says of a slot is about its value alone.
Sound(v) ==
  /\ v.failed <= Len(File[v.job])
  /\ v.op \in {"commit", "scan"} => v.ids = {} /\ v.failed = 0
  /\ v.op = "audit" => Kind[v.job] = "employees"
  /\ v.op \in {"import", "audit"} =>
       /\ v.todo \subseteq DOMAIN File[v.job]
       /\ \A r \in v.ids : r.job = v.job /\ r.run = v.run /\ r.at \notin v.todo
       /\ IsFiniteSet(v.ids)
       /\ v.dry => v.ids = {} /\ v.todo = {}
       /\ ~v.dry =>
            Cardinality(v.ids) + v.failed + Cardinality(v.todo) = Len(File[v.job])

SlotsSound == slot \in [Slots -> Slot] /\ \A s \in Slots : Sound(slot[s])

\* What it says of the jobs, and of the tables.
JobsSound ==
  /\ status \in [Jobs -> Status]
  /\ createdIds \in [Jobs -> SUBSET Record] /\ \A j \in Jobs : \A r \in createdIds[j] : r.job = j
  /\ failed \in [Jobs -> Nat] /\ \A j \in Jobs : failed[j] <= Len(File[j])
  /\ runs \in [Jobs -> Nat] /\ \A j \in Jobs : runs[j] <= MaxRuns[j]
  /\ \A j \in Jobs :
       createdIds[j] # {} => Cardinality(createdIds[j]) + failed[j] = Len(File[j])

TablesSound ==
  /\ records \subseteq Record /\ faulted \subseteq Record
  /\ \A r \in records \union faulted : r.at \in DOMAIN File[r.job]
  /\ \A x \in removed : \E j \in Jobs : \E i \in DOMAIN File[j] : x = <<Kind[j], File[j][i].key>>
  /\ {raced, broken, lost} \subseteq BOOLEAN

LEMMA BaseParts == BaseInv <=> SlotsSound /\ JobsSound /\ TablesSound
  BY DEF BaseInv, TypeOK, RowsInv, CountInv, SlotsSound, Sound, JobsSound, TablesSound

LEMMA BaseNext == SlotsSound' /\ JobsSound' /\ TablesSound' => BaseInv'
  BY DEF BaseInv, TypeOK, RowsInv, CountInv, SlotsSound, Sound, JobsSound, TablesSound

LEMMA JobsKept == JobsSound /\ UNCHANGED job => JobsSound'
  BY DEF JobsSound, job

LEMMA TablesKept ==
  ASSUME TablesSound, UNCHANGED <<records, removed, faulted>>, {raced', broken', lost'} \subseteq BOOLEAN
  PROVE  TablesSound'
  BY DEF TablesSound

LEMMA SlotsKept ==
  ASSUME SlotsSound, NEW s \in Slots, NEW v \in Slot, Holds(s, v), Sound(v)
  PROVE  SlotsSound'
  <1>1. slot' \in [Slots -> Slot] /\ slot'[s] = v /\ \A t \in Slots \ {s} : slot'[t] = slot[t]
    BY HoldsDoes DEF SlotsSound
  <1>2. \A t \in Slots : Sound(slot'[t])
    BY <1>1 DEF SlotsSound
  <1> QED
    BY <1>1, <1>2 DEF SlotsSound, Sound

LEMMA IdleSound == Sound(Idle)
  <1>1. Idle.job \in Jobs
    BY IdleTyped DEF Slot
  <1>2. Len(File[Idle.job]) \in Nat
    BY <1>1, Places
  <1> QED
    BY <1>2, IdleTyped DEF Sound

LEMMA FinishSound ==
  ASSUME SlotsSound, NEW s \in Slots, Finish(s)
  PROVE  SlotsSound'
  <1>1. Holds(s, Idle)
    BY FinishDoes
  <1> QED
    BY <1>1, IdleSound, IdleTyped, SlotsKept

LEMMA StartBase ==
  ASSUME BaseInv, NEW s \in Slots, Start(s)
  PROVE  BaseInv'
  <1>1. TypeOK /\ SlotsSound /\ JobsSound /\ TablesSound
    BY BaseParts DEF BaseInv
  <1>2. PICK j \in Jobs, v \in Slot :
          /\ Holds(s, v)
          /\ v.job = j /\ v.failed = 0
          /\ \/ v.op \in {"preview", "commit"} /\ v.ids = {}
             \/ v.op = "delete"
          /\ raced' = (raced \/ \E t \in Slots : slot[t].op \in Request /\ slot[t].job = j)
          /\ UNCHANGED <<job, records, removed, broken, lost, faulted>>
    BY <1>1, StartDoes
  <1>3. Sound(v)
    <2>1. Len(File[v.job]) \in Nat
      BY <1>2, Places
    <2> QED
      BY <1>2, <2>1 DEF Sound
  <1>4. SlotsSound'
    BY <1>1, <1>2, <1>3, SlotsKept
  <1>5. {raced', broken', lost'} \subseteq BOOLEAN
    BY <1>1, <1>2 DEF TablesSound
  <1>6. JobsSound' /\ TablesSound'
    BY <1>1, <1>2, <1>5, JobsKept, TablesKept
  <1> QED
    BY <1>4, <1>6, BaseNext

\* Steps that write a status and end their slot.
LEMMA CloseBase ==
  ASSUME BaseInv, NEW s \in Slots,
         \/ WritePreview(s) \/ WriteFailed(s) \/ WriteRolledBack(s)
         \/ MarkStep(s) \/ LoseRun(s) \/ RequestFails(s)
  PROVE  BaseInv'
  <1>1. TypeOK /\ SlotsSound /\ JobsSound /\ TablesSound
    BY BaseParts DEF BaseInv
  <1>2. Finish(s) /\ UNCHANGED <<createdIds, failed, runs, records, removed, raced, broken, faulted>>
    BY DEF WritePreview, WriteFailed, WriteRolledBack, MarkStep, LoseRun, RequestFails, job, history
  <1>3. lost' \in {lost, TRUE}
    BY DEF WritePreview, WriteFailed, WriteRolledBack, MarkStep, LoseRun, RequestFails, history
  <1>4. UNCHANGED status \/ \E to \in {"previewed", "failed", "rolled_back"} : SetStatus(slot[s].job, to)
    BY DEF WritePreview, WriteFailed, WriteRolledBack, MarkStep, LoseRun, RequestFails, job
  <1>5. status' \in [Jobs -> Status]
    BY <1>1, <1>4 DEF SetStatus, JobsSound, Status
  <1>6. JobsSound'
    BY <1>1, <1>2, <1>5 DEF JobsSound
  <1>7. TablesSound'
    BY <1>1, <1>2, <1>3 DEF TablesSound
  <1>8. SlotsSound'
    BY <1>1, <1>2, FinishSound
  <1> QED
    BY <1>6, <1>7, <1>8, BaseNext

LEMMA CommitBase ==
  ASSUME BaseInv, NEW s \in Slots, WriteCommit(s)
  PROVE  BaseInv'
  <1>1. TypeOK /\ SlotsSound /\ JobsSound /\ TablesSound
    BY BaseParts DEF BaseInv
  <1>2. PICK v \in Slot :
          Holds(s, v) /\ v.op = "scan" /\ v.job = slot[s].job /\ v.ids = slot[s].ids
          /\ v.failed = slot[s].failed
    BY <1>1, CommitDoes
  <1>3. Sound(v)
    BY <1>1, <1>2 DEF Sound, SlotsSound, WriteCommit
  <1>4. SlotsSound'
    BY <1>1, <1>2, <1>3, SlotsKept
  <1> DEFINE j == slot[s].job
  <1>5. j \in Jobs
    BY <1>1, SlotFields DEF SlotsSound
  <1> HIDE DEF j
  <1>6. /\ status' = [status EXCEPT ![j] = "running"]
        /\ runs' = [runs EXCEPT ![j] = @ + 1] /\ runs[j] < MaxRuns[j]
        /\ UNCHANGED <<createdIds, failed, records, removed, raced, broken, lost, faulted>>
    BY DEF WriteCommit, SetStatus, history, j
  <1>7. status' \in [Jobs -> Status]
    BY <1>1, <1>5, <1>6 DEF JobsSound, Status
  <1>8. runs' \in [Jobs -> Nat] /\ \A k \in Jobs : runs'[k] <= MaxRuns[k]
    <2>1. runs \in [Jobs -> Nat] /\ MaxRuns \in [Jobs -> Nat] /\ \A k \in Jobs : runs[k] <= MaxRuns[k]
      BY <1>1, ImportConstants DEF JobsSound
    <2>2. runs'[j] = runs[j] + 1 /\ \A k \in Jobs \ {j} : runs'[k] = runs[k]
      BY <1>5, <1>6, <2>1
    <2>3. runs'[j] \in Nat /\ runs'[j] <= MaxRuns[j]
      BY <1>5, <1>6, <2>1, <2>2
    <2>4. runs' \in [Jobs -> Nat]
      BY <1>5, <1>6, <2>1
    <2> QED
      BY <2>1, <2>2, <2>3, <2>4
  <1>9. JobsSound' /\ TablesSound'
    BY <1>1, <1>6, <1>7, <1>8 DEF JobsSound, TablesSound
  <1> QED
    BY <1>4, <1>9, BaseNext

LEMMA ScanBase ==
  ASSUME BaseInv, NEW s \in Slots, Scan(s)
  PROVE  BaseInv'
  <1>1. TypeOK /\ SlotsSound /\ JobsSound /\ TablesSound
    BY BaseParts DEF BaseInv
  <1> DEFINE j == slot[s].job
             dups == Duplicates(j)
  <1>2. PICK v \in Slot :
          /\ Holds(s, v)
          /\ v.op = "import" /\ v.job = j /\ v.ids = slot[s].ids
          /\ v.run = slot[s].run /\ v.dry = slot[s].dry
          /\ v.failed = Cardinality(dups)
          /\ v.todo = IF v.dry THEN {} ELSE DOMAIN File[j] \ dups
    BY <1>1, ScanDoes
  <1>3. slot[s].ids = {} /\ j \in Jobs
    BY <1>1, SlotFields DEF SlotsSound, Sound, Scan
  <1>4. /\ Cardinality(dups) \in 0..Len(File[j]) /\ Len(File[j]) \in Nat
        /\ Cardinality(DOMAIN File[j] \ dups) = Len(File[j]) - Cardinality(dups)
    BY <1>3, DuplicatesPlaced, Places
  <1>5. IsFiniteSet({}) /\ Cardinality({}) = 0
    BY FS_EmptySet
  <1> HIDE DEF dups, j
  <1>6. ~v.dry => Cardinality(v.ids) + v.failed + Cardinality(v.todo) = Len(File[v.job])
    <2>1. ASSUME ~v.dry PROVE Cardinality(v.todo) = Len(File[j]) - Cardinality(dups)
      BY <1>2, <1>4, <2>1
    <2>2. Cardinality(v.ids) = 0 /\ v.failed = Cardinality(dups) /\ v.job = j
      BY <1>2, <1>3, <1>5
    <2> QED
      BY <1>4, <2>1, <2>2
  <1>7. v.failed <= Len(File[v.job])
    BY <1>2, <1>4
  <1>8. v.todo \subseteq DOMAIN File[v.job] /\ v.ids = {} /\ (v.dry => v.todo = {})
    BY <1>2, <1>3
  <1>9. Sound(v)
    BY <1>2, <1>5, <1>6, <1>7, <1>8 DEF Sound
  <1>10. SlotsSound'
    BY <1>1, <1>2, <1>9, SlotsKept
  <1>11. UNCHANGED <<job, records, removed, raced, broken, lost, faulted>>
    BY DEF Scan, history
  <1>12. JobsSound' /\ TablesSound'
    BY <1>1, <1>11, JobsKept DEF TablesSound
  <1> QED
    BY <1>10, <1>12, BaseNext

\* One row less is left, and one more is created or failed.
LEMMA PassBase ==
  ASSUME BaseInv, NEW s \in Slots, Pass(s)
  PROVE  BaseInv'
  <1>1. TypeOK /\ SlotsSound /\ JobsSound /\ TablesSound
    BY BaseParts DEF BaseInv
  <1>2. PICK i \in slot[s].todo, v \in Slot :
          /\ Holds(s, v) /\ Passed(s, i, v)
          /\ v.op = "import" /\ v.job = slot[s].job
          /\ v.run = slot[s].run /\ v.dry = slot[s].dry
          /\ v.todo = slot[s].todo \ {i}
    BY <1>1, PassDoes
  <1>0. \/ v.ids = slot[s].ids \union {Made(s, i)} /\ v.failed = slot[s].failed
        \/ v.ids = slot[s].ids /\ v.failed = slot[s].failed + 1
    BY <1>2 DEF Passed
  <1> DEFINE j == slot[s].job
             m == Made(s, i)
             old == Cardinality(slot[s].ids)
             left == Cardinality(slot[s].todo)
  <1>3. j \in Jobs /\ slot[s].todo \subseteq Nat /\ slot[s].failed \in Nat
    BY <1>1, SlotFields DEF SlotsSound
  <1>4. /\ slot[s].todo \subseteq DOMAIN File[j]
        /\ \A r \in slot[s].ids : r.job = j /\ r.run = slot[s].run /\ r.at \notin slot[s].todo
        /\ IsFiniteSet(slot[s].ids)
        /\ slot[s].dry => slot[s].ids = {} /\ slot[s].todo = {}
        /\ ~slot[s].dry => old + slot[s].failed + left = Len(File[j])
    BY <1>1, <1>2 DEF SlotsSound, Sound, Passed
  <1>5. ~slot[s].dry /\ old + slot[s].failed + left = Len(File[j])
    BY <1>2, <1>4
  <1>6. m \in Record /\ m.job = j /\ m.run = slot[s].run /\ m.at = i
    BY <1>1, <1>2, <1>3, MadeTyped
  <1>7. m \notin slot[s].ids
    BY <1>0, <1>2, <1>4, <1>6
  <1>8. IsFiniteSet(slot[s].todo) /\ left \in Nat /\ old \in Nat
    BY <1>3, <1>4, Places, FS_Subset, FS_CardinalityType
  <1>9. Cardinality(v.todo) = left - 1 /\ left - 1 \in Nat
    <2> DEFINE T == slot[s].todo
    <2>1. IsFiniteSet(T) /\ i \in T /\ v.todo = T \ {i}
      BY <1>2, <1>8
    <2> HIDE DEF T
    <2>2. Cardinality(v.todo) = Cardinality(T) - 1 /\ IsFiniteSet(v.todo)
      BY <2>1, FS_RemoveElement
    <2> QED
      BY <2>2, FS_CardinalityType DEF T
  <1>10. /\ IsFiniteSet(v.ids)
         /\ \/ Cardinality(v.ids) = old + 1 /\ v.failed = slot[s].failed
            \/ Cardinality(v.ids) = old /\ v.failed = slot[s].failed + 1
    BY <1>0, <1>4, <1>7, FS_AddElement
  <1>11. \A r \in v.ids : r.job = v.job /\ r.run = v.run /\ r.at \notin v.todo
    BY <1>0, <1>2, <1>4, <1>6
  <1> DEFINE size == Len(File[j])
             ends == Cardinality(v.ids)
  <1>12. size \in Nat
    BY <1>3, Places
  <1>13. File[v.job] = File[j] /\ ~v.dry /\ v.todo \subseteq DOMAIN File[v.job]
    BY <1>2, <1>4, <1>5
  <1>14. ends + v.failed + (left - 1) = size /\ v.failed <= size
    <2>0. old + slot[s].failed + left = size
      BY <1>5
    <2> HIDE DEF size, ends, old, left
    <2>1. CASE ends = old + 1 /\ v.failed = slot[s].failed
      BY <1>3, <1>8, <1>9, <1>12, <2>0, <2>1
    <2>2. CASE ends = old /\ v.failed = slot[s].failed + 1
      BY <1>3, <1>8, <1>9, <1>12, <2>0, <2>2
    <2> QED
      BY <1>10, <2>1, <2>2 DEF ends
  <1>15. Sound(v)
    BY <1>2, <1>9, <1>10, <1>11, <1>13, <1>14 DEF Sound
  <1>16. SlotsSound'
    BY <1>1, <1>2, <1>15, SlotsKept
  <1>17. UNCHANGED <<job, removed, raced, broken, lost>>
    BY DEF Pass, ImportAsset, AuditEmployee, RefuseRow, RowFails, history
  <1>18. /\ records' \subseteq records \union {m}
         /\ faulted' \subseteq faulted \union {m}
    BY <1>2 DEF Passed
  <1>19. m.at \in DOMAIN File[m.job]
    BY <1>2, <1>4, <1>6
  <1> HIDE DEF m
  <1>20. /\ records' \subseteq Record /\ faulted' \subseteq Record
         /\ \A r \in records' \union faulted' : r.at \in DOMAIN File[r.job]
    BY <1>1, <1>6, <1>18, <1>19 DEF TablesSound
  <1>21. JobsSound' /\ TablesSound'
    BY <1>1, <1>17, <1>20, JobsKept DEF TablesSound
  <1> QED
    BY <1>16, <1>21, BaseNext

\* An employee is there, and nothing is counted yet.
LEMMA CreateBase ==
  ASSUME BaseInv, NEW s \in Slots, CreateEmployee(s)
  PROVE  BaseInv'
  <1>1. TypeOK /\ SlotsSound /\ JobsSound /\ TablesSound
    BY BaseParts DEF BaseInv
  <1>2. PICK i \in slot[s].todo, v \in Slot :
          /\ Holds(s, v)
          /\ slot[s].op = "import" /\ Kind[slot[s].job] = "employees"
          /\ records' = records \union {Made(s, i)}
          /\ UNCHANGED <<job, history>>
          /\ v.op = "audit" /\ v.job = slot[s].job /\ v.run = slot[s].run
          /\ v.dry = slot[s].dry /\ v.todo = slot[s].todo
          /\ v.ids = slot[s].ids /\ v.failed = slot[s].failed
    BY <1>1, CreateDoes
  <1>3. Sound(slot[s]) /\ slot[s].job \in Jobs /\ slot[s].todo \subseteq Nat
    BY <1>1, SlotFields DEF SlotsSound
  <1>4. Sound(v)
    BY <1>2, <1>3 DEF Sound
  <1>5. SlotsSound'
    BY <1>1, <1>2, <1>4, SlotsKept
  <1> DEFINE m == Made(s, i)
  <1>6. m \in Record /\ m.job = slot[s].job /\ m.at = i
    BY <1>1, <1>2, <1>3, MadeTyped
  <1>7. m.at \in DOMAIN File[m.job]
    BY <1>2, <1>3, <1>6 DEF Sound
  <1> HIDE DEF m
  <1>8. records' = records \union {m} /\ UNCHANGED <<removed, raced, broken, lost, faulted>>
    BY <1>2 DEF history, m
  <1>9. JobsSound' /\ TablesSound'
    BY <1>1, <1>2, <1>6, <1>7, <1>8, JobsKept DEF TablesSound
  <1> QED
    BY <1>5, <1>9, BaseNext

LEMMA CompleteBase ==
  ASSUME BaseInv, NEW s \in Slots, Complete(s)
  PROVE  BaseInv'
  <1>1. TypeOK /\ SlotsSound /\ JobsSound /\ TablesSound
    BY BaseParts DEF BaseInv
  <1>2. PICK v \in Slot :
          /\ Holds(s, v)
          /\ \/ v = Idle
             \/ v.op = "mark_step" /\ v.job = slot[s].job /\ v.ids = slot[s].ids
                /\ v.ids # {} /\ v.failed = slot[s].failed
    BY <1>1, CompleteDoes
  <1>3. Sound(slot[s]) /\ slot[s].op = "import" /\ slot[s].todo = {}
    BY <1>1 DEF SlotsSound, Complete
  <1>4. Sound(v)
    BY <1>2, <1>3, IdleSound DEF Sound
  <1>5. SlotsSound'
    BY <1>1, <1>2, <1>4, SlotsKept
  <1> DEFINE j == slot[s].job
             ids == slot[s].ids
             n == slot[s].failed
  <1>6. j \in Jobs /\ ids \subseteq Record /\ n \in Nat /\ n <= Len(File[j])
    BY <1>1, <1>3, SlotFields DEF SlotsSound, Sound
  <1>7. \A r \in ids : r.job = j
    BY <1>3 DEF Sound
  <1>8. ids # {} => Cardinality(ids) + n = Len(File[j])
    <2> SUFFICES ASSUME ids # {} PROVE Cardinality(ids) + n = Len(File[j])
      OBVIOUS
    <2>1. IsFiniteSet(ids) /\ Cardinality(ids) + n + Cardinality({}) = Len(File[j])
      BY <1>3 DEF Sound
    <2>2. Cardinality(ids) \in Nat /\ Cardinality({}) = 0
      BY <2>1, FS_CardinalityType, FS_EmptySet
    <2>3. Cardinality(ids) + n + 0 = Len(File[j])
      BY <2>1, <2>2
    <2> QED
      BY <1>6, <2>2, <2>3
  <1> HIDE DEF j, ids, n
  <1>9. /\ status' = [status EXCEPT ![j] = "completed"]
        /\ createdIds' = [createdIds EXCEPT ![j] = ids]
        /\ failed' = [failed EXCEPT ![j] = n]
        /\ UNCHANGED <<runs, records, removed, raced, broken, lost, faulted>>
    BY DEF Complete, SetStatus, history, j, ids, n
  <1>10. /\ status' \in [Jobs -> Status]
         /\ createdIds' \in [Jobs -> SUBSET Record] /\ failed' \in [Jobs -> Nat]
    BY <1>1, <1>6, <1>9 DEF JobsSound, Status
  <1>11. /\ createdIds'[j] = ids /\ failed'[j] = n
         /\ \A k \in Jobs \ {j} : createdIds'[k] = createdIds[k] /\ failed'[k] = failed[k]
    BY <1>1, <1>6, <1>9 DEF JobsSound
  <1>12. JobsSound'
    BY <1>1, <1>6, <1>7, <1>8, <1>9, <1>10, <1>11 DEF JobsSound
  <1>13. TablesSound'
    BY <1>1, <1>9 DEF TablesSound
  <1> QED
    BY <1>5, <1>12, <1>13, BaseNext

LEMMA ThrowBase ==
  ASSUME BaseInv, NEW s \in Slots, Throw(s)
  PROVE  BaseInv'
  <1>1. TypeOK /\ SlotsSound /\ JobsSound /\ TablesSound
    BY BaseParts DEF BaseInv
  <1>2. PICK v \in Slot :
          /\ Holds(s, v)
          /\ v.op = "fail" /\ v.job = slot[s].job /\ v.ids = slot[s].ids
          /\ v.failed = slot[s].failed
    BY <1>1, ThrowDoes
  <1>3. Sound(v)
    BY <1>1, <1>2 DEF Sound, SlotsSound
  <1>4. SlotsSound'
    BY <1>1, <1>2, <1>3, SlotsKept
  <1>5. UNCHANGED <<job, records, removed, raced, lost, faulted>> /\ broken' = (broken \/ slot[s].ids # {})
    BY DEF Throw
  <1>6. {raced', broken', lost'} \subseteq BOOLEAN
    BY <1>1, <1>5 DEF TablesSound
  <1>7. JobsSound' /\ TablesSound'
    BY <1>1, <1>5, <1>6, JobsKept, TablesKept
  <1> QED
    BY <1>4, <1>7, BaseNext

\* A roll-back takes away keys of rows that were made of the files.
LEMMA DeleteBase ==
  ASSUME BaseInv, NEW s \in Slots, DeleteRows(s)
  PROVE  BaseInv'
  <1>1. TypeOK /\ SlotsSound /\ JobsSound /\ TablesSound
    BY BaseParts DEF BaseInv
  <1>2. PICK v \in Slot :
          /\ Holds(s, v)
          /\ v.op = "mark_rolled_back" /\ v.job = slot[s].job /\ v.ids = {}
          /\ v.failed = slot[s].failed
    BY <1>1, DeleteDoes
  <1>3. Sound(v)
    BY <1>1, <1>2 DEF Sound, SlotsSound
  <1>4. SlotsSound'
    BY <1>1, <1>2, <1>3, SlotsKept
  <1>5. /\ UNCHANGED <<job, raced, broken, lost, faulted>>
        /\ records' \subseteq records
        /\ \A x \in removed' : x \in removed \/ \E r \in records : x = KeyOf(r)
    BY DEF DeleteRows
  <1>6. \A r \in records : r.job \in Jobs
    BY <1>1 DEF TablesSound, Record
  <1>7. \A r \in records : \E j \in Jobs : \E i \in DOMAIN File[j] :
          KeyOf(r) = <<Kind[j], File[j][i].key>>
    BY <1>1, <1>6 DEF TablesSound, KeyOf, Row
  <1>8. \A x \in removed' : \E j \in Jobs : \E i \in DOMAIN File[j] : x = <<Kind[j], File[j][i].key>>
    BY <1>1, <1>5, <1>7 DEF TablesSound
  <1>9. JobsSound' /\ TablesSound'
    BY <1>1, <1>5, <1>8, JobsKept DEF TablesSound
  <1> QED
    BY <1>4, <1>9, BaseNext

LEMMA CrashBase ==
  ASSUME BaseInv, Crash
  PROVE  BaseInv'
  <1>1. SlotsSound /\ JobsSound /\ TablesSound
    BY BaseParts
  <1>2. slot' = [s \in Slots |-> Idle]
    BY DEF Crash
  <1>3. slot' \in [Slots -> Slot] /\ \A s \in Slots : slot'[s] = Idle
    BY <1>2, IdleTyped
  <1>4. \A s \in Slots : Sound(slot'[s])
    BY <1>3, IdleSound
  <1>5. SlotsSound'
    BY <1>3, <1>4 DEF SlotsSound, Sound
  <1>6. UNCHANGED <<job, records, removed, raced, faulted>> /\ {broken', lost'} \subseteq BOOLEAN
    BY DEF Crash
  <1>7. {raced', broken', lost'} \subseteq BOOLEAN
    BY <1>1, <1>6 DEF TablesSound
  <1>8. JobsSound' /\ TablesSound'
    BY <1>1, <1>6, <1>7, JobsKept, TablesKept
  <1> QED
    BY <1>5, <1>8, BaseNext

LEMMA BaseInit == Init => BaseInv
  <1> SUFFICES ASSUME Init PROVE BaseInv
    OBVIOUS
  <1>1. slot \in [Slots -> Slot] /\ \A s \in Slots : slot[s] = Idle
    BY IdleTyped DEF Init
  <1>2. SlotsSound
    BY <1>1, IdleSound DEF SlotsSound
  <1>3. \A j \in Jobs : 0 <= Len(File[j]) /\ 0 <= MaxRuns[j]
    BY Places, ImportConstants
  <1>4. JobsSound
    BY <1>3 DEF Init, JobsSound, Status
  <1>5. TablesSound
    BY DEF Init, TablesSound
  <1> QED
    BY <1>2, <1>4, <1>5, BaseParts

LEMMA BaseStep == BaseInv /\ [Next]_vars => BaseInv'
  <1> SUFFICES ASSUME BaseInv, [Next]_vars PROVE BaseInv'
    OBVIOUS
  <1>1. CASE UNCHANGED vars
    BY <1>1 DEF vars, job, history, BaseInv, TypeOK, RowsInv, CountInv
  <1>2. CASE Crash
    BY <1>2, CrashBase
  <1>3. ASSUME NEW s \in Slots, Start(s) PROVE BaseInv'
    BY <1>3, StartBase
  <1>4. ASSUME NEW s \in Slots, Continue(s) PROVE BaseInv'
    BY <1>4, CloseBase, CommitBase, ScanBase, PassBase, CreateBase, CompleteBase, ThrowBase, DeleteBase
       DEF Continue, Pass
  <1> QED
    BY <1>1, <1>2, <1>3, <1>4 DEF Next

\* Types: counts are about the rows of the file, ids about rows the job made.
THEOREM TypeCorrect == Spec => []TypeOK
  <1>1. BaseInv => TypeOK
    BY DEF BaseInv
  <1> QED
    BY <1>1, BaseInit, BaseStep, PTL DEF Spec

\* Whatever overlaps, fails or is tried again, and for files of any length, a
\* completed job that created rows reports every row of its file once.
THEOREM EveryRowReported == Spec => []CountsAddUp
  <1>1. BaseInv => CountsAddUp
    BY DEF BaseInv, CountInv, CountsAddUp
  <1> QED
    BY <1>1, BaseInit, BaseStep, PTL DEF Spec

-----------------------------------------------------------------------------
(* Completion imports every key.                                           *)

Seen == Known \union removed

\* What PlacedInv says of a slot that holds v, if the keys in seen are in the
\* tables or were removed and the calls for the rows in flt failed.
Placed(v, seen, flt) ==
  /\ (v.op \in {"import", "audit"} /\ ~v.dry) =>
       \A i \in DOMAIN File[v.job] :
         Importable(v.job, i) =>
           \/ <<Kind[v.job], File[v.job][i].key>> \in seen
           \/ \E r \in flt :
                r.job = v.job /\ r.run = v.run /\ File[v.job][r.at].key = File[v.job][i].key
           \/ \E e \in v.todo : File[v.job][e].key = File[v.job][i].key
  /\ v.op = "audit" =>
       \A i \in v.todo : IsNext(v, i) => <<Kind[v.job], File[v.job][i].key>> \in seen

LEMMA PlacedParts ==
  /\ PlacedInv <=> \A s \in Slots : Placed(slot[s], Seen, faulted)
  /\ (\A s \in Slots : Placed(slot'[s], Seen', faulted')) => PlacedInv'
  BY DEF PlacedInv, Placed, Seen, KeyFaulted, IsNext

\* A key leaves the tables only for removed, and what failed has failed.
LEMMA SeenGrows ==
  ASSUME [Next]_vars
  PROVE  Seen \subseteq Seen' /\ faulted \subseteq faulted'
  <1>1. CASE records \subseteq records' /\ removed' = removed /\ faulted \subseteq faulted'
    BY <1>1 DEF Seen, Known, KeyOf, Row
  <1> DEFINE Grows == Seen \subseteq Seen' /\ faulted \subseteq faulted'
  <1>2. ASSUME NEW s \in Slots, DeleteRows(s) PROVE Grows
    BY <1>2 DEF DeleteRows, Seen, Known, KeyOf, Row
  <1>3. CASE UNCHANGED vars
    BY <1>1, <1>3 DEF vars, history
  <1>4. CASE Crash
    BY <1>1, <1>4 DEF Crash
  <1>5. ASSUME NEW s \in Slots, Start(s) PROVE Grows
    BY <1>1, <1>5 DEF Start, BeginPreview, BeginCommit, BeginRollback, Begin
  <1>6. ASSUME NEW s \in Slots, Continue(s) PROVE Grows
    <2>1. CASE WritePreview(s) \/ WriteCommit(s) \/ Scan(s) \/ Complete(s) \/ MarkStep(s)
      BY <1>1, <2>1 DEF WritePreview, WriteCommit, Scan, Complete, MarkStep, history
    <2>2. CASE Throw(s) \/ WriteFailed(s) \/ LoseRun(s) \/ RequestFails(s) \/ WriteRolledBack(s)
      BY <1>1, <2>2 DEF Throw, WriteFailed, LoseRun, RequestFails, WriteRolledBack, history
    <2>3. CASE ImportAsset(s) \/ CreateEmployee(s)
      BY <1>1, <2>3 DEF ImportAsset, CreateEmployee, history
    <2>4. CASE AuditEmployee(s) \/ RefuseRow(s) \/ RowFails(s)
      BY <1>1, <2>4 DEF AuditEmployee, RefuseRow, RowFails, history
    <2> QED
      BY <1>2, <1>6, <2>1, <2>2, <2>3, <2>4 DEF Continue
  <1> QED
    BY <1>3, <1>4, <1>5, <1>6 DEF Next

\* Of the places of a key there is a first one.
LEMMA FirstPlace ==
  ASSUME NEW S \in SUBSET Nat, S # {}
  PROVE  \E m \in S : \A n \in S : m <= n
  <1> DEFINE Less == {p \in Nat \X Nat : p[1] < p[2]}
  <1>1. IsWellFoundedOn(Less, Nat)
    BY NatLessThanWellFounded DEF OpToRel
  <1> HIDE DEF Less
  <1>2. PICK m \in S : \A n \in S : <<n, m>> \notin Less
    BY <1>1, WFMin
  <1>3. \A n \in S : ~(n < m)
    BY <1>2 DEF Less
  <1> QED
    BY <1>3

LEMMA PlacedStays ==
  ASSUME NEW v, NEW seen, NEW more, NEW flt, NEW flu,
         seen \subseteq more, flt \subseteq flu, Placed(v, seen, flt)
  PROVE  Placed(v, more, flu)
  BY DEF Placed

\* After the scan the first place of a key is to be imported, if the key is new.
LEMMA ScanPlaces ==
  ASSUME TypeOK, NEW s \in Slots, Scan(s), NEW v \in Slot,
         v.op = "import", v.job = slot[s].job,
         v.todo = IF v.dry THEN {} ELSE DOMAIN File[slot[s].job] \ Duplicates(slot[s].job)
  PROVE  Placed(v, Seen, faulted)
  <1> DEFINE j == slot[s].job
  <1>1. j \in Jobs
    BY SlotFields DEF TypeOK
  <1> SUFFICES ASSUME ~v.dry, NEW i \in DOMAIN File[j], Importable(j, i),
                      <<Kind[j], File[j][i].key>> \notin Seen
               PROVE  \E e \in v.todo : File[j][e].key = File[j][i].key
    BY DEF Placed
  <1> DEFINE same == {e \in DOMAIN File[j] : File[j][e].key = File[j][i].key}
  <1>2. DOMAIN File[j] \subseteq Nat /\ DOMAIN File[j] = 1..Len(File[j]) /\ Len(File[j]) \in Nat
    BY <1>1, Places
  <1>3. same \in SUBSET Nat /\ same # {}
    BY <1>2
  <1>4. PICK m \in same : \A n \in same : m <= n
    BY <1>3, FirstPlace
  <1>5. m \in DOMAIN File[j] /\ File[j][m].key = File[j][i].key
    OBVIOUS
  <1>6. \A e \in 1..(m - 1) : File[j][e].key # File[j][m].key
    <2> SUFFICES ASSUME NEW e \in 1..(m - 1), File[j][e].key = File[j][m].key PROVE FALSE
      OBVIOUS
    <2>1. m \in 1..Len(File[j])
      BY <1>2, <1>5
    <2>2. e \in 1..Len(File[j]) /\ e < m
      BY <1>2, <2>1
    <2>3. e \in same
      BY <1>2, <1>5, <2>2
    <2>4. m <= e
      BY <1>4, <2>3
    <2>5. m \in Nat /\ e \in Nat
      BY <1>2, <2>1, <2>2
    <2> QED
      BY <2>2, <2>4, <2>5
  <1>7. <<Kind[j], File[j][m].key>> \notin Known
    BY <1>5 DEF Seen
  <1>8. m \notin Duplicates(j)
    BY <1>6, <1>7 DEF Duplicates
  <1> QED
    BY <1>5, <1>8

\* Of the rows that are left, one is next.
LEMMA OneIsNext ==
  ASSUME NEW v \in Slot, NEW i \in v.todo, NEW k \in v.todo, IsNext(v, i), IsNext(v, k)
  PROVE  i = k
  <1>1. v.todo \subseteq Nat
    BY DEF Slot
  <1>2. i <= k /\ k <= i
    BY DEF IsNext
  <1> QED
    BY <1>1, <1>2

\* When a run is done with a row with an importable key, its key is in the tables
\* or a call for it failed.
LEMMA PassPlaces ==
  ASSUME BaseInv, NEW s \in Slots, Pass(s), Placed(slot[s], Seen, faulted),
         Seen \subseteq Seen', faulted \subseteq faulted',
         NEW i \in slot[s].todo, IsNext(slot[s], i), NEW v \in Slot, Passed(s, i, v),
         v.op = "import", v.job = slot[s].job, v.run = slot[s].run, v.dry = slot[s].dry,
         v.todo = slot[s].todo \ {i}
  PROVE  Placed(v, Seen', faulted')
  <1> DEFINE j == slot[s].job
             m == Made(s, i)
             Faulted(h) == \E r \in faulted' :
               r.job = j /\ r.run = slot[s].run /\ File[j][r.at].key = File[j][h].key
  <1>1. TypeOK /\ SlotsSound
    BY BaseParts DEF BaseInv
  <1>2. /\ j \in Jobs /\ slot[s].todo \subseteq Nat /\ slot[s].todo \subseteq DOMAIN File[j]
        /\ slot[s].op \in {"import", "audit"}
    BY <1>1, SlotFields DEF SlotsSound, Sound, Passed
  <1>3. m \in Record /\ m.job = j /\ m.run = slot[s].run /\ m.at = i
    BY <1>1, <1>2, MadeTyped
  <1> SUFFICES ASSUME ~v.dry, NEW h \in DOMAIN File[j], Importable(j, h)
               PROVE  \/ <<Kind[j], File[j][h].key>> \in Seen'
                      \/ Faulted(h)
                      \/ \E e \in v.todo : File[j][e].key = File[j][h].key
    BY DEF Placed
  <1>4. \/ <<Kind[j], File[j][h].key>> \in Seen
        \/ \E r \in faulted :
             r.job = j /\ r.run = slot[s].run /\ File[j][r.at].key = File[j][h].key
        \/ \E e \in slot[s].todo : File[j][e].key = File[j][h].key
    BY <1>2 DEF Placed
  <1>5. CASE File[j][i].key # File[j][h].key
    BY <1>4, <1>5
  <1>6. CASE File[j][i].key = File[j][h].key
    <2>1. File[j][i].valid /\ File[j][i].key # NoKey
      BY <1>2, <1>6 DEF Importable
    <2>2. KeyOf(m) = <<Kind[j], File[j][h].key>>
      BY <1>3, <1>6 DEF KeyOf, Row
    <2>3. Accepted(m) <=> KeyOf(m) \notin Known
      BY <1>3, <2>1 DEF Accepted, Row
    <2>4. CASE Accepted(m) /\ records' = records \union {m}
      <3>1. KeyOf(m) \in Known'
        BY <2>4 DEF Known, KeyOf, Row
      <3> QED
        BY <2>2, <3>1 DEF Seen
    <2>5. CASE slot[s].op = "audit" /\ faulted' = faulted
      BY <1>6, <2>5 DEF Placed
    <2>6. CASE ~Accepted(m)
      BY <2>2, <2>3, <2>6 DEF Seen
    <2>7. CASE faulted' = faulted \union {m}
      BY <1>3, <1>6, <2>7
    <2> QED
      BY <2>4, <2>5, <2>6, <2>7 DEF Passed
  <1> QED
    BY <1>5, <1>6

\* An employee that waits for its audit entry is in the table.
LEMMA CreatePlaces ==
  ASSUME BaseInv, NEW s \in Slots, slot[s].op = "import", Placed(slot[s], Seen, faulted),
         Seen \subseteq Seen', faulted \subseteq faulted',
         NEW i \in slot[s].todo, IsNext(slot[s], i), NEW v \in Slot,
         records' = records \union {Made(s, i)},
         v.op = "audit", v.job = slot[s].job, v.run = slot[s].run, v.dry = slot[s].dry,
         v.todo = slot[s].todo
  PROVE  Placed(v, Seen', faulted')
  <1>1. slot[s] \in Slot /\ TypeOK
    BY SlotFields DEF BaseInv, TypeOK
  <1>2. \A k \in v.todo : IsNext(v, k) => k = i
    BY <1>1, OneIsNext DEF IsNext
  <1>3. KeyOf(Made(s, i)) \in Seen'
    BY DEF Seen, Known, KeyOf, Row
  <1>4. KeyOf(Made(s, i)) = <<Kind[v.job], File[v.job][i].key>>
    BY DEF Made, RecordOf, KeyOf, Row
  <1>5. \A k \in v.todo : IsNext(v, k) => <<Kind[v.job], File[v.job][k].key>> \in Seen'
    BY <1>2, <1>3, <1>4
  <1> QED
    BY <1>5 DEF Placed

\* A slot that comes to hold v, about which all is well, spoils nothing.
LEMMA PlacedKept ==
  ASSUME TypeOK, PlacedInv, NEW s \in Slots, NEW v \in Slot, Holds(s, v),
         Seen \subseteq Seen', faulted \subseteq faulted', Placed(v, Seen', faulted')
  PROVE  PlacedInv'
  <1>1. slot'[s] = v /\ \A t \in Slots \ {s} : slot'[t] = slot[t]
    BY HoldsDoes DEF TypeOK
  <1>2. \A t \in Slots : Placed(slot[t], Seen', faulted')
    BY PlacedParts, PlacedStays
  <1>3. \A t \in Slots : Placed(slot'[t], Seen', faulted')
    BY <1>1, <1>2
  <1> QED
    BY <1>3, PlacedParts

LEMMA PlacedStep == BaseInv /\ PlacedInv /\ [Next]_vars => PlacedInv'
  <1> SUFFICES ASSUME BaseInv, PlacedInv, [Next]_vars PROVE PlacedInv'
    OBVIOUS
  <1>1. TypeOK /\ Seen \subseteq Seen' /\ faulted \subseteq faulted'
    BY SeenGrows DEF BaseInv
  <1>2. \A v : v.op \notin {"import", "audit"} => Placed(v, Seen', faulted')
    BY DEF Placed
  <1>3. ASSUME NEW s \in Slots, NEW v \in Slot, Holds(s, v), v.op \notin {"import", "audit"}
        PROVE  PlacedInv'
    BY <1>1, <1>2, <1>3, PlacedKept
  <1>4. CASE UNCHANGED vars
    <2>1. slot' = slot /\ Seen' = Seen /\ faulted' = faulted
      BY <1>4 DEF vars, history, Seen, Known, KeyOf, Row
    <2> QED
      BY <2>1, PlacedParts
  <1>5. CASE Crash
    <2>1. \A s \in Slots : slot'[s] = Idle
      BY <1>5 DEF Crash
    <2>2. \A s \in Slots : Placed(slot'[s], Seen', faulted')
      BY <1>2, <2>1, IdleTyped
    <2> QED
      BY <2>2, PlacedParts
  <1>6. ASSUME NEW s \in Slots, Start(s) PROVE PlacedInv'
    <2>1. \E v \in Slot : Holds(s, v) /\ v.op \in {"preview", "commit", "delete"}
      BY <1>1, <1>6, StartDoes
    <2> QED
      BY <1>3, <2>1
  <1>7. ASSUME NEW s \in Slots, Finish(s) PROVE PlacedInv'
    BY <1>3, <1>7, FinishDoes, IdleTyped
  <1>8. ASSUME NEW s \in Slots, Continue(s) PROVE PlacedInv'
    <2>1. CASE \/ WritePreview(s) \/ MarkStep(s) \/ WriteFailed(s) \/ LoseRun(s)
               \/ RequestFails(s) \/ WriteRolledBack(s)
      BY <1>7, <2>1 DEF WritePreview, MarkStep, WriteFailed, LoseRun, RequestFails, WriteRolledBack
    <2>2. CASE WriteCommit(s)
      BY <1>1, <1>3, <2>2, CommitDoes
    <2>3. CASE Complete(s)
      BY <1>1, <1>3, <2>3, CompleteDoes, IdleTyped
    <2>4. CASE Throw(s)
      BY <1>1, <1>3, <2>4, ThrowDoes
    <2>5. CASE DeleteRows(s)
      BY <1>1, <1>3, <2>5, DeleteDoes
    <2>6. CASE Scan(s)
      <3>1. PICK v \in Slot :
              /\ Holds(s, v)
              /\ v.op = "import" /\ v.job = slot[s].job
              /\ v.todo = IF v.dry THEN {} ELSE DOMAIN File[slot[s].job] \ Duplicates(slot[s].job)
        BY <1>1, <2>6, ScanDoes
      <3>2. Placed(v, Seen, faulted)
        BY <1>1, <2>6, <3>1, ScanPlaces
      <3>3. Placed(v, Seen', faulted')
        BY <1>1, <3>2, PlacedStays
      <3> QED
        BY <1>1, <3>1, <3>3, PlacedKept
    <2>7. CASE Pass(s)
      <3>1. PICK i \in slot[s].todo, v \in Slot :
              /\ Holds(s, v) /\ IsNext(slot[s], i) /\ Passed(s, i, v)
              /\ v.op = "import" /\ v.job = slot[s].job
              /\ v.run = slot[s].run /\ v.dry = slot[s].dry
              /\ v.todo = slot[s].todo \ {i}
        BY <1>1, <2>7, PassDoes
      <3>2. Placed(slot[s], Seen, faulted)
        BY PlacedParts
      <3>3. Placed(v, Seen', faulted')
        BY <1>1, <2>7, <3>1, <3>2, PassPlaces
      <3> QED
        BY <1>1, <3>1, <3>3, PlacedKept
    <2>8. CASE CreateEmployee(s)
      <3>1. PICK i \in slot[s].todo, v \in Slot :
              /\ Holds(s, v) /\ IsNext(slot[s], i) /\ slot[s].op = "import"
              /\ records' = records \union {Made(s, i)}
              /\ v.op = "audit" /\ v.job = slot[s].job /\ v.run = slot[s].run
              /\ v.dry = slot[s].dry /\ v.todo = slot[s].todo
        BY <1>1, <2>8, CreateDoes
      <3>2. Placed(slot[s], Seen, faulted)
        BY PlacedParts
      <3>3. Placed(v, Seen', faulted')
        BY <1>1, <3>1, <3>2, CreatePlaces
      <3> QED
        BY <1>1, <3>1, <3>3, PlacedKept
    <2> QED
      BY <1>8, <2>1, <2>2, <2>3, <2>4, <2>5, <2>6, <2>7, <2>8 DEF Continue, Pass
  <1> QED
    BY <1>4, <1>5, <1>6, <1>8 DEF Next

\* Whatever overlaps, fails or is tried again, and for files of any length: when a
\* run completes, each key of its file whose rows are acceptable is in the table,
\* unless a roll-back took it away or a call for a row with that key failed in
\* this run.
THEOREM KeysAreImported == Spec => CompletionImportsAll
  <1> DEFINE Inv == BaseInv /\ PlacedInv
             Imported ==
               \A s \in Slots :
                 (/\ slot[s].op = "import" /\ slot[s].todo = {} /\ ~slot[s].dry
                  /\ status[slot[s].job] # "completed" /\ status'[slot[s].job] = "completed")
                 => LET j == slot[s].job
                    IN \A i \in DOMAIN File[j] :
                         Importable(j, i) =>
                           \/ <<Kind[j], File[j][i].key>> \in Known \union removed
                           \/ KeyFaulted(j, slot[s].run, i)
  <1>1. Init => Inv
    <2>1. Init => PlacedInv
      BY IdleTyped DEF Init, PlacedInv
    <2> QED
      BY <2>1, BaseInit
  <1>2. Inv /\ [Next]_vars => Inv'
    BY BaseStep, PlacedStep
  <1>3. Inv => Imported
    BY DEF PlacedInv
  <1>4. Inv /\ [Next]_vars => [Imported]_vars
    BY <1>3
  <1> QED
    BY <1>1, <1>2, <1>4, PTL DEF Spec, CompletionImportsAll

-----------------------------------------------------------------------------
(* Roll-backs remove everything.                                           *)

\* The parts of LockInv.
Alone == \A s, t \in Slots : \A j \in Jobs : Involved(s, j) /\ Involved(t, j) => s = t

Fits(s) ==
  LET j == slot[s].job
  IN /\ Active(s) => status[j] = "running"
     /\ slot[s].op = "fail" => slot[s].ids = {}
     /\ slot[s].op = "mark_step" => slot[s].ids # {}
     /\ slot[s].op \in {"preview", "commit"} => Mutable(j)
     /\ slot[s].op = "delete" => status[j] = "completed" /\ slot[s].ids = createdIds[j]
     /\ slot[s].op = "mark_rolled_back" => \A r \in records : r.job = j => Stray(r)

Held(r) ==
  \/ status[r.job] = "completed" /\ r \in createdIds[r.job]
  \/ \E s \in Slots : Active(s) /\ slot[s].job = r.job /\ InHand(slot[s], r)
  \/ Stray(r)

Locked == Alone /\ (\A s \in Slots : Fits(s)) /\ (\A r \in records : Held(r))

LEMMA LockParts ==
  /\ LockInv <=> (~raced /\ ~broken => Locked)
  /\ (~raced' /\ ~broken' => Locked') => LockInv'
  <1>1. LockInv <=> (~raced /\ ~broken => Locked)
    BY DEF LockInv, Locked, Alone, Fits, Held
  <1>2. (~raced' /\ ~broken' => Locked') => LockInv'
    BY DEF LockInv, Locked, Alone, Fits, Held, Active, Involved, Mutable, Stray
  <1> QED
    BY <1>1, <1>2

\* Slot s has the request or the run on its job to itself.
LEMMA HasItAlone ==
  ASSUME TypeOK, Locked, NEW s \in Slots, Involved(s, slot[s].job),
         NEW t \in Slots, t # s, slot[t].job = slot[s].job
  PROVE  slot[t].op \notin Request /\ ~Active(t)
  <1>1. slot[s].job \in Jobs
    BY SlotFields DEF TypeOK
  <1> QED
    BY <1>1 DEF Locked, Alone, Involved

\* The rows of its job are then its own, or the completed job's.
LEMMA RowsOfJob ==
  ASSUME TypeOK, Locked, NEW s \in Slots, Involved(s, slot[s].job),
         NEW r \in records, r.job = slot[s].job
  PROVE  \/ Stray(r)
         \/ Active(s) /\ InHand(slot[s], r)
         \/ ~Active(s) /\ status[slot[s].job] = "completed" /\ r \in createdIds[slot[s].job]
  <1>1. Held(r) /\ (Active(s) => status[slot[s].job] = "running")
    BY DEF Locked, Fits
  <1>2. \A t \in Slots : Active(t) /\ slot[t].job = r.job => t = s
    BY HasItAlone
  <1> QED
    BY <1>1, <1>2 DEF Held

\* A step of slot s touches its own job, if that, and nobody else's.
Touches(s) ==
  \/ UNCHANGED <<status, createdIds, records>>
  \/ /\ Involved(s, slot[s].job)
     /\ \A k \in Jobs \ {slot[s].job} : status'[k] = status[k] /\ createdIds'[k] = createdIds[k]
     /\ \A r : r.job # slot[s].job => (r \in records' <=> r \in records)

\* What is left to show of such a step is about the slot and the rows of its job.
LEMMA LockKept ==
  ASSUME TypeOK, Locked, records' \subseteq Record, faulted \subseteq faulted',
         NEW s \in Slots, NEW v \in Slot, Holds(s, v), Touches(s),
         \/ v.op \in {"idle", "mark_step"}
         \/ v.job = slot[s].job /\ Involved(s, slot[s].job),
         Fits(s)',
         \A r \in records' : r.job = slot[s].job => Held(r)'
  PROVE  Locked'
  <1>1. slot'[s] = v /\ \A t \in Slots \ {s} : slot'[t] = slot[t]
    BY HoldsDoes DEF TypeOK
  <1>2. \A t \in Slots : slot[t].job \in Jobs
    BY SlotFields DEF TypeOK
  <1>3. Alone'
    <2>1. \A j \in Jobs : Involved(s, j)' => Involved(s, j)
      BY <1>1 DEF Involved, Active, Request
    <2>2. \A j \in Jobs : \A t \in Slots \ {s} : Involved(t, j)' <=> Involved(t, j)
      BY <1>1 DEF Involved, Active
    <2>3. \A t \in Slots : \A j \in Jobs : Involved(t, j)' => Involved(t, j)
      BY <2>1, <2>2
    <2> QED
      BY <2>3 DEF Locked, Alone
  <1>4. ASSUME NEW t \in Slots \ {s} PROVE Fits(t)'
    <2>1. Fits(t) /\ slot'[t] = slot[t] /\ slot[t].job \in Jobs
      BY <1>1, <1>2 DEF Locked
    <2>2. CASE UNCHANGED <<status, createdIds, records>>
      BY <2>1, <2>2 DEF Fits, Active, Mutable, Stray
    <2>3. CASE /\ Involved(s, slot[s].job)
               /\ \A k \in Jobs \ {slot[s].job} : status'[k] = status[k] /\ createdIds'[k] = createdIds[k]
               /\ \A r : r.job # slot[s].job => (r \in records' <=> r \in records)
      <3>1. CASE slot[t].job = slot[s].job
        <4>1. slot[t].op \notin Request /\ ~Active(t)
          BY <2>3, <3>1, HasItAlone
        <4> QED
          BY <2>1, <4>1 DEF Fits, Active, Request
      <3>2. CASE slot[t].job # slot[s].job
        BY <2>1, <2>3, <3>2 DEF Fits, Active, Mutable, Stray
      <3> QED
        BY <3>1, <3>2
    <2> QED
      BY <2>2, <2>3 DEF Touches
  <1>5. ASSUME NEW r \in records', r.job # slot[s].job PROVE Held(r)'
    <2>1. r.job \in Jobs
      BY DEF Record
    <2>2. /\ r \in records /\ status'[r.job] = status[r.job] /\ createdIds'[r.job] = createdIds[r.job]
      BY <1>5, <2>1 DEF Touches
    <2>4. Stray(r) => Stray(r)'
      BY DEF Stray
    <2>3. \/ status[r.job] = "completed" /\ r \in createdIds[r.job]
          \/ \E t \in Slots \ {s} : Active(t) /\ slot[t].job = r.job /\ InHand(slot[t], r)
          \/ Stray(r)
      BY <1>5, <2>2 DEF Locked, Held
    <2> QED
      BY <1>1, <2>2, <2>3, <2>4 DEF Held, Active
  <1>6. \A t \in Slots : Fits(t)'
    BY <1>4
  <1>7. \A r \in records' : Held(r)'
    BY <1>5
  <1> QED
    BY <1>3, <1>6, <1>7 DEF Locked

\* A request begins where no run and no other request is.
LEMMA StartLocks ==
  ASSUME BaseInv, BaseInv', Locked, NEW s \in Slots, Start(s), ~raced'
  PROVE  Locked'
  <1>1. TypeOK /\ records' \subseteq Record
    BY DEF BaseInv, TypeOK
  <1>2. PICK j \in Jobs, v \in Slot :
          /\ Holds(s, v) /\ slot[s].op = "idle" /\ v.job = j
          /\ \/ v.op \in {"preview", "commit"} /\ Mutable(j)
             \/ v.op = "delete" /\ status[j] = "completed" /\ v.ids = createdIds[j]
          /\ raced' = (raced \/ \E t \in Slots : slot[t].op \in Request /\ slot[t].job = j)
          /\ UNCHANGED <<job, records, removed, broken, lost, faulted>>
    BY <1>1, StartDoes
  <1>3. slot'[s] = v /\ \A t \in Slots \ {s} : slot'[t] = slot[t]
    BY <1>1, <1>2, HoldsDoes DEF TypeOK
  <1>4. UNCHANGED <<status, createdIds, records, faulted>>
    BY <1>2 DEF job
  <1>5. \A t \in Slots : ~Involved(t, j)
    <2>1. status[j] # "running"
      BY <1>2 DEF Mutable
    <2>2. \A t \in Slots : Active(t) => status[slot[t].job] = "running"
      BY DEF Locked, Fits
    <2> QED
      BY <1>2, <2>1, <2>2 DEF Involved
  <1>6. Alone'
    <2>1. \A t \in Slots \ {s} : \A k \in Jobs : Involved(t, k)' <=> Involved(t, k)
      BY <1>3 DEF Involved, Active
    <2>2. \A k \in Jobs : Involved(s, k)' => k = j
      BY <1>2, <1>3 DEF Involved
    <2> QED
      BY <1>5, <2>1, <2>2 DEF Locked, Alone
  <1>7. Fits(s)'
    BY <1>2, <1>3, <1>4 DEF Fits, Active, Mutable
  <1>8. \A t \in Slots \ {s} : Fits(t)'
    BY <1>3, <1>4 DEF Locked, Fits, Active, Mutable, Stray
  <1>9. \A r \in records' : Held(r)'
    <2>1. ~Active(s)
      BY <1>2 DEF Active
    <2> QED
      BY <2>1, <1>3, <1>4 DEF Locked, Held, Active, Stray
  <1> QED
    BY <1>6, <1>7, <1>8, <1>9 DEF Locked

\* A step that ends its slot and touches nothing.
LEMMA EndLocks ==
  ASSUME BaseInv, BaseInv', Locked, NEW s \in Slots, Finish(s),
         UNCHANGED <<status, createdIds, records, faulted>>,
         Active(s) => slot[s].ids = {} /\ slot[s].op # "audit"
  PROVE  Locked'
  <1>1. TypeOK /\ records' \subseteq Record /\ Holds(s, Idle) /\ Idle \in Slot /\ Idle.op = "idle"
    BY FinishDoes, IdleTyped DEF BaseInv, TypeOK
  <1>2. slot'[s] = Idle /\ \A t \in Slots \ {s} : slot'[t] = slot[t]
    BY <1>1, HoldsDoes DEF TypeOK
  <1>3. Fits(s)'
    BY <1>1, <1>2 DEF Fits, Active
  <1>4. \A r : ~(Active(s) /\ InHand(slot[s], r))
    BY DEF InHand
  <1>5. \A r \in records' : Held(r)'
    BY <1>2, <1>4 DEF Locked, Held, Active, Stray
  <1>6. Touches(s)
    BY DEF Touches
  <1> QED
    BY <1>1, <1>3, <1>5, <1>6, LockKept

\* A step that writes the status of a job of which there are only stray rows.
LEMMA StatusLocks ==
  ASSUME BaseInv, BaseInv', Locked, NEW s \in Slots, NEW to \in Status,
         SetStatus(slot[s].job, to), UNCHANGED <<createdIds, records, faulted>>,
         Involved(s, slot[s].job), \A r \in records : r.job = slot[s].job => Stray(r),
         NEW v \in Slot, Holds(s, v),
         \/ v = Idle
         \/ v.op = "scan" /\ v.job = slot[s].job /\ to = "running"
  PROVE  Locked'
  <1>1. TypeOK /\ records' \subseteq Record /\ slot[s].job \in Jobs /\ status \in [Jobs -> Status]
    BY SlotFields DEF BaseInv, TypeOK
  <1>2. slot'[s] = v
    BY <1>1, HoldsDoes DEF TypeOK
  <1>3. Fits(s)'
    BY <1>1, <1>2, IdleTyped DEF Fits, Active, SetStatus
  <1>4. Touches(s)
    BY <1>1 DEF Touches, SetStatus
  <1>5. \A r \in records' : r.job = slot[s].job => Held(r)'
    BY DEF Held, Stray
  <1> QED
    BY <1>1, <1>3, <1>4, <1>5, IdleTyped, LockKept

LEMMA WriteLocks ==
  ASSUME BaseInv, BaseInv', Locked, NEW s \in Slots,
         WritePreview(s) \/ WriteCommit(s) \/ WriteFailed(s) \/ WriteRolledBack(s)
  PROVE  Locked'
  <1>1. TypeOK /\ Fits(s)
    BY DEF BaseInv, Locked
  <1>2. Involved(s, slot[s].job)
    BY DEF WritePreview, WriteCommit, WriteFailed, WriteRolledBack, Involved, Active, Request
  <1>3. \A r \in records : r.job = slot[s].job => Stray(r)
    <2> SUFFICES ASSUME NEW r \in records, r.job = slot[s].job, ~Stray(r) PROVE FALSE
      OBVIOUS
    <2>1. \/ Active(s) /\ InHand(slot[s], r)
          \/ ~Active(s) /\ status[slot[s].job] = "completed"
      BY <1>1, <1>2, RowsOfJob
    <2>2. CASE WritePreview(s) \/ WriteCommit(s)
      BY <1>1, <2>1, <2>2 DEF WritePreview, WriteCommit, Active, Fits, Mutable
    <2>3. CASE WriteFailed(s)
      BY <1>1, <2>1, <2>3 DEF WriteFailed, Active, Fits, InHand
    <2>4. CASE WriteRolledBack(s)
      BY <1>1, <2>4 DEF WriteRolledBack, Fits
    <2> QED
      BY <2>2, <2>3, <2>4
  <1>4. CASE WriteCommit(s)
    <2>1. PICK v \in Slot : Holds(s, v) /\ v.op = "scan" /\ v.job = slot[s].job
      BY <1>1, <1>4, CommitDoes
    <2>2. SetStatus(slot[s].job, "running") /\ UNCHANGED <<createdIds, records, faulted>>
      BY <1>4 DEF WriteCommit, history
    <2>3. "running" \in Status
      BY DEF Status
    <2> QED
      BY <1>2, <1>3, <2>1, <2>2, <2>3, StatusLocks
  <1>5. CASE WritePreview(s) \/ WriteFailed(s) \/ WriteRolledBack(s)
    <2>1. Holds(s, Idle) /\ UNCHANGED <<createdIds, records, faulted>>
      BY <1>5, FinishDoes DEF WritePreview, WriteFailed, WriteRolledBack, history
    <2>2. PICK to \in Status : SetStatus(slot[s].job, to)
      BY <1>5 DEF WritePreview, WriteFailed, WriteRolledBack, Status
    <2> QED
      BY <1>2, <1>3, <2>1, <2>2, IdleTyped, StatusLocks
  <1> QED
    BY <1>4, <1>5

\* The run goes on with the rows it has, and perhaps one more.
LEMMA RunLocks ==
  ASSUME BaseInv, BaseInv', Locked, NEW s \in Slots,
         \/ Scan(s) \/ Pass(s) \/ CreateEmployee(s)
         \/ Throw(s) /\ slot[s].ids = {}
  PROVE  Locked'
  <1>1. TypeOK /\ Fits(s) /\ records' \subseteq Record /\ slot[s] \in Slot
    BY SlotFields DEF BaseInv, TypeOK, Locked
  <1>2. Active(s)
    BY <1>1 DEF Scan, Pass, ImportAsset, AuditEmployee, RefuseRow, RowFails, CreateEmployee,
                Throw, MayThrow, Active, Fits
  <1>3. UNCHANGED <<status, createdIds>>
    BY DEF Scan, Pass, ImportAsset, AuditEmployee, RefuseRow, RowFails, CreateEmployee,
           Throw, job
  <1> DEFINE Follows(v) ==
        /\ Holds(s, v)
        /\ v.op \in {"import", "audit"} \/ (v.op = "fail" /\ v.ids = {})
        /\ v.job = slot[s].job
        /\ faulted \subseteq faulted'
        /\ \A r \in records : InHand(slot[s], r) => InHand(v, r) \/ Stray(r)'
        /\ \/ records' = records
           \/ \E m : InHand(v, m) /\ m.job = slot[s].job /\ records' = records \union {m}
  <1>4. PICK v \in Slot : Follows(v)
    <2>1. CASE Scan(s)
      <3>1. PICK v \in Slot :
              /\ Holds(s, v) /\ v.op = "import" /\ v.job = slot[s].job /\ v.ids = slot[s].ids
        BY <1>1, <2>1, ScanDoes
      <3>2. records' = records /\ faulted' = faulted /\ slot[s].op = "scan"
        BY <2>1 DEF Scan, history
      <3> QED
        BY <3>1, <3>2 DEF InHand
    <2>2. CASE Pass(s)
      <3>1. PICK i \in slot[s].todo, v \in Slot :
              /\ Holds(s, v) /\ IsNext(slot[s], i) /\ Passed(s, i, v)
              /\ v.op = "import" /\ v.job = slot[s].job
        BY <1>1, <2>2, PassDoes
      <3> DEFINE m == Made(s, i)
      <3>2. m.job = slot[s].job
        BY DEF Made, RecordOf
      <3>3. \A r : InHand(slot[s], r) => r \in slot[s].ids \/ (slot[s].op = "audit" /\ r = m)
        BY <1>1, <3>1, OneIsNext DEF InHand, Made
      <3>4. slot[s].op = "audit" => Kind[slot[s].job] = "employees"
        BY DEF BaseInv, RowsInv
      <3> HIDE DEF m
      <3>5. CASE v.ids = slot[s].ids \union {m} /\ faulted' = faulted
        <4>1. \A r : InHand(slot[s], r) => InHand(v, r)
          BY <3>3, <3>5 DEF InHand
        <4>2. InHand(v, m)
          BY <3>5 DEF InHand
        <4>3. records' = records \/ records' = records \union {m}
          BY <3>1 DEF Passed, m
        <4> QED
          BY <3>1, <3>2, <3>5, <4>1, <4>2, <4>3
      <3>6. CASE v.ids = slot[s].ids /\ slot[s].op = "import" /\ faulted' = faulted /\ records' = records
        <4>1. \A r : InHand(slot[s], r) => InHand(v, r)
          BY <3>3, <3>6 DEF InHand
        <4> QED
          BY <3>1, <3>6, <4>1
      <3>7. CASE v.ids = slot[s].ids /\ faulted' = faulted \union {m} /\ records' = records
        <4>1. slot[s].op = "audit" => \A r : r = m => Stray(r)'
          BY <3>2, <3>4, <3>7 DEF Stray
        <4>2. \A r : InHand(slot[s], r) => InHand(v, r) \/ (slot[s].op = "audit" /\ r = m)
          BY <3>3, <3>7 DEF InHand
        <4>3. \A r : InHand(slot[s], r) => InHand(v, r) \/ Stray(r)'
          BY <4>1, <4>2 DEF Stray
        <4> QED
          BY <3>1, <3>7, <4>3
      <3> QED
        BY <3>1, <3>5, <3>6, <3>7 DEF Passed, m
    <2>3. CASE CreateEmployee(s)
      <3>1. PICK i \in slot[s].todo, v \in Slot :
              /\ Holds(s, v) /\ IsNext(slot[s], i) /\ slot[s].op = "import"
              /\ records' = records \union {Made(s, i)}
              /\ UNCHANGED <<job, history>>
              /\ v.op = "audit" /\ v.job = slot[s].job /\ v.run = slot[s].run
              /\ v.todo = slot[s].todo /\ v.ids = slot[s].ids
        BY <1>1, <2>3, CreateDoes
      <3>2. Made(s, i).job = slot[s].job /\ RecordOf(v, i) = Made(s, i) /\ IsNext(v, i)
        BY <3>1 DEF Made, RecordOf, IsNext
      <3>3. InHand(v, Made(s, i))
        BY <3>1, <3>2 DEF InHand
      <3>4. \A r : InHand(slot[s], r) => InHand(v, r)
        BY <3>1 DEF InHand
      <3>5. faulted' = faulted
        BY <3>1 DEF history
      <3> QED
        BY <3>1, <3>2, <3>3, <3>4, <3>5
    <2>4. CASE Throw(s) /\ slot[s].ids = {}
      <3>1. records' = records /\ faulted' = faulted
        BY <2>4 DEF Throw
      <3>2. \A r : ~InHand(slot[s], r)
        BY <2>4 DEF Throw, MayThrow, InHand
      <3>3. PICK v \in Slot :
              /\ Holds(s, v) /\ v.op = "fail" /\ v.job = slot[s].job /\ v.ids = slot[s].ids
        BY <1>1, <2>4, ThrowDoes
      <3> QED
        BY <2>4, <3>1, <3>2, <3>3
    <2> QED
      BY <2>1, <2>2, <2>3, <2>4
  <1>5. slot'[s] = v
    BY <1>1, <1>4, HoldsDoes DEF TypeOK
  <1>6. Fits(s)' /\ Active(s)'
    BY <1>1, <1>2, <1>3, <1>4, <1>5 DEF Fits, Active
  <1>7. Involved(s, slot[s].job)
    BY <1>2 DEF Involved
  <1>8. \A r \in records' : r.job = slot[s].job => Held(r)'
    <2> SUFFICES ASSUME NEW r \in records', r.job = slot[s].job PROVE Held(r)'
      OBVIOUS
    <2>1. InHand(v, r) \/ Stray(r)'
      <3>1. CASE r \in records
        <4>1. Stray(r) \/ InHand(slot[s], r)
          BY <1>1, <1>2, <1>7, <3>1, RowsOfJob
        <4>2. Stray(r) => Stray(r)'
          BY <1>4 DEF Stray
        <4> QED
          BY <1>4, <3>1, <4>1, <4>2
      <3>2. CASE r \notin records
        BY <1>4, <3>2
      <3> QED
        BY <3>1, <3>2
    <2>2. slot'[s].job = r.job
      BY <1>4, <1>5
    <2> QED
      BY <1>5, <1>6, <2>1, <2>2 DEF Held
  <1>9. Touches(s)
    <2>1. \A r : r.job # slot[s].job => (r \in records' <=> r \in records)
      BY <1>4
    <2> QED
      BY <1>3, <1>7, <2>1 DEF Touches
  <1>10. faulted \subseteq faulted' /\ Holds(s, v) /\ v.job = slot[s].job
    BY <1>4
  <1> QED
    BY <1>1, <1>6, <1>7, <1>8, <1>9, <1>10, LockKept

\* The last update of a run hands its rows over to the job.
LEMMA CompleteLocks ==
  ASSUME BaseInv, BaseInv', Locked, NEW s \in Slots, Complete(s)
  PROVE  Locked'
  <1> DEFINE j == slot[s].job
  <1>1. /\ TypeOK /\ records' \subseteq Record /\ j \in Jobs
        /\ status \in [Jobs -> Status] /\ createdIds \in [Jobs -> SUBSET Record]
    BY SlotFields DEF BaseInv, TypeOK
  <1>2. Active(s) /\ Involved(s, j)
    BY DEF Complete, Active, Involved
  <1>3. PICK v \in Slot :
          /\ Holds(s, v)
          /\ v = Idle \/ (v.op = "mark_step" /\ v.job = j /\ v.ids # {})
    BY <1>1, CompleteDoes
  <1>4. slot'[s] = v
    BY <1>1, <1>3, HoldsDoes DEF TypeOK
  <1>5. /\ status' = [status EXCEPT ![j] = "completed"]
        /\ createdIds' = [createdIds EXCEPT ![j] = slot[s].ids]
        /\ records' = records /\ faulted' = faulted
    BY DEF Complete, SetStatus, history
  <1> HIDE DEF j
  <1>6. Fits(s)'
    BY <1>3, <1>4, IdleTyped DEF Fits, Active
  <1>7. \A r \in records' : r.job = j => Held(r)'
    <2> SUFFICES ASSUME NEW r \in records, r.job = j PROVE Held(r)'
      BY <1>5
    <2>1. r \in slot[s].ids \/ Stray(r)
      BY <1>1, <1>2, RowsOfJob DEF j, InHand, Complete
    <2>2. status'[j] = "completed" /\ createdIds'[j] = slot[s].ids
      BY <1>1, <1>5
    <2> QED
      BY <1>5, <2>1, <2>2 DEF Held, Stray
  <1>8. \A k \in Jobs \ {j} : status'[k] = status[k] /\ createdIds'[k] = createdIds[k]
    BY <1>1, <1>5
  <1>9. Touches(s)
    BY <1>2, <1>5, <1>8 DEF Touches, j
  <1>10. v.op \in {"idle", "mark_step"}
    BY <1>3, IdleTyped
  <1> QED
    BY <1>1, <1>3, <1>5, <1>6, <1>7, <1>9, <1>10, LockKept DEF j

\* A roll-back removes the rows that the completed job names, which are all but the strays.
LEMMA DeleteLocks ==
  ASSUME BaseInv, BaseInv', Locked, NEW s \in Slots, DeleteRows(s)
  PROVE  Locked'
  <1> DEFINE j == slot[s].job
  <1>1. /\ TypeOK /\ records' \subseteq Record /\ j \in Jobs /\ Fits(s)
        /\ \A r \in createdIds[j] : r.job = j
    BY SlotFields DEF BaseInv, TypeOK, Locked
  <1>2. ~Active(s) /\ Involved(s, j)
    BY DEF DeleteRows, Active, Involved, Request
  <1>3. PICK v \in Slot : Holds(s, v) /\ v.op = "mark_rolled_back" /\ v.job = j
    BY <1>1, DeleteDoes
  <1>4. slot'[s] = v
    BY <1>1, <1>3, HoldsDoes DEF TypeOK
  <1>5. /\ UNCHANGED <<status, createdIds, faulted>> /\ records' = records \ slot[s].ids
        /\ slot[s].ids = createdIds[j]
    BY <1>1 DEF DeleteRows, job, Fits
  <1>6. \A r \in records' : r.job = j => Stray(r)'
    <2> SUFFICES ASSUME NEW r \in records, r \notin slot[s].ids, r.job = j PROVE Stray(r)
      BY <1>5 DEF Stray
    <2>1. r \in createdIds[j] \/ Stray(r)
      BY <1>1, <1>2, RowsOfJob
    <2> QED
      BY <1>5, <2>1
  <1>7. Fits(s)'
    BY <1>3, <1>4, <1>6 DEF Fits, Active, Stray
  <1>8. \A r : r.job # j => (r \in records' <=> r \in records)
    BY <1>1, <1>5
  <1>9. Touches(s)
    BY <1>2, <1>5, <1>8 DEF Touches
  <1>10. \A r \in records' : r.job = j => Held(r)'
    BY <1>6 DEF Held
  <1> QED
    BY <1>1, <1>2, <1>3, <1>5, <1>7, <1>9, <1>10, LockKept

LEMMA CrashLocks ==
  ASSUME BaseInv, Locked, Crash, ~broken'
  PROVE  Locked'
  <1>1. \A s \in Slots :
          slot'[s] = Idle /\ (Active(s) => slot[s].ids = {} /\ slot[s].op # "audit")
    BY DEF Crash, Active, Run
  <1>2. UNCHANGED <<status, createdIds, records, faulted>>
    BY DEF Crash, job
  <1>3. \A s \in Slots : Fits(s)'
    BY <1>1, IdleTyped DEF Fits, Active
  <1>4. Alone'
    BY <1>1, IdleTyped DEF Alone, Involved, Active, Request
  <1>5. \A r \in records' : Held(r)'
    <2>1. \A s \in Slots : \A r : ~(Active(s) /\ InHand(slot[s], r))
      BY <1>1 DEF InHand
    <2> QED
      BY <1>2, <2>1 DEF Locked, Held, Stray
  <1> QED
    BY <1>3, <1>4, <1>5 DEF Locked

LEMMA LockStep == BaseInv /\ BaseInv' /\ LockInv /\ [Next]_vars => LockInv'
  <1> SUFFICES ASSUME BaseInv, BaseInv', LockInv, [Next]_vars, ~raced', ~broken' PROVE Locked'
    BY LockParts
  <1>1. ASSUME NEW s \in Slots, Continue(s), ~raced, ~broken, Locked PROVE Locked'
    <2>1. CASE WritePreview(s) \/ WriteCommit(s) \/ WriteFailed(s) \/ WriteRolledBack(s)
      BY <1>1, <2>1, WriteLocks
    <2>2. CASE Scan(s) \/ Pass(s) \/ CreateEmployee(s)
      BY <1>1, <2>2, RunLocks
    <2>3. CASE Throw(s)
      <3>1. slot[s].ids = {}
        BY <2>3 DEF Throw
      <3> QED
        BY <1>1, <2>3, <3>1, RunLocks
    <2>4. CASE MarkStep(s) \/ RequestFails(s) \/ LoseRun(s)
      <3>1. Active(s) => slot[s].ids = {} /\ slot[s].op # "audit"
        BY <1>1, <2>4 DEF MarkStep, RequestFails, LoseRun, Active, Request, Locked, Fits,
                         BaseInv, RowsInv
      <3>2. Finish(s) /\ UNCHANGED <<status, createdIds, records, faulted>>
        BY <2>4 DEF MarkStep, RequestFails, LoseRun, job, history
      <3> QED
        BY <1>1, <3>1, <3>2, EndLocks
    <2>5. CASE Complete(s)
      BY <1>1, <2>5, CompleteLocks
    <2>6. CASE DeleteRows(s)
      BY <1>1, <2>6, DeleteLocks
    <2> QED
      BY <1>1, <2>1, <2>2, <2>3, <2>4, <2>5, <2>6 DEF Continue, Pass
  <1>2. ~raced /\ ~broken
    <2>1. CASE UNCHANGED vars
      BY <2>1 DEF vars, history
    <2>2. CASE Crash
      <3>1. (broken => broken') /\ raced' = raced
        BY <2>2, Zenon DEF Crash
      <3> QED
        BY <3>1
    <2>3. ASSUME NEW s \in Slots, Start(s) PROVE ~raced /\ ~broken
      <3>1. (raced => raced') /\ broken' = broken
        BY <2>3, Zenon DEF Start, BeginPreview, BeginCommit, BeginRollback, Begin
      <3> QED
        BY <3>1
    <2>4. ASSUME NEW s \in Slots, Continue(s) PROVE ~raced /\ ~broken
      <3>1. CASE Throw(s)
        <4>1. (broken => broken') /\ raced' = raced
          BY <3>1, Zenon DEF Throw
        <4> QED
          BY <4>1
      <3>2. CASE ~Throw(s)
        <4>1. UNCHANGED <<raced, broken>>
          BY <2>4, <3>2 DEF Continue, WritePreview, WriteCommit, Scan, ImportAsset,
            CreateEmployee, AuditEmployee, RefuseRow, RowFails, Complete, MarkStep,
            WriteFailed, LoseRun, RequestFails, DeleteRows, WriteRolledBack, history
        <4> QED
          BY <4>1
      <3> QED
        BY <3>1, <3>2
    <2> QED
      BY <2>1, <2>2, <2>3, <2>4 DEF Next
  <1>3. Locked
    BY <1>2, LockParts
  <1>4. CASE UNCHANGED vars
    BY <1>3, <1>4 DEF vars, job, history, Locked, Alone, Fits, Held, Involved, Active, Mutable, Stray
  <1>5. CASE Crash
    BY <1>3, <1>5, CrashLocks
  <1>6. ASSUME NEW s \in Slots, Start(s) PROVE Locked'
    BY <1>3, <1>6, StartLocks
  <1> QED
    BY <1>1, <1>2, <1>3, <1>4, <1>5, <1>6 DEF Next

\* While requests on one job take turns and no run ends early with rows made, a
\* job that is rolled back leaves none of its rows but employees whose audit entry
\* failed, for any number of jobs.
THEOREM RolledBackIsGone == Spec => []RollbackRemovesAll
  <1> DEFINE Inv == BaseInv /\ LockInv
  <1>1. Init => Inv
    <2>1. Init => LockInv
      BY IdleTyped DEF Init, LockInv, Involved, Active, Request
    <2> QED
      BY <2>1, BaseInit
  <1>2. Inv /\ [Next]_vars => Inv'
    BY BaseStep, LockStep
  <1>3. Inv => RollbackRemovesAll
    <2> SUFFICES ASSUME Inv, ~raced, ~broken, NEW j \in Jobs, status[j] = "rolled_back",
                        NEW r \in records, r.job = j
                 PROVE  Stray(r)
      BY DEF RollbackRemovesAll
    <2>1. Held(r) /\ \A s \in Slots : Fits(s)
      BY LockParts DEF Locked
    <2> QED
      BY <2>1 DEF Held, Fits
  <1> QED
    BY <1>1, <1>2, <1>3, PTL DEF Spec
=============================================================================
