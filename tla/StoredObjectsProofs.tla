------------------------- MODULE StoredObjectsProofs -------------------------
(***************************************************************************)
(* Safety of StoredObjects for every number of jobs, clients, outputs,     *)
(* attempts, faults and crashes.  GoneMeansReaped and LeftoversExplained   *)
(* speak of completed rows and of the bucket; they are inductive only with *)
(* what holds of a row while its worker uploads (Storing), of the objects  *)
(* a pass holds or has deleted, of the rows a crash left behind, and of a  *)
(* reader between its look-up and its read.                                *)
(***************************************************************************)
EXTENDS StoredObjects, TLAPS

\* A row at each stage against the bucket.
StoredAt(j, i) ==
    /\ status[j] = "queued" => next[j] = 0 /\ <<j, i>> \notin bucket
    /\ status[j] = "running" =>
          /\ next[j] <= made[j]
          /\ i < next[j] => <<j, i>> \in bucket
          /\ <<j, i>> \in bucket => i < next[j] \/ (i = next[j] /\ next[j] < made[j])
    /\ status[j] = "completed" =>
          /\ i < next[j] => <<j, i>> \in bucket \cup reaped
          /\ <<j, i>> \in bucket => i < next[j]

Storing == \A j \in Jobs, i \in Indices : StoredAt(j, i)

\* Passes hold and delete objects of completed rows; a crash leaves running rows.
Owners ==
    /\ \A o \in todo \cup reaped : status[o[1]] = "completed"
    /\ \A j \in lost : status[j] = "running"

\* A reader past its look-up asks for an object its row names.
Reading ==
    \A c \in Clients :
        /\ reader[c].pc = "get" =>
              status[reader[c].job] = "completed" /\ reader[c].index < next[reader[c].job]
        /\ reader[c].answer = "gone" => ObjectOf(c) \in reaped

IInv == TypeOK /\ Storing /\ Owners /\ Reading

\* The initial states satisfy the inductive invariant.
LEMMA InitIInv == Init => IInv
<1> SUFFICES ASSUME Init PROVE IInv
    OBVIOUS
<1>1. 0 \in Indices /\ 0 \in 0..MaxOutputs /\ 0 \in 0..(MaxAttempts - 1)
    BY ObjectsAssumption DEF Indices
<1>2. reader \in [Clients -> Readers]
    BY <1>1 DEF Init, Readers, Answers
<1>3. TypeOK
    BY <1>1, <1>2, ObjectsAssumption DEF Init, TypeOK, Statuses
<1>4. Storing /\ Owners
    BY DEF Init, Storing, StoredAt, Owners
<1>5. Reading
    BY DEF Init, Reading
<1> QED
    BY <1>3, <1>4, <1>5 DEF IInv

\* Index arithmetic for the object a worker stores next.
LEMMA NextIsIndex ==
  ASSUME TypeOK, NEW j \in Jobs, next[j] < made[j]
  PROVE  next[j] \in Indices /\ next[j] + 1 \in 0..MaxOutputs /\ <<j, next[j]>> \in Objects
  BY ObjectsAssumption DEF TypeOK, Indices, Objects

\* What a step leaves alone keeps the parts of the invariant that read only that.
LEMMA RowsUntouched ==
  ASSUME IInv, UNCHANGED <<status, made, next, bucket, reaped>>
  PROVE  Storing'
  BY DEF IInv, Storing, StoredAt, Indices

LEMMA ReadersUntouched ==
  ASSUME IInv, UNCHANGED reader, reaped \subseteq reaped',
         \A j \in Jobs : status[j] = "completed" =>
                            status'[j] = "completed" /\ next'[j] = next[j]
  PROVE  Reading'
  BY DEF IInv, Reading, ObjectOf, TypeOK, Readers

\* One lemma per action of the worker.
LEMMA ProduceStep ==
  ASSUME IInv, NEW j \in Jobs, Produce(j)
  PROVE  IInv'
<1> USE DEF IInv
<1>1. TypeOK'
    BY ObjectsAssumption DEF TypeOK, Produce, Statuses, rowVars
<1>2. ASSUME NEW k \in Jobs, NEW i \in Indices PROVE StoredAt(k, i)'
  <2>1. StoredAt(k, i)
      BY DEF Storing
  <2>2. status \in [Jobs -> Statuses] /\ made \in [Jobs -> 0..MaxOutputs]
      BY DEF TypeOK
  <2>3. CASE k # j
      BY <2>1, <2>2, <2>3 DEF Produce, StoredAt
  <2>4. CASE k = j
      BY <2>1, <2>2, <2>4, ObjectsAssumption DEF Produce, StoredAt, Indices
  <2> QED
      BY <2>3, <2>4
<1>3. Owners'
    BY DEF TypeOK, Produce, Owners, Objects
<1>4. Reading'
    BY ReadersUntouched DEF TypeOK, Produce
<1> QED
    BY <1>1, <1>2, <1>3, <1>4 DEF Storing

LEMMA UploadStep ==
  ASSUME IInv, NEW j \in Jobs, Upload(j)
  PROVE  IInv'
<1> USE DEF IInv
<1>0. next[j] \in Indices /\ next[j] + 1 \in 0..MaxOutputs /\ <<j, next[j]>> \in Objects
    BY NextIsIndex DEF Upload
<1>1. TypeOK'
    BY <1>0, ObjectsAssumption DEF TypeOK, Upload, Fail, Fault, NoFault, Statuses
<1>2. ASSUME NEW k \in Jobs, NEW i \in Indices PROVE StoredAt(k, i)'
  <2>1. StoredAt(k, i)
      BY DEF Storing
  <2>2. /\ status \in [Jobs -> Statuses] /\ next \in [Jobs -> 0..MaxOutputs]
        /\ made[j] \in 0..MaxOutputs /\ i \in Nat
      BY ObjectsAssumption DEF TypeOK, Indices
  <2>3. CASE k # j
      BY <2>1, <2>2, <2>3 DEF Upload, Fail, StoredAt
  <2>4. CASE k = j
      BY <2>1, <2>2, <2>4, ObjectsAssumption DEF Upload, Fail, Working, StoredAt
  <2> QED
      BY <2>3, <2>4
<1>3. Owners'
    BY DEF TypeOK, Upload, Fail, Working, Owners, Objects
<1>4. Reading'
    BY ReadersUntouched DEF TypeOK, Upload, Fail, Working
<1> QED
    BY <1>1, <1>2, <1>3, <1>4 DEF Storing

LEMMA CompleteStep ==
  ASSUME IInv, NEW j \in Jobs, Complete(j)
  PROVE  IInv'
<1> USE DEF IInv
<1>1. TypeOK'
    BY ObjectsAssumption DEF TypeOK, Complete, Fail, Fault, NoFault, Statuses
<1>2. Storing'
    BY DEF TypeOK, Complete, Fail, Working, Storing, StoredAt, Indices
<1>3. Owners'
    BY DEF TypeOK, Complete, Fail, Working, Owners, Objects
<1>4. Reading'
    BY ReadersUntouched DEF TypeOK, Complete, Fail, Working
<1> QED
    BY <1>1, <1>2, <1>3, <1>4

LEMMA RecoverStep ==
  ASSUME IInv, NEW j \in Jobs, Recover(j)
  PROVE  IInv'
<1> USE DEF IInv
<1>1. TypeOK'
    BY DEF TypeOK, Recover, Fail, Statuses
<1>2. Storing'
    BY DEF TypeOK, Recover, Fail, Storing, StoredAt, Indices
<1>3. Owners'
    BY DEF TypeOK, Recover, Fail, Owners, Objects
<1>4. Reading'
    BY ReadersUntouched DEF TypeOK, Recover, Fail, Owners
<1> QED
    BY <1>1, <1>2, <1>3, <1>4

\* Writes of updated_at and the passing of time.
LEMMA ClockStep ==
  ASSUME IInv, NEW j \in Jobs, Touch(j) \/ Age(j)
  PROVE  IInv'
<1> USE DEF IInv
<1>0. old' \in [Jobs -> BOOLEAN]
    BY Zenon DEF TypeOK, Touch, Age
<1>1. TypeOK'
    BY <1>0, ObjectsAssumption DEF TypeOK, Touch, Age
<1>2. Storing'
    BY RowsUntouched DEF Touch, Age
<1>3. Owners'
    BY DEF Touch, Age, Owners
<1>4. Reading'
    BY ReadersUntouched DEF Touch, Age
<1> QED
    BY <1>1, <1>2, <1>3, <1>4

\* One lemma per action of a reader.
LEMMA LookUpStep ==
  ASSUME IInv, NEW c \in Clients, NEW j \in Jobs, NEW i \in Indices, LookUp(c, j, i)
  PROVE  IInv'
<1> USE DEF IInv
<1>0. reader' \in [Clients -> Readers]
    BY DEF TypeOK, LookUp, Readers, Answers
<1>1. TypeOK'
    BY <1>0 DEF TypeOK, LookUp, rowVars
<1>2. Storing'
    BY RowsUntouched DEF LookUp, rowVars
<1>3. Owners'
    BY DEF LookUp, Owners, rowVars
<1>4. Reading'
    BY DEF LookUp, Reading, ObjectOf, TypeOK, Readers, rowVars
<1> QED
    BY <1>1, <1>2, <1>3, <1>4

LEMMA GetObjectStep ==
  ASSUME IInv, NEW c \in Clients, GetObject(c)
  PROVE  IInv'
<1> USE DEF IInv
<1>0. reader' \in [Clients -> Readers]
    BY DEF TypeOK, GetObject, Reply, Readers, Answers
<1>1. TypeOK'
    BY <1>0, ObjectsAssumption DEF TypeOK, GetObject, Fault, NoFault, rowVars
<1>2. Storing'
    BY RowsUntouched DEF GetObject, rowVars
<1>3. Owners'
    BY DEF GetObject, Owners, rowVars
<1>4. reader[c].job \in Jobs /\ reader[c].index \in Indices
    BY DEF TypeOK, Readers
<1>5. ObjectOf(c) \in bucket \cup reaped
  <2>1. status[reader[c].job] = "completed" /\ reader[c].index < next[reader[c].job]
      BY DEF GetObject, Reading
  <2>2. StoredAt(reader[c].job, reader[c].index)
      BY <1>4 DEF Storing
  <2> QED
      BY <2>1, <2>2 DEF StoredAt, ObjectOf
<1>6. Reading'
    BY <1>5 DEF GetObject, Reply, Reading, ObjectOf, TypeOK, Readers, rowVars
<1> QED
    BY <1>1, <1>2, <1>3, <1>6

LEMMA MarkFetchedStep ==
  ASSUME IInv, NEW c \in Clients, MarkFetched(c)
  PROVE  IInv'
<1> USE DEF IInv
<1>0. reader' \in [Clients -> Readers] /\ reader[c].job \in Jobs
    BY DEF TypeOK, MarkFetched, Reply, Readers, Answers
<1>a. fetched' \in [Jobs -> BOOLEAN]
    BY <1>0, Zenon DEF TypeOK, MarkFetched
<1>1. TypeOK'
    BY <1>0, <1>a, ObjectsAssumption DEF TypeOK, MarkFetched, Fault, NoFault
<1>2. Storing'
    BY RowsUntouched DEF MarkFetched
<1>3. Owners'
    BY DEF MarkFetched, Owners
<1>4. Reading'
    BY DEF MarkFetched, Reply, Reading, ObjectOf, TypeOK, Readers
<1> QED
    BY <1>1, <1>2, <1>3, <1>4

\* One lemma per action of the reaper, and the crash.
LEMMA ReapReadStep ==
  ASSUME IInv, ReapRead
  PROVE  IInv'
<1> USE DEF IInv
<1>1. TypeOK'
    BY DEF TypeOK, ReapRead, rowVars
<1>2. Storing'
    BY RowsUntouched DEF ReapRead, rowVars
<1>3. Owners'
    BY DEF ReapRead, Orphan, Owners, rowVars
<1>4. Reading'
    BY ReadersUntouched DEF ReapRead, rowVars
<1> QED
    BY <1>1, <1>2, <1>3, <1>4

LEMMA ReapDeleteStep ==
  ASSUME IInv, NEW o \in Objects, ReapDelete(o)
  PROVE  IInv'
<1> USE DEF IInv
<1>1. TypeOK'
    BY ObjectsAssumption DEF TypeOK, ReapDelete, Fault, NoFault, rowVars
<1>2. ASSUME NEW k \in Jobs, NEW i \in Indices PROVE StoredAt(k, i)'
  <2>1. StoredAt(k, i)
      BY DEF Storing
  <2>2. UNCHANGED <<status, made, next>> /\ status[o[1]] = "completed"
      BY DEF ReapDelete, Owners, rowVars
  <2>3. CASE <<k, i>> # o
      BY <2>1, <2>2, <2>3 DEF ReapDelete, StoredAt
  <2>4. CASE <<k, i>> = o
      BY <2>1, <2>2, <2>4 DEF ReapDelete, StoredAt
  <2> QED
      BY <2>3, <2>4
<1>3. Owners'
    BY DEF ReapDelete, Owners, rowVars
<1>4. Reading'
    BY ReadersUntouched DEF ReapDelete, rowVars
<1> QED
    BY <1>1, <1>2, <1>3, <1>4 DEF Storing

LEMMA CrashStep ==
  ASSUME IInv, Crash
  PROVE  IInv'
<1> USE DEF IInv
<1>0. reader' \in [Clients -> Readers]
    BY DEF TypeOK, Crash, Readers, Answers
<1>a. up' \in BOOLEAN /\ lost' \subseteq Jobs
  <2>1. up' = FALSE /\ lost' = lost \cup {j \in Jobs : status[j] = "running"}
      BY DEF Crash
  <2>2. lost \subseteq Jobs
      BY DEF TypeOK
  <2> QED
      BY <2>1, <2>2
<1>b. crashes' \in 0..MaxCrashes
  <2>1. crashes < MaxCrashes /\ crashes' = crashes + 1
      BY Zenon DEF Crash
  <2>2. crashes \in 0..MaxCrashes
      BY DEF TypeOK
  <2> QED
      BY <2>1, <2>2, ObjectsAssumption
<1>1. TypeOK'
    BY <1>0, <1>a, <1>b DEF TypeOK, Crash, rowVars
<1>2. Storing'
    BY RowsUntouched DEF Crash, rowVars
<1>3. Owners'
    BY DEF Crash, Owners, rowVars
<1>4. Reading'
    BY DEF Crash, Reading, TypeOK, Readers
<1> QED
    BY <1>1, <1>2, <1>3, <1>4

LEMMA RestartStep ==
  ASSUME IInv, Restart
  PROVE  IInv'
<1> USE DEF IInv
<1>0. up' \in BOOLEAN
    BY Zenon DEF TypeOK, Restart
<1>1. TypeOK'
    BY <1>0, ObjectsAssumption DEF TypeOK, Restart, Fault, NoFault, rowVars
<1>2. Storing'
    BY RowsUntouched DEF Restart, rowVars
<1>3. Owners'
    BY DEF Restart, Owners, rowVars
<1>4. Reading'
    BY ReadersUntouched DEF Restart, rowVars
<1> QED
    BY <1>1, <1>2, <1>3, <1>4

\* Every step preserves the inductive invariant.
LEMMA NextIInv == IInv /\ [Next]_vars => IInv'
<1> SUFFICES ASSUME IInv, [Next]_vars PROVE IInv'
    OBVIOUS
<1>1. CASE \E j \in Jobs : WorkerStep(j)
    BY <1>1, ProduceStep, UploadStep, CompleteStep, RecoverStep, ClockStep DEF WorkerStep
<1>2. CASE \E c \in Clients : ReaderStep(c)
    BY <1>2, LookUpStep, GetObjectStep, MarkFetchedStep DEF ReaderStep
<1>3. CASE ReaperStep
    BY <1>3, ReapReadStep, ReapDeleteStep DEF ReaperStep
<1>4. CASE Crash \/ Restart
    BY <1>4, CrashStep, RestartStep
<1>5. CASE UNCHANGED vars
  <2>1. TypeOK' /\ Owners'
      BY <1>5 DEF IInv, TypeOK, Owners, vars, rowVars
  <2>2. Storing'
      BY <1>5, RowsUntouched DEF vars, rowVars
  <2>3. Reading'
      BY <1>5, ReadersUntouched DEF vars, rowVars
  <2> QED
      BY <2>1, <2>2, <2>3 DEF IInv
<1> QED
    BY <1>1, <1>2, <1>3, <1>4, <1>5 DEF Next

\* The inductive invariant is an invariant.
THEOREM Invariance == Spec => []IInv
  BY InitIInv, NextIInv, PTL DEF Spec

\* Every variable of the object store model keeps its type.
THEOREM TypeCorrect == Spec => []TypeOK
<1>1. IInv => TypeOK
    BY DEF IInv
<1> QED
    BY <1>1, Invariance, PTL

\* For any number of jobs, outputs, failing puts, crashes and readers, a completed
\* row loses an object, and a gateway answers that bytes are gone, only through the
\* reaper.
THEOREM GoneOnlyByReaper == Spec => []GoneMeansReaped
<1>1. IInv => GoneMeansReaped
    BY DEF IInv, Storing, StoredAt, Reading, GoneMeansReaped
<1> QED
    BY <1>1, Invariance, PTL

\* Objects without a row that names them come only from jobs that are being stored
\* or failed, and the reaper has touched none of those.
THEOREM LeftoversAreFailures == Spec => []LeftoversExplained
<1>1. IInv => LeftoversExplained
  <2> SUFFICES ASSUME IInv, NEW o \in bucket
      PROVE  \/ status[o[1]] = "completed" /\ o[2] < next[o[1]]
             \/ status[o[1]] \in {"running", "failed"} /\ o \notin reaped
      BY DEF LeftoversExplained
  <2>1. o[1] \in Jobs /\ o[2] \in Indices /\ o = <<o[1], o[2]>>
      BY DEF IInv, TypeOK, Objects
  <2>2. StoredAt(o[1], o[2]) /\ status[o[1]] \in Statuses
      BY <2>1 DEF IInv, Storing, TypeOK
  <2>3. o \in reaped => status[o[1]] = "completed"
      BY DEF IInv, Owners
  <2> QED
      BY <2>1, <2>2, <2>3 DEF StoredAt, Statuses
<1> QED
    BY <1>1, Invariance, PTL

\* A recorded fetch protects the objects from every pass that has not yet read the
\* row.
THEOREM FetchProtects == Spec => KeptOnceFetched
<1> DEFINE Kept(j) ==
      (fetched[j] /\ ~InPass(j)) =>
          /\ \A i \in Indices : <<j, i>> \notin todo'
          /\ \A i \in Indices : <<j, i>> \in bucket => <<j, i>> \in bucket'
<1>1. ASSUME IInv, Next PROVE \A j \in Jobs : Kept(j)
  <2> SUFFICES ASSUME NEW j \in Jobs, fetched[j], ~InPass(j),
                      NEW i \in Indices
      PROVE  <<j, i>> \notin todo' /\ (<<j, i>> \in bucket => <<j, i>> \in bucket')
      OBVIOUS
  <2>0. <<j, i>> \notin todo
      BY DEF InPass
  <2>1. CASE \E k \in Jobs : WorkerStep(k)
      BY <1>1, <2>0, <2>1 DEF WorkerStep, Produce, Upload, Complete, Touch, Age, Recover
  <2>2. CASE \E c \in Clients : ReaderStep(c)
      BY <1>1, <2>0, <2>2 DEF ReaderStep, LookUp, GetObject, MarkFetched
  <2>3. CASE ReapRead
      BY <1>1, <2>0, <2>3 DEF ReapRead, Orphan
  <2>4. CASE \E o \in Objects : ReapDelete(o)
      BY <1>1, <2>0, <2>4 DEF ReapDelete
  <2>5. CASE Crash \/ Restart
      BY <1>1, <2>0, <2>5 DEF Crash, Restart
  <2> QED
      BY <1>1, <2>1, <2>2, <2>3, <2>4, <2>5 DEF Next, ReaperStep
<1>2. ASSUME IInv, [Next]_vars PROVE [\A j \in Jobs : Kept(j)]_vars
    BY <1>1, <1>2
<1> QED
    BY <1>2, Invariance, PTL DEF Spec, KeptOnceFetched
=============================================================================
