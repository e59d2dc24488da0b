--------------------------- MODULE LoraFetchProofs ---------------------------
(***************************************************************************)
(* What LoraFetch guarantees for every set of requests, versions and       *)
(* generation jobs, every size of the files and every value of the limits  *)
(* and the bounds.                                                         *)
(*                                                                         *)
(* The table is the lock: as long as a task lives its row is active, with  *)
(* the status that belongs to its stage, and no two active rows share a    *)
(* version.  From there a task knows what is on the disk under its name.   *)
(* What needs the semaphore to be serial (one fetch at a time, as deployed)*)
(* is stated for MaxConcurrent = 1.                                        *)
(***************************************************************************)
EXTENDS LoraFetch, SumTheorems

-----------------------------------------------------------------------------
(* The inductive invariant.                                                *)

\* The status of the row while its task is at a stage.
StatusesAt(stage) ==
    IF stage \in {"queued", "slot", "begin"} THEN {"pending"}
    ELSE IF stage \in {"meta", "place", "scan", "evict", "unlink", "open", "stream",
                       "verify", "again"} THEN {"downloading"}
    ELSE IF stage \in {"sidecar", "replace", "finish"} THEN {"verifying"}
    ELSE IF stage \in {"name", "fail"} THEN {"downloading", "verifying"}
    ELSE _NON_TERMINAL

NonTerminal(r) == rows[r].status \in _NON_TERMINAL

\* Stages at which the file of the version is known to be missing, at which a
\* partial download may exist, and after the file is in place.
Missing == {"scan", "evict", "unlink", "open", "stream", "verify", "sidecar", "replace"}
Writing == {"stream", "verify", "sidecar", "replace", "internal", "fail"}
Placed == {"name", "again", "finish"}

\* A row and the POST and the task of its request.
RowInv(r) ==
    /\ rows[r].status = "none" => rows[r] = NoLoraRow
    /\ rows[r].status # "none" => rows[r].version \in Versions
    /\ post[r].stage \in {"idle", "insert", "refind"} => rows[r].status = "none"
    /\ unanswered(post[r]) => post[r].version \in Versions
    /\ post[r].reply # None => /\ rows[post[r].reply].status # "none"
                               /\ rows[post[r].reply].version = post[r].version
    /\ Live(r) => phase \in {"up", "stopping"} /\ rows[r].status \in StatusesAt(task[r].stage)
    /\ phase = "up" /\ NonTerminal(r) => Live(r) \/ r \in lost
    /\ task[r].stage \in {"again", "finish"} => rows[r].dest_name

RowsInv ==
    /\ \A r \in Requests : RowInv(r)
    /\ todo = IF phase = "recovering" THEN {r \in Requests : NonTerminal(r)} ELSE {}

\* The partial unique index.
OneActiveRow ==
    \A q, r \in Requests :
        q # r /\ NonTerminal(q) /\ NonTerminal(r) => rows[q].version # rows[r].version

\* Who answers for the partial download of a version: a task that may be writing
\* it or has just failed to, a fetch that failed, one that nobody works on any more.
Answers(r) ==
    \/ task[r].stage \in Writing
    \/ rows[r].status = "failed"
    \/ NonTerminal(r) /\ ~Live(r)

Accountable(v) ==
    \E r \in Requests : rows[r].version = v /\ Answers(r)

FileInv(v) ==
    /\ disk[v].file \in {"absent", "drop", "good"}
    /\ disk[v].tmp # "absent" => Accountable(v)
    /\ disk[v].file = "drop" /\ disk[v].sidecar = "civitai" =>
          \E r \in Requests : rows[r].version = v

\* What a task may count on.
TaskInv(r) ==
    /\ task[r].stage \in {"sidecar", "replace"} => disk[rows[r].version].tmp = "good"
    /\ task[r].stage \in Missing => ~Present(rows[r].version)
    /\ task[r].stage = "unlink" => task[r].victim \in Versions
    /\ \A v \in Versions :
          (\E u \in Ranks : <<u, v>> \in task[r].cands) \/ task[r].victim = v =>
              disk[v].file # "drop" \/ disk[v].sidecar = "civitai"

DiskInv ==
    /\ \A v \in Versions : FileInv(v)
    /\ \A r \in Requests : TaskInv(r)

IInv == TypeOK /\ RowsInv /\ OneActiveRow /\ DiskInv

\* With one slot: the only task in the semaphore finds its file where it put it,
\* and knows how much the eviction has left to do.
Serial == \A q, r \in InSemaphore : q = r

Installed(r) ==
    /\ task[r].stage \in Placed => Present(rows[r].version)
    /\ task[r].stage \in Placed \cup {"replace"} => disk[rows[r].version].sidecar # "none"

Evicted(r) ==
    /\ task[r].stage \in {"none", "queued", "slot", "begin", "meta", "place"} =>
          task[r].required = 0 /\ task[r].reclaimed = 0
    /\ task[r].stage = "scan" => task[r].required > 0 /\ task[r].reclaimed = 0
    /\ task[r].stage \in {"scan", "evict", "unlink", "open"} /\ task[r].required > 0 =>
          DirectorySize + task[r].reclaimed + 2 * task[r].claimed
              <= task[r].required + DirMax
    /\ task[r].stage = "open" /\ task[r].required > 0 =>
          task[r].required <= task[r].reclaimed

SerialInv == Serial /\ \A r \in Requests : Installed(r) /\ Evicted(r)


-----------------------------------------------------------------------------
(* Operators.                                                              *)

\* The sums behind _directory_size.
LEMMA DirectorySizeIsNat ==
    TypeOK => DirectorySize \in Nat
<1> SUFFICES ASSUME TypeOK
             PROVE  DirectorySize \in Nat
  OBVIOUS
<1> DEFINE there == {v \in Versions : Present(v)}
<1>1. DirectorySize = SumOver(Size, there)
  BY DEF DirectorySize, SumOver
<1>2. Size \in [Versions -> Nat] /\ IsFiniteSet(Versions)
  BY FetchAssumption
<1>3. there \in SUBSET Versions
  OBVIOUS
<1> HIDE DEF there
<1>4. \A s \in SUBSET Versions : SumOver(Size, s) \in Nat
  BY ONLY <1>2, SumType
<1> QED BY <1>1, <1>3, <1>4

\* A task that moves on keeps its type, as does one that starts afresh.
LEMMA TaskOperations ==
    /\ NoTask \in Tasks
    /\ \A t \in Tasks, s \in Stages : [t EXCEPT !.stage = s] \in Tasks
    /\ \A l \in Requests \cup {None}, s \in Stages :
          [NoTask EXCEPT !.stage = s, !.lock = l] \in Tasks
    /\ \A r \in Requests, c \in ErrorCodes : task[r] \in Tasks => Failing(r, c) \in Tasks
<1>1. NoTask \in Tasks
  BY DEF Tasks, NoTask, Stages
<1>2. ASSUME NEW t \in Tasks, NEW s \in Stages
      PROVE  [t EXCEPT !.stage = s] \in Tasks
  BY DEF Tasks
<1>3. ASSUME NEW t \in Tasks, NEW l \in Requests \cup {None}
      PROVE  [t EXCEPT !.lock = l] \in Tasks
  BY DEF Tasks
<1>4. ASSUME NEW t \in Tasks, NEW c \in ErrorCodes
      PROVE  [t EXCEPT !.code = c] \in Tasks
  BY DEF Tasks
<1>5. ASSUME NEW l \in Requests \cup {None}, NEW s \in Stages
      PROVE  [NoTask EXCEPT !.stage = s, !.lock = l] \in Tasks
  <2>1. [NoTask EXCEPT !.stage = s, !.lock = l] = [[NoTask EXCEPT !.stage = s] EXCEPT !.lock = l]
    OBVIOUS
  <2> QED BY <1>1, <1>2, <1>3, <2>1
<1>6. ASSUME NEW r \in Requests, NEW c \in ErrorCodes, task[r] \in Tasks
      PROVE  Failing(r, c) \in Tasks
  <2>1. task[r].lock \in Requests \cup {None} /\ "fail" \in Stages
    BY <1>6 DEF Tasks, Stages, Holding, FetchStages
  <2>2. Failing(r, c)
            = [[[NoTask EXCEPT !.stage = "fail"] EXCEPT !.code = c] EXCEPT !.lock = task[r].lock]
    BY DEF Failing
  <2>3. [NoTask EXCEPT !.stage = "fail"] \in Tasks
    BY <1>1, <1>2, <2>1
  <2>4. [[NoTask EXCEPT !.stage = "fail"] EXCEPT !.code = c] \in Tasks
    BY <1>4, <2>3
  <2> QED BY <1>3, <2>1, <2>2, <2>4
<1> QED BY <1>1, <1>2, <1>5, <1>6

\* The rows the table functions write are rows.
LEMMA RowOperations ==
    /\ NoLoraRow \in LoraRow
    /\ \A v \in Versions : create_pending(v) \in LoraRow
    /\ \A row \in LoraRow : set_dest_name(row) \in LoraRow
    /\ \A row \in LoraRow, s \in FetchStatus : set_status(row, s) \in LoraRow
    /\ \A row \in LoraRow, c \in ErrorCodes \cup {"none"}, h \in BOOLEAN :
          set_failed(row, c, h) \in LoraRow
BY DEF LoraRow, NoLoraRow, create_pending, set_dest_name, set_status, set_failed,
       FetchStatus, _NON_TERMINAL, ErrorCodes

\* The lock table a task leaves behind.
LEMMA PrunedType ==
    ASSUME TypeOK, NEW r \in Requests
    PROVE  pruned(r) \in [Versions -> Requests \cup {None}]
BY DEF TypeOK, pruned


\* What each operation of a task leaves in its fields.
LEMMA TaskFields ==
    ASSUME NEW r \in Requests, NEW c
    PROVE  /\ Failing(r, c).stage = "fail" /\ Failing(r, c).cands = {}
           /\ Failing(r, c).victim = None /\ Failing(r, c).required = 0
           /\ Failing(r, c).code = c
           /\ NoTask.stage = "none" /\ NoTask.cands = {} /\ NoTask.victim = None
BY DEF Failing, NoTask

-----------------------------------------------------------------------------
(* Types.                                                                  *)

\* A step that writes one row, one task and the lock table, with values of
\* their types, keeps the types.
LEMMA WritesTyped ==
    ASSUME TypeOK, NEW r \in Requests,
           \/ rows' = rows
           \/ \E row \in LoraRow : rows' = [rows EXCEPT ![r] = row],
           \/ task' = task
           \/ \E t \in Tasks : task' = [task EXCEPT ![r] = t],
           locks' \in [Versions -> Requests \cup {None}],
           disk' \in [Versions -> Files],
           UNCHANGED <<phase, todo, post, job, lost, stops>>
    PROVE  TypeOK'
<1>1. rows' \in [Requests -> LoraRow]
  BY DEF TypeOK
<1>2. task' \in [Requests -> Tasks]
  BY DEF TypeOK
<1> QED BY <1>1, <1>2 DEF TypeOK

\* The tasks' own steps, apart from the last ones, keep the types.
LEMMA TaskTypes ==
    ASSUME TypeOK, NEW r \in Requests, task[r].stage = "unlink" => task[r].victim \in Versions,
           Live(r) => rows[r].version \in Versions,
           \/ TakeSlot(r) \/ TakeLock(r) \/ Begin(r) \/ Metadata(r) \/ Place(r)
           \/ Scan(r) \/ Recheck(r) \/ Unlink(r) \/ Open(r) \/ Stream(r) \/ Verify(r)
           \/ Sidecar(r) \/ Replace(r) \/ NameDest(r) \/ Again(r) \/ Raises(r)
    PROVE  TypeOK'
<1> DEFINE t == task[r]
           row == rows[r]
           v == row.version
<1>1. t \in Tasks /\ row \in LoraRow /\ disk \in [Versions -> Files]
      /\ locks \in [Versions -> Requests \cup {None}]
  BY DEF TypeOK
<1>2. \A s \in Stages : [t EXCEPT !.stage = s] \in Tasks
  BY <1>1, TaskOperations
<1>3. \A c \in ErrorCodes : Failing(r, c) \in Tasks
  BY <1>1, TaskOperations
<1>4. t.lock \in Requests \cup {None} /\ t.required \in Int /\ t.reclaimed \in Nat
      /\ t.cands \in SUBSET (Ranks \X Versions)
  BY <1>1 DEF Tasks
<1>5. \A s \in Stages : [NoTask EXCEPT !.stage = s, !.lock = t.lock] \in Tasks
  BY <1>4, TaskOperations
<1>6. FetchStages \subseteq Stages /\ {"slot", "begin", "internal"} \subseteq Stages
  BY DEF FetchStages, Stages, Holding
<1>7. "refused" \in ErrorCodes /\ "internal" \in ErrorCodes
  BY DEF ErrorCodes
<1>8. \A s \in _NON_TERMINAL : set_status(row, s) \in LoraRow
  BY <1>1, RowOperations DEF FetchStatus
<1>9. set_dest_name(row) \in LoraRow
  BY <1>1, RowOperations
<1>10. \A s \in FetchStages : s # "none"
  BY DEF FetchStages
<1> DEFINE Rest == UNCHANGED <<phase, todo, post, job, lost, stops>>
           RowOk == rows' = rows \/ \E x \in LoraRow : rows' = [rows EXCEPT ![r] = x]
           TaskOk == task' = task \/ \E x \in Tasks : task' = [task EXCEPT ![r] = x]
           LocksOk == locks' \in [Versions -> Requests \cup {None}]
           DiskOk == disk' \in [Versions -> Files]
<1> SUFFICES Rest /\ RowOk /\ TaskOk /\ LocksOk /\ DiskOk
  BY WritesTyped
<1>11. ASSUME NEW x \in Tasks, Goes(r, x)
       PROVE  Rest /\ RowOk /\ TaskOk /\ LocksOk /\ DiskOk
  BY <1>1, <1>11 DEF Goes
<1>12. CASE TakeSlot(r)
  <2> DEFINE l == IF locks[v] = None THEN r ELSE locks[v]
  <2>1. v \in Versions
    BY <1>12 DEF TakeSlot, Live
  <2>2. l \in Requests \cup {None}
    BY <1>1, <2>1
  <2>3. [[t EXCEPT !.stage = "slot"] EXCEPT !.lock = l] \in Tasks
    BY <1>2, <1>6, <2>2 DEF Tasks
  <2>4. task' = [task EXCEPT ![r] = [[t EXCEPT !.stage = "slot"] EXCEPT !.lock = l]]
    BY <1>12 DEF TakeSlot, TypeOK
  <2>5. TaskOk
    BY <2>3, <2>4
  <2>6. LocksOk
    BY <1>1, <1>12, <2>2 DEF TakeSlot
  <2> QED BY <1>1, <1>12, <2>5, <2>6 DEF TakeSlot
<1>13. CASE TakeLock(r)
  BY <1>1, <1>2, <1>6, <1>13 DEF TakeLock
<1>14. CASE Begin(r)
  BY <1>1, <1>2, <1>6, <1>8, <1>14 DEF Begin, _NON_TERMINAL, FetchStages
<1>15. CASE Metadata(r)
  <2>1. ASSUME NEW size \in Claims
        PROVE  [t EXCEPT !.stage = "place", !.claimed = size] \in Tasks
    BY <1>1, <1>6 DEF Tasks, FetchStages
  <2>2. \E x \in Tasks : Goes(r, x)
    BY <1>3, <1>7, <1>15, <2>1 DEF Metadata, MetadataFails, NoPrimaryFile
  <2> QED BY <1>11, <2>2
<1>16. CASE Place(r)
  <2>1. DirectorySize \in Nat
    BY DirectorySizeIsNat
  <2>2. required(t.claimed) \in Int
    <3>1. t.claimed \in Nat
      <4>1. t.claimed \in Claims \cup {0}
        BY <1>1 DEF Tasks
      <4>2. \A x \in Claims : x \in Nat
        BY ONLY FetchAssumption
      <4> HIDE DEF t
      <4> QED BY ONLY <4>1, <4>2
    <3>2. DirMax \in Nat
      BY FetchAssumption
    <3> HIDE DEF t
    <3> QED BY <2>1, <3>1, <3>2 DEF required
  <2>3. [t EXCEPT !.stage = "name", !.claimed = 0] \in Tasks
    BY <1>1, <1>6 DEF Tasks, FetchStages
  <2>4. [t EXCEPT !.stage = "scan", !.required = required(t.claimed)] \in Tasks
    BY <1>1, <1>6, <2>2 DEF Tasks, FetchStages
  <2>5. [t EXCEPT !.stage = "open"] \in Tasks
    BY <1>2, <1>6 DEF FetchStages
  <2>6. CASE Present(v)
    <3>1. /\ disk' = [disk EXCEPT ![v].sidecar = IF @ = "none" THEN "civitai" ELSE @]
          /\ task' = [task EXCEPT ![r].stage = "name", ![r].claimed = 0]
          /\ UNCHANGED <<phase, todo, post, rows, locks, job, lost, stops>>
      BY <1>16, <2>6 DEF Place
    <3>2. DiskOk
      BY <1>1, <3>1 DEF Files
    <3>3. task' = [task EXCEPT ![r] = [t EXCEPT !.stage = "name", !.claimed = 0]]
      BY <3>1 DEF TypeOK
    <3> QED BY <1>1, <2>3, <3>1, <3>2, <3>3
  <2>7. CASE ~ Present(v)
    <3>1. \E x \in Tasks : Goes(r, x)
      BY <1>16, <2>4, <2>5, <2>7 DEF Place
    <3> QED BY <1>11, <3>1
  <2> QED BY <2>6, <2>7
<1>17. CASE Scan(r)
  <2> DEFINE new == {<<disk[u].used, u>> : u \in {w \in Versions : Evictable(w)}}
  <2>1. new \in SUBSET (Ranks \X Versions)
    BY <1>1 DEF Evictable, Files, Ranks
  <2> HIDE DEF new
  <2>2. [t EXCEPT !.stage = "evict", !.reclaimed = 0, !.cands = new] \in Tasks
    BY <1>1, <1>6, <2>1 DEF Tasks, FetchStages
  <2>3. Goes(r, [t EXCEPT !.stage = "evict", !.reclaimed = 0, !.cands = new])
    BY <1>17 DEF Scan, new
  <2> QED BY <1>11, <2>2, <2>3
<1>18. CASE Recheck(r)
  <2>1. [t EXCEPT !.stage = "open", !.cands = {}] \in Tasks
    BY <1>1, <1>6 DEF Tasks, FetchStages
  <2>2. ASSUME NEW c \in Oldest(t.cands)
        PROVE  /\ [t EXCEPT !.cands = t.cands \ {c}] \in Tasks
               /\ [t EXCEPT !.stage = "unlink", !.cands = t.cands \ {c}, !.victim = c[2]] \in Tasks
    <3>1. c[2] \in Versions /\ t.cands \ {c} \in SUBSET (Ranks \X Versions)
      BY <1>4 DEF Oldest
    <3> QED BY <1>1, <1>6, <3>1 DEF Tasks, FetchStages
  <2>3. \E x \in Tasks : Goes(r, x)
    BY <1>3, <1>7, <1>18, <2>1, <2>2 DEF Recheck
  <2> QED BY <1>11, <2>3
<1>19. CASE Unlink(r)
  <2> DEFINE u == t.victim
  <2>1. u \in Versions /\ Size[u] \in Nat
    BY <1>19, FetchAssumption DEF Unlink, At
  <2>2. [t EXCEPT !.stage = "evict", !.victim = None] \in Tasks
    BY <1>1, <1>6 DEF Tasks, FetchStages
  <2>3. [t EXCEPT !.stage = "evict", !.victim = None, !.reclaimed = t.reclaimed + Size[u]]
           \in Tasks
    <3>1. t.reclaimed + Size[u] \in Nat
      BY <1>4, <2>1
    <3> QED BY <1>1, <1>6, <3>1 DEF Tasks, FetchStages
  <2>4. CASE Goes(r, [t EXCEPT !.stage = "evict", !.victim = None])
    BY <1>11, <2>2, <2>4
  <2>5. CASE ~ Goes(r, [t EXCEPT !.stage = "evict", !.victim = None])
    <3>1. /\ \E left \in BOOLEAN :
                disk' = [disk EXCEPT ![u].file = "absent",
                                     ![u].sidecar = IF left THEN @ ELSE "none",
                                     ![u].used = IF left THEN @ ELSE "never"]
          /\ task' = [task EXCEPT ![r].stage = "evict", ![r].victim = None,
                                  ![r].reclaimed = @ + Size[u]]
          /\ UNCHANGED <<phase, todo, post, rows, locks, job, lost, stops>>
      BY <1>19, <2>5 DEF Unlink
    <3>2. DiskOk
      BY <1>1, <2>1, <3>1 DEF Files, Content
    <3>3. task' = [task EXCEPT ![r] = [t EXCEPT !.stage = "evict", !.victim = None,
                                                !.reclaimed = t.reclaimed + Size[u]]]
      BY <3>1 DEF TypeOK
    <3>4. TaskOk
      BY <2>3, <3>3
    <3> QED BY <1>1, <3>1, <3>2, <3>4
  <2> QED BY <2>4, <2>5
<1>20. CASE Open(r)
  <2>1. v \in Versions
    BY <1>10, <1>20 DEF Open, At, Live, FetchStages
  <2>2. CASE UnsafeUrl(r)
    BY <1>3, <1>7, <1>11, <2>2 DEF UnsafeUrl
  <2>3. CASE ~UnsafeUrl(r)
    <3>1. DiskOk
      BY <1>1, <1>20, <2>1, <2>3 DEF Open, Files, Content
    <3>2. TaskOk
      BY <1>5, <1>6, <1>20, <2>3 DEF Open, FetchStages
    <3> QED BY <1>1, <1>20, <2>3, <3>1, <3>2 DEF Open
  <2> QED BY <2>2, <2>3
<1>21. CASE Stream(r)
  <2>1. v \in Versions
    BY <1>10, <1>21 DEF Stream, At, Live, FetchStages
  <2>2. DiskOk
    BY <1>1, <1>21, <2>1 DEF Stream, unlink_quiet, Files, Content
  <2>3. TaskOk
    <3>1. [t EXCEPT !.stage = "verify"] \in Tasks
      BY <1>2, <1>6 DEF FetchStages
    <3>2. task' = [task EXCEPT ![r] = [t EXCEPT !.stage = "verify"]]
          \/ \E c \in ErrorCodes : task' = [task EXCEPT ![r] = Failing(r, c)]
      BY <1>7, <1>21 DEF Stream, TypeOK
    <3> QED BY <1>3, <3>1, <3>2
  <2> QED BY <1>1, <1>21, <2>2, <2>3 DEF Stream
<1>22. CASE Verify(r)
  <2>1. v \in Versions
    BY <1>10, <1>22 DEF Verify, At, Live, FetchStages
  <2>2. DiskOk
    BY <1>1, <1>22, <2>1 DEF Verify, unlink_quiet, Files, Content
  <2>3. TaskOk
    <3>1. [t EXCEPT !.stage = "sidecar"] \in Tasks
      BY <1>2, <1>6 DEF FetchStages
    <3>2. task' = [task EXCEPT ![r] = [t EXCEPT !.stage = "sidecar"]]
          \/ task' = [task EXCEPT ![r] = Failing(r, "refused")]
      BY <1>22 DEF Verify, TypeOK
    <3> QED BY <1>3, <1>7, <3>1, <3>2
  <2>4. RowOk
    BY <1>1, <1>8, <1>22 DEF Verify, _NON_TERMINAL
  <2> QED BY <1>1, <1>22, <2>2, <2>3, <2>4 DEF Verify
<1>23. CASE Sidecar(r)
  <2>1. v \in Versions
    BY <1>10, <1>23 DEF Sidecar, At, Live, FetchStages
  <2>2. DiskOk
    BY <1>1, <1>23, <2>1 DEF Sidecar, Files
  <2> QED BY <1>1, <1>2, <1>6, <1>23, <2>2 DEF Sidecar, FetchStages
<1>24. CASE Replace(r)
  <2>1. v \in Versions
    BY <1>10, <1>24 DEF Replace, At, Live, FetchStages
  <2>2. DiskOk
    BY <1>1, <1>24, <2>1 DEF Replace, Files, Content
  <2> QED BY <1>1, <1>2, <1>6, <1>24, <2>2 DEF Replace, FetchStages
<1>25. CASE NameDest(r)
  <2>1. [t EXCEPT !.stage = "again"] \in Tasks /\ [t EXCEPT !.stage = "finish"] \in Tasks
    BY <1>2, <1>6 DEF FetchStages
  <2>2. TaskOk
    BY <1>25, <2>1 DEF NameDest, TypeOK
  <2> QED BY <1>1, <1>9, <1>25, <2>2 DEF NameDest
<1>26. CASE Again(r)
  BY <1>1, <1>2, <1>6, <1>8, <1>26 DEF Again, _NON_TERMINAL, FetchStages
<1>27. CASE Raises(r)
  BY <1>5, <1>6, <1>11, <1>27 DEF Raises
<1> QED BY <1>12, <1>13, <1>14, <1>15, <1>16, <1>17, <1>18, <1>19, <1>20, <1>21,
           <1>22, <1>23, <1>24, <1>25, <1>26, <1>27


\* The last write of a task keeps the types.
LEMMA LeaveTyped ==
    ASSUME TypeOK, NEW r \in Requests, NEW row \in LoraRow, Leave(r, row),
           lost' \subseteq Requests, Cardinality(lost') <= MaxFaults
    PROVE  TypeOK'
<1>1. rows' \in [Requests -> LoraRow] /\ task' \in [Requests -> Tasks]
  BY TaskOperations DEF TypeOK, Leave
<1>2. locks' \in [Versions -> Requests \cup {None}]
  BY PrunedType DEF Leave
<1> QED BY <1>1, <1>2 DEF TypeOK, Leave

LEMMA LastTypes ==
    ASSUME TypeOK, NEW r \in Requests,
           Finish(r) \/ Fail(r) \/ Internal(r) \/ RowReadFails(r)
    PROVE  TypeOK'
<1> DEFINE row == rows[r]
<1>1. row \in LoraRow /\ task[r].code \in ErrorCodes \cup {"none"}
  BY DEF TypeOK, Tasks
<1>2. lost \subseteq Requests /\ Cardinality(lost) <= MaxFaults
  BY DEF TypeOK
<1>3. CASE Finish(r)
  <2>1. set_status(row, "done") \in LoraRow
    BY <1>1, RowOperations DEF FetchStatus
  <2> QED BY <1>2, <1>3, <2>1, LeaveTyped DEF Finish
<1>4. CASE Fail(r)
  <2>1. set_failed(row, task[r].code, FALSE) \in LoraRow
    BY <1>1, RowOperations
  <2> QED BY <1>2, <1>4, <2>1, LeaveTyped DEF Fail
<1>5. CASE Internal(r) /\ lost' = lost
  <2>1. \E x \in LoraRow : Leave(r, x)
    BY <1>1, <1>5, RowOperations DEF Internal, ErrorCodes
  <2> QED BY <1>2, <1>5, <2>1, LeaveTyped
<1>6. CASE (Internal(r) /\ lost' # lost) \/ RowReadFails(r)
  <2>1. /\ Cardinality(lost) < MaxFaults /\ lost' = lost \cup {r}
        /\ Leave(r, row) \/ RowReadFails(r)
    BY <1>6 DEF Internal, RowReadFails
  <2>2. IsFiniteSet(lost)
    BY <1>2, FetchAssumption, FS_Subset
  <2>3. Cardinality(lost') <= Cardinality(lost) + 1
    <3>1. Cardinality(lost \cup {r}) = IF r \in lost THEN Cardinality(lost)
                                       ELSE Cardinality(lost) + 1
      BY ONLY <2>2, FS_AddElement
    <3>2. Cardinality(lost) \in Nat
      BY <2>2, FS_CardinalityType
    <3> QED BY <2>1, <3>1, <3>2
  <2>4. Cardinality(lost) \in Nat /\ Cardinality(lost') \in Nat /\ MaxFaults \in Nat
    BY <2>1, <2>2, FS_AddElement, FS_CardinalityType, FetchAssumption
  <2>5. Cardinality(lost') <= MaxFaults
    BY ONLY <2>1, <2>3, <2>4
  <2>6. CASE RowReadFails(r)
    <3>1. task' \in [Requests -> Tasks]
      BY <2>6, TaskOperations DEF RowReadFails, TypeOK
    <3> QED BY <1>2, <2>1, <2>5, <2>6, <3>1 DEF RowReadFails, TypeOK
  <2> QED BY <1>1, <1>2, <2>1, <2>5, <2>6, LeaveTyped
<1> QED BY <1>3, <1>4, <1>5, <1>6

\* The handlers of POST /v1/loras/fetch keep the types.
LEMMA HandlerTypes ==
    ASSUME TypeOK, NEW r \in Requests, unanswered(post[r]) => post[r].version \in Versions,
           \/ \E v \in Versions : Post(r, v)
           \/ Insert(r) \/ Refind(r)
    PROVE  TypeOK'
<1> DEFINE v == post[r].version
<1>1. rows \in [Requests -> LoraRow] /\ task \in [Requests -> Tasks]
  BY DEF TypeOK
<1>2. CASE \E u \in Versions : Post(r, u)
  BY <1>2 DEF Post, TypeOK, find_active_by_version
<1>3. CASE Refind(r)
  BY <1>3 DEF Refind, TypeOK, find_active_by_version
<1>4. CASE Insert(r) /\ UniqueIndexAllows(v)
  <2>1. create_pending(v) \in LoraRow
    BY <1>4, RowOperations DEF Insert, unanswered
  <2>2. [task[r] EXCEPT !.stage = "queued"] \in Tasks
    BY <1>1, TaskOperations DEF Stages
  <2>3. rows' \in [Requests -> LoraRow] /\ task' \in [Requests -> Tasks]
    BY <1>1, <1>4, <2>1, <2>2 DEF Insert
  <2>4. post' \in [Requests -> [stage : {"idle", "insert", "refind", "answered"},
                              version : Versions \cup {None},
                              reply : Requests \cup {None}]]
    BY <1>4 DEF Insert, TypeOK
  <2> QED BY <1>4, <2>3, <2>4 DEF Insert, TypeOK
<1>5. CASE Insert(r) /\ ~UniqueIndexAllows(v)
  BY <1>5 DEF Insert, TypeOK
<1> QED BY <1>2, <1>3, <1>4, <1>5

\* Generation jobs and the clock keep the types.
JobStep ==
    \E j \in GenJobs : \/ \E v \in Versions : Check(j, v)
                       \/ Touch(j) \/ Accept(j) \/ Work(j) \/ EndJob(j)

LEMMA JobTypes ==
    ASSUME TypeOK, JobStep \/ \E v \in Versions : Age(v)
    PROVE  TypeOK'
<1>0. disk \in [Versions -> Files] /\ job \in [GenJobs -> GenJob]
  BY DEF TypeOK
<1>1. \A v : touched(v) \in [Versions -> Files]
  BY <1>0 DEF touched, Files
<1>2. ASSUME NEW j \in GenJobs, NEW s \in {"touched", "active", "running", "ended"}, JobGoes(j, s)
      PROVE  job' \in [GenJobs -> GenJob]
  BY <1>0, <1>2 DEF JobGoes, GenJob, NoLora
<1>3. CASE JobStep
  <2> SUFFICES ASSUME NEW j \in GenJobs,
                      \/ \E v \in Versions : Check(j, v)
                      \/ Touch(j) \/ Accept(j) \/ Work(j) \/ EndJob(j)
               PROVE  TypeOK'
    BY <1>3 DEF JobStep
  <2>1. CASE \E v \in Versions : Check(j, v)
    <3>1. job' \in [GenJobs -> GenJob]
      BY <1>0, <2>1 DEF Check, GenJob
    <3> QED BY <2>1, <3>1 DEF Check, TypeOK
  <2>2. CASE ~ \E v \in Versions : Check(j, v)
    <3>1. \E s \in {"touched", "active", "running", "ended"} : JobGoes(j, s)
      BY <2>2 DEF Touch, Accept, Work, EndJob
    <3>2. disk' = disk \/ \E v : disk' = touched(v)
      BY <2>2 DEF Touch, Accept, Work, EndJob
    <3>3. job' \in [GenJobs -> GenJob] /\ disk' \in [Versions -> Files]
      BY <1>0, <1>1, <1>2, <3>1, <3>2
    <3> QED BY <3>1, <3>3 DEF TypeOK, JobGoes
  <2> QED BY <2>1, <2>2
<1>4. CASE \E v \in Versions : Age(v)
  <2>1. disk' \in [Versions -> Files]
    BY <1>0, <1>4 DEF Age, Files
  <2> QED BY <1>4, <2>1 DEF Age, TypeOK
<1> QED BY <1>3, <1>4

\* Shutdown, death and recovery keep the types.
LifeStep ==
    \/ Shutdown \/ Stopped \/ Crash \/ Boot \/ Serve \/ Quiescent
    \/ \E r \in Requests : Cancelled(r) \/ RecoverRow(r)

\* The row that the write of a stage leaves, and the one the handler of a
\* cancellation makes of it.
LEMMA WrittenRow ==
    ASSUME TypeOK, NEW r \in Requests
    PROVE  /\ written(r) \in LoraRow /\ written(r).version = rows[r].version
           /\ rows[r].dest_name => written(r).dest_name
           /\ \/ written(r).status = rows[r].status
              \/ task[r].stage \in {"begin", "verify", "again"}
                 /\ written(r).status \in _NON_TERMINAL
              \/ task[r].stage = "finish" /\ written(r).status = "done"
              \/ task[r].stage \in {"fail", "internal"} /\ written(r).status = "failed"
<1> DEFINE row == rows[r]
<1>1. row \in LoraRow /\ task[r].code \in ErrorCodes \cup {"none"}
  BY DEF TypeOK, Tasks
<1>2. written(r) \in {set_status(row, "downloading"), set_status(row, "verifying"),
                      set_dest_name(row), set_status(row, "done"),
                      set_failed(row, task[r].code, FALSE),
                      set_failed(row, "internal", FALSE), row}
  BY DEF written
<1>3. {"downloading", "verifying", "done"} \subseteq FetchStatus /\ "internal" \in ErrorCodes
  BY DEF FetchStatus, _NON_TERMINAL, ErrorCodes
<1>4. written(r) \in LoraRow
  BY <1>1, <1>2, <1>3, RowOperations
<1>5. /\ \A s : /\ set_status(row, s).version = row.version
               /\ set_status(row, s).dest_name = row.dest_name
               /\ set_status(row, s).status = s
      /\ \A c : /\ set_failed(row, c, FALSE).version = row.version
               /\ set_failed(row, c, FALSE).dest_name = row.dest_name
               /\ set_failed(row, c, FALSE).status = "failed"
      /\ set_dest_name(row).version = row.version /\ set_dest_name(row).dest_name
      /\ set_dest_name(row).status = row.status
  BY <1>1 DEF LoraRow, set_status, set_failed, set_dest_name
<1>6. written(r).version = row.version /\ (row.dest_name => written(r).dest_name)
  BY <1>2, <1>5
<1>7. \/ written(r).status = row.status
      \/ task[r].stage \in {"begin", "verify", "again"} /\ written(r).status \in _NON_TERMINAL
      \/ task[r].stage = "finish" /\ written(r).status = "done"
      \/ task[r].stage \in {"fail", "internal"} /\ written(r).status = "failed"
  <2>1. CASE task[r].stage \in {"begin", "verify", "again", "name", "finish", "fail", "internal"}
    BY <1>5, <2>1 DEF written, _NON_TERMINAL
  <2>2. CASE task[r].stage \notin {"begin", "verify", "again", "name", "finish", "fail", "internal"}
    BY <2>2 DEF written
  <2> QED BY <2>1, <2>2
<1> QED BY <1>4, <1>6, <1>7

LEMMA HandedOver ==
    ASSUME NEW row \in LoraRow
    PROVE  /\ handed_over(row) \in LoraRow /\ handed_over(row).version = row.version
           /\ handed_over(row).dest_name = row.dest_name
           /\ row.status \in _NON_TERMINAL =>
                 handed_over(row).status = "failed" /\ handed_over(row).handover
           /\ row.status \in {"done", "failed"} => handed_over(row) = row
<1>1. set_failed(row, "service_restarted", TRUE) \in LoraRow
  BY RowOperations DEF ErrorCodes
<1>2. LET new == set_failed(row, "service_restarted", TRUE) IN
      /\ new.version = row.version /\ new.dest_name = row.dest_name
      /\ new.status = "failed" /\ new.handover
  BY DEF set_failed, LoraRow
<1>3. /\ \A s \in _NON_TERMINAL : "failed" \in _ALLOWED_TRANSITIONS[s]
      /\ \A s \in {"done", "failed"} : "failed" \notin _ALLOWED_TRANSITIONS[s]
  BY DEF _ALLOWED_TRANSITIONS, _NON_TERMINAL
<1> QED BY <1>1, <1>2, <1>3 DEF handed_over

LEMMA CancelledTyped ==
    ASSUME TypeOK, NEW r \in Requests, Cancelled(r)
    PROVE  /\ rows' \in [Requests -> LoraRow]
           /\ \E row : row.version = rows[r].version /\ rows' = [rows EXCEPT ![r] = row]
<1>1. rows \in [Requests -> LoraRow] /\ rows[r] \in LoraRow
  BY DEF TypeOK
<1>2. PICK w \in {rows[r], written(r)} :
         rows' = [rows EXCEPT ![r] = IF task[r].stage \in FetchStages
                                     THEN handed_over(w) ELSE w]
  BY DEF Cancelled
<1>3. w \in LoraRow /\ w.version = rows[r].version
  BY <1>1, <1>2, WrittenRow
<1>4. handed_over(w) \in LoraRow /\ handed_over(w).version = rows[r].version
  BY <1>3, HandedOver
<1> QED BY <1>1, <1>2, <1>3, <1>4

LEMMA LifeTypes ==
    ASSUME TypeOK, LifeStep
    PROVE  TypeOK'
<1>0. /\ disk \in [Versions -> Files] /\ job \in [GenJobs -> GenJob]
      /\ rows \in [Requests -> LoraRow] /\ task \in [Requests -> Tasks]
      /\ stops \in 0..MaxStops /\ MaxStops \in Nat
  BY FetchAssumption DEF TypeOK
<1>1. \A r \in Requests : set_failed(rows[r], "service_restarted", TRUE) \in LoraRow
  BY <1>0, RowOperations DEF ErrorCodes
<1>2. CASE Shutdown
  BY <1>0, <1>2 DEF Shutdown, TypeOK
<1>3. ASSUME Down, stops' \in 0..MaxStops
      PROVE  TypeOK'
  <2>1. job' \in [GenJobs -> GenJob]
    BY <1>0, <1>3 DEF Down, stopped, GenJob, NoLora
  <2>2. task' \in [Requests -> Tasks] /\ locks' \in [Versions -> Requests \cup {None}]
    BY <1>3, TaskOperations DEF Down
  <2>3. post' \in [Requests -> [stage : {"idle", "insert", "refind", "answered"},
                              version : Versions \cup {None},
                              reply : Requests \cup {None}]]
    BY <1>3 DEF Down, TypeOK
  <2>4. lost' = {} /\ Cardinality(lost') <= MaxFaults
    BY <1>3, FS_EmptySet, FetchAssumption DEF Down
  <2> QED BY <1>3, <2>1, <2>2, <2>3, <2>4 DEF Down, TypeOK
<1>4. CASE Stopped \/ Crash
  BY <1>0, <1>3, <1>4 DEF Stopped, Crash
<1>5. CASE Boot \/ Quiescent
  BY <1>5 DEF Boot, Quiescent, vars, TypeOK
<1>6. CASE Serve
  <2>1. disk' \in [Versions -> Files]
    BY <1>0, <1>6 DEF Serve, Files, Content
  <2> QED BY <1>6, <2>1 DEF Serve, TypeOK
<1>7. ASSUME NEW r \in Requests, Cancelled(r)
      PROVE  TypeOK'
  <2>1. rows' \in [Requests -> LoraRow]
    BY <1>0, <1>7, CancelledTyped
  <2>3. task' \in [Requests -> Tasks]
    BY <1>0, <1>7, TaskOperations DEF Cancelled
  <2>2. locks' \in [Versions -> Requests \cup {None}]
    BY <1>7, PrunedType DEF Cancelled, TypeOK
  <2> QED BY <1>7, <2>1, <2>2, <2>3 DEF Cancelled, TypeOK
<1>8. ASSUME NEW r \in Requests, RecoverRow(r)
      PROVE  TypeOK'
  <2>1. rows' \in [Requests -> LoraRow]
    BY <1>0, <1>1, <1>8 DEF RecoverRow
  <2> QED BY <1>8, <2>1 DEF RecoverRow, TypeOK
<1> QED BY <1>2, <1>4, <1>5, <1>6, <1>7, <1>8 DEF LifeStep

\* Every step is one of these.
OwnStep(r) ==
    \/ TakeSlot(r) \/ TakeLock(r) \/ Begin(r) \/ Metadata(r) \/ Place(r)
    \/ Scan(r) \/ Recheck(r) \/ Unlink(r) \/ Open(r) \/ Stream(r) \/ Verify(r)
    \/ Sidecar(r) \/ Replace(r) \/ NameDest(r) \/ Again(r) \/ Raises(r)

LastStep(r) == Finish(r) \/ Fail(r) \/ Internal(r) \/ RowReadFails(r)

PostStep(r) == (\E v \in Versions : Post(r, v)) \/ Insert(r) \/ Refind(r)

LEMMA StepKinds ==
    ASSUME [Next]_vars
    PROVE  \/ \E r \in Requests : OwnStep(r) \/ LastStep(r) \/ PostStep(r)
           \/ JobStep \/ (\E v \in Versions : Age(v))
           \/ LifeStep \/ vars' = vars
BY DEF Next, Handler, TaskStep, Lifespan, Stopping, OwnStep, LastStep, PostStep, JobStep, LifeStep

LEMMA NextTypes ==
    ASSUME TypeOK, RowsInv, DiskInv, [Next]_vars
    PROVE  TypeOK'
<1>1. ASSUME NEW r \in Requests, OwnStep(r)
      PROVE  TypeOK'
  <2>1. task[r].stage = "unlink" => task[r].victim \in Versions
    BY DEF DiskInv, TaskInv
  <2>2. Live(r) => rows[r].version \in Versions
    BY DEF RowsInv, RowInv, StatusesAt, _NON_TERMINAL
  <2> QED BY <1>1, <2>1, <2>2, TaskTypes DEF OwnStep
<1>2. ASSUME NEW r \in Requests, LastStep(r)
      PROVE  TypeOK'
  BY <1>2, LastTypes DEF LastStep
<1>3. ASSUME NEW r \in Requests, PostStep(r)
      PROVE  TypeOK'
  <2>1. unanswered(post[r]) => post[r].version \in Versions
    BY DEF RowsInv, RowInv
  <2> QED BY <1>3, <2>1, HandlerTypes DEF PostStep
<1>4. CASE vars' = vars
  BY <1>4 DEF vars, TypeOK
<1> QED BY <1>1, <1>2, <1>3, <1>4, StepKinds, JobTypes, LifeTypes


-----------------------------------------------------------------------------
(* Rows.                                                                   *)

\* The moves the fetcher makes, all of them allowed.
LEMMA AllowedMoves ==
    /\ "downloading" \in _ALLOWED_TRANSITIONS["pending"]
    /\ "verifying" \in _ALLOWED_TRANSITIONS["downloading"]
    /\ "done" \in _ALLOWED_TRANSITIONS["verifying"]
    /\ \A s \in _NON_TERMINAL : "failed" \in _ALLOWED_TRANSITIONS[s]
BY DEF _ALLOWED_TRANSITIONS, _NON_TERMINAL

\* What the table functions do to the fields of a row.
LEMMA RowFields ==
    ASSUME NEW row \in LoraRow
    PROVE  /\ \A s : LET new == set_status(row, s) IN
                /\ new.status = s /\ new.version = row.version
                /\ new.error_code = row.error_code /\ new.dest_name = row.dest_name
           /\ \A c, h : LET new == set_failed(row, c, h) IN
                /\ new.status = "failed" /\ new.version = row.version /\ new.error_code = c
                /\ new.dest_name = row.dest_name
           /\ LET new == set_dest_name(row) IN
                /\ new.status = row.status /\ new.version = row.version
                /\ new.error_code = row.error_code /\ new.dest_name
           /\ \A v : create_pending(v).status = "pending" /\ create_pending(v).version = v
                     /\ create_pending(v).error_code = "none"
           /\ NoLoraRow.status = "none" /\ NoLoraRow.error_code = "none"
BY DEF LoraRow, set_status, set_failed, set_dest_name, create_pending, NoLoraRow

\* How a step may leave the row of a request.
Inserted(r) ==
    /\ rows[r].status = "none" /\ UniqueIndexAllows(post[r].version)
    /\ post[r].version \in Versions
    /\ rows'[r] = create_pending(post[r].version)

Advanced(r) ==
    /\ NonTerminal(r) /\ rows'[r].version = rows[r].version
    /\ \/ rows'[r].status \in _ALLOWED_TRANSITIONS[rows[r].status]
       \/ rows'[r].status = rows[r].status
    /\ rows'[r].status # "none"

RowMoves(r) == rows'[r] = rows[r] \/ Inserted(r) \/ Advanced(r)

OneRowMoves ==
    \E r \in Requests : RowMoves(r) /\ \A q \in Requests \ {r} : rows'[q] = rows[q]

\* A task that lives at a stage finds the status that goes with it.
LEMMA LiveStatus ==
    ASSUME RowsInv, NEW r \in Requests, Live(r)
    PROVE  rows[r].status \in StatusesAt(task[r].stage) /\ NonTerminal(r)
BY DEF RowsInv, RowInv, NonTerminal, StatusesAt, _NON_TERMINAL

\* The three ways to write the row of a live fetch.
LEMMA RowWritten ==
    ASSUME TypeOK, NEW r \in Requests, NonTerminal(r), NEW new,
           rows' = [rows EXCEPT ![r] = new],
           \/ \E s \in _ALLOWED_TRANSITIONS[rows[r].status] :
                 s # "none" /\ new = set_status(rows[r], s)
           \/ \E c, h : new = set_failed(rows[r], c, h)
           \/ new = set_dest_name(rows[r])
    PROVE  OneRowMoves
<1> DEFINE row == rows[r]
<1>1. row \in LoraRow /\ row.status # "none"
  BY DEF TypeOK, NonTerminal, _NON_TERMINAL
<1>2. rows'[r] = new /\ \A q \in Requests \ {r} : rows'[q] = rows[q]
  BY DEF TypeOK
<1>3. CASE \E s \in _ALLOWED_TRANSITIONS[row.status] : s # "none" /\ new = set_status(row, s)
  <2>1. /\ new.status \in _ALLOWED_TRANSITIONS[row.status] /\ new.status # "none"
        /\ new.version = row.version /\ new.error_code = row.error_code
    BY <1>1, <1>3, RowFields
  <2> QED BY <1>2, <2>1 DEF OneRowMoves, RowMoves, Advanced
<1>4. CASE \E c, h : new = set_failed(row, c, h)
  <2>1. new.status = "failed" /\ new.version = row.version
    BY <1>1, <1>4, RowFields
  <2>2. "failed" \in _ALLOWED_TRANSITIONS[row.status]
    BY AllowedMoves DEF NonTerminal
  <2> QED BY <1>2, <2>1, <2>2 DEF OneRowMoves, RowMoves, Advanced
<1>5. CASE new = set_dest_name(row)
  <2>1. /\ new.status = row.status /\ new.version = row.version
        /\ new.error_code = row.error_code
    BY <1>1, <1>5, RowFields
  <2> QED BY <1>1, <1>2, <2>1 DEF OneRowMoves, RowMoves, Advanced
<1> QED BY <1>3, <1>4, <1>5

\* What a cancellation makes of the row of its task.
CancelledAs(r) ==
    /\ NonTerminal(r) /\ rows'[r].version = rows[r].version
    /\ rows[r].dest_name => rows'[r].dest_name
    /\ \/ rows'[r] = rows[r] /\ task[r].stage \notin FetchStages
       \/ /\ rows'[r].status = "failed"
          /\ task[r].stage \in FetchStages => rows'[r].handover \/ task[r].stage = "fail"
       \/ /\ task[r].stage = "finish" /\ rows[r].status = "verifying"
          /\ rows'[r].status = "done"

LEMMA CancelledRow ==
    ASSUME TypeOK, RowsInv, NEW r \in Requests, Cancelled(r)
    PROVE  CancelledAs(r)
<1> DEFINE row == rows[r]
           stage == task[r].stage
<1>1. Live(r) /\ row \in LoraRow
  BY DEF Cancelled, Live, TypeOK
<1>2. NonTerminal(r) /\ row.status \in StatusesAt(stage)
  BY <1>1, LiveStatus
<1>3. PICK w \in {row, written(r)} :
         rows' = [rows EXCEPT ![r] = IF stage \in FetchStages THEN handed_over(w) ELSE w]
  BY DEF Cancelled
<1>4. rows'[r] = IF stage \in FetchStages THEN handed_over(w) ELSE w
  BY <1>3 DEF TypeOK
<1>5. /\ w \in LoraRow /\ w.version = row.version /\ (row.dest_name => w.dest_name)
      /\ \/ w.status = row.status
         \/ stage \in {"begin", "verify", "again"} /\ w.status \in _NON_TERMINAL
         \/ stage = "finish" /\ w.status = "done"
         \/ stage \in {"fail", "internal"} /\ w.status = "failed"
  BY <1>1, <1>3, WrittenRow
<1>6. CASE stage \in FetchStages
  <2>1. rows'[r] = handed_over(w)
    BY <1>4, <1>6
  <2>2. /\ rows'[r].version = row.version /\ (row.dest_name => rows'[r].dest_name)
    BY <1>5, <2>1, HandedOver
  <2>3. CASE w.status \in _NON_TERMINAL
    <3>1. rows'[r].status = "failed" /\ rows'[r].handover
      BY <1>5, <2>1, <2>3, HandedOver
    <3> QED BY <1>2, <2>2, <3>1 DEF CancelledAs
  <2>4. CASE w.status \notin _NON_TERMINAL
    <3>1. (stage = "finish" /\ w.status = "done") \/ (stage = "fail" /\ w.status = "failed")
      BY <1>2, <1>5, <1>6, <2>4 DEF NonTerminal, FetchStages
    <3>2. rows'[r] = w
      BY <1>5, <2>1, <3>1, HandedOver
    <3>3. stage = "finish" => row.status = "verifying"
      BY <1>2 DEF StatusesAt
    <3> QED BY <1>2, <2>2, <3>1, <3>2, <3>3 DEF CancelledAs
  <2> QED BY <2>3, <2>4
<1>7. CASE stage \notin FetchStages
  <2>1. rows'[r] = w
    BY <1>4, <1>7
  <2>3. w = row \/ (w = written(r) /\ stage = "internal")
    BY <1>3, <1>7 DEF written, FetchStages
  <2>4. w = row \/ w.status = "failed"
    <3>1. w = written(r) /\ stage = "internal" => w = set_failed(row, "internal", FALSE)
      BY DEF written
    <3>2. set_failed(row, "internal", FALSE).status = "failed"
      BY <1>1 DEF set_failed, LoraRow
    <3> QED BY <2>3, <3>1, <3>2
  <2> QED BY <1>2, <1>5, <1>7, <2>1, <2>4 DEF CancelledAs
<1> QED BY <1>6, <1>7

LEMMA NextMovesRows ==
    ASSUME TypeOK, RowsInv, [Next]_vars
    PROVE  (\A r \in Requests : rows'[r] = rows[r]) \/ OneRowMoves
<1>0. rows \in [Requests -> LoraRow] /\ \A s \in _NON_TERMINAL : s # "none"
  BY DEF TypeOK, _NON_TERMINAL
<1>1. CASE rows' = rows
  BY <1>1
<1>2. ASSUME NEW r \in Requests, OwnStep(r), rows' # rows
      PROVE  OneRowMoves
  <2> DEFINE row == rows[r]
  <2>1. row \in LoraRow
    BY <1>0
  <2>2. Live(r) /\ (Begin(r) \/ Verify(r) \/ NameDest(r) \/ Again(r))
    BY <1>2 DEF OwnStep, Goes, TakeSlot, TakeLock, Metadata, MetadataFails, NoPrimaryFile,
           Place, Scan, Recheck, Unlink, Open, UnsafeUrl, Stream, Sidecar, Replace, Raises,
           Begin, Verify, NameDest, Again, At, Live
  <2>3. NonTerminal(r) /\ row.status \in StatusesAt(task[r].stage)
    BY <2>2, LiveStatus
  <2>4. CASE Begin(r)
    <3>1. rows' = [rows EXCEPT ![r] = set_status(row, "downloading")] /\ row.status = "pending"
      BY <1>0, <2>3, <2>4 DEF Begin, At, StatusesAt
    <3> QED BY <2>3, <3>1, RowWritten, AllowedMoves
  <2>5. CASE Verify(r) \/ Again(r)
    <3>1. rows' = [rows EXCEPT ![r] = set_status(row, "verifying")] /\ row.status = "downloading"
      BY <1>0, <2>3, <2>5 DEF Verify, Again, At, StatusesAt
    <3> QED BY <2>3, <3>1, RowWritten, AllowedMoves
  <2>6. CASE NameDest(r)
    <3>1. rows' = [rows EXCEPT ![r] = set_dest_name(row)]
      BY <1>0, <2>6 DEF NameDest
    <3> QED BY <2>3, <3>1, RowWritten
  <2> QED BY <2>2, <2>4, <2>5, <2>6
<1>3. ASSUME NEW r \in Requests, LastStep(r), rows' # rows
      PROVE  OneRowMoves
  <2> DEFINE row == rows[r]
  <2>1. row \in LoraRow
    BY <1>0
  <2>2. Live(r)
    BY <1>3 DEF LastStep, Finish, Fail, Internal, RowReadFails, At, Live
  <2>3. NonTerminal(r) /\ row.status \in StatusesAt(task[r].stage)
    BY <2>2, LiveStatus
  <2>4. CASE Finish(r)
    <3>1. rows' = [rows EXCEPT ![r] = set_status(row, "done")] /\ row.status = "verifying"
      BY <1>0, <2>3, <2>4 DEF Finish, Leave, At, StatusesAt
    <3> QED BY <2>3, <3>1, RowWritten, AllowedMoves
  <2>5. CASE ~Finish(r)
    <3>1. \E c : rows' = [rows EXCEPT ![r] = set_failed(row, c, FALSE)]
      BY <1>0, <1>3, <2>5 DEF LastStep, Fail, Internal, RowReadFails, Leave
    <3> QED BY <2>3, <3>1, RowWritten
  <2> QED BY <2>4, <2>5
<1>4. ASSUME NEW r \in Requests, PostStep(r), rows' # rows
      PROVE  OneRowMoves
  <2>1. /\ UniqueIndexAllows(post[r].version) /\ unanswered(post[r]) /\ post[r].stage = "insert"
        /\ rows' = [rows EXCEPT ![r] = create_pending(post[r].version)]
    BY <1>4 DEF PostStep, Post, Insert, Refind, unanswered
  <2>2. rows[r].status = "none" /\ post[r].version \in Versions
    BY <2>1 DEF RowsInv, RowInv
  <2> QED BY <1>0, <2>1, <2>2 DEF OneRowMoves, RowMoves, Inserted
<1>5. ASSUME NEW r \in Requests, Cancelled(r), rows' # rows
      PROVE  OneRowMoves
  <2>1. Live(r) /\ \A q \in Requests \ {r} : rows'[q] = rows[q]
    BY <1>0, <1>5 DEF Cancelled, Live
  <2>2. CancelledAs(r)
    BY <1>5, CancelledRow
  <2>3. /\ "failed" \in _ALLOWED_TRANSITIONS[rows[r].status]
        /\ "done" \in _ALLOWED_TRANSITIONS["verifying"]
    BY <2>2, AllowedMoves DEF CancelledAs, NonTerminal
  <2>4. RowMoves(r)
    BY <2>2, <2>3 DEF CancelledAs, RowMoves, Advanced
  <2> QED BY <2>1, <2>4 DEF OneRowMoves
<1>6. ASSUME NEW r \in Requests, RecoverRow(r)
      PROVE  OneRowMoves
  <2>1. /\ NonTerminal(r)
        /\ rows' = [rows EXCEPT ![r] = set_failed(rows[r], "service_restarted", TRUE)]
    BY <1>0, <1>6 DEF RecoverRow, RowsInv
  <2> QED BY <2>1, RowWritten
<1>7. CASE JobStep \/ \E v \in Versions : Age(v)
  BY <1>7 DEF JobStep, Check, Touch, Accept, Work, EndJob, JobGoes, Age
<1>8. CASE Shutdown \/ Stopped \/ Crash \/ Boot \/ Serve \/ Quiescent \/ vars' = vars
  BY <1>8 DEF Shutdown, Stopped, Crash, Down, Boot, Serve, Quiescent, vars
<1> QED BY <1>1, <1>2, <1>3, <1>4, <1>5, <1>6, <1>7, <1>8, StepKinds DEF LifeStep

\* No step makes two active rows of one version.
LEMMA NextOneActive ==
    ASSUME TypeOK, OneActiveRow, OneRowMoves
    PROVE  OneActiveRow'
<1>1. PICK r \in Requests : RowMoves(r) /\ \A q \in Requests \ {r} : rows'[q] = rows[q]
  BY DEF OneRowMoves
<1>2. CASE Inserted(r)
  <2>1. rows'[r].version = post[r].version
    BY <1>2 DEF Inserted, create_pending, NoLoraRow
  <2>2. \A q \in Requests : NonTerminal(q) => rows[q].version # post[r].version
    BY <1>2 DEF Inserted, UniqueIndexAllows, find_active_by_version, NonTerminal
  <2> QED BY <1>1, <2>1, <2>2 DEF OneActiveRow, NonTerminal
<1>3. CASE rows'[r] = rows[r] \/ Advanced(r)
  BY <1>1, <1>3 DEF OneActiveRow, NonTerminal, Advanced
<1> QED BY <1>1, <1>2, <1>3 DEF RowMoves


\* What has been answered stays true of the table.
LEMMA RowsRemain ==
    ASSUME TypeOK, (\A r \in Requests : rows'[r] = rows[r]) \/ OneRowMoves
    PROVE  \A x \in Requests : rows[x].status # "none" =>
              rows'[x].status # "none" /\ rows'[x].version = rows[x].version
BY DEF OneRowMoves, RowMoves, Inserted, Advanced

\* A request whose row, task and POST a step leaves alone.
LEMMA RowInvFrame ==
    ASSUME TypeOK, RowsInv, (\A r \in Requests : rows'[r] = rows[r]) \/ OneRowMoves,
           NEW q \in Requests, rows'[q] = rows[q], task'[q] = task[q], post'[q] = post[q],
           phase' = phase, lost \subseteq lost'
    PROVE  RowInv(q)'
<1>1. RowInv(q)
  BY DEF RowsInv
<1>2. post[q].reply \in Requests \cup {None}
  BY DEF TypeOK
<1>3. post'[q].reply # None =>
         /\ rows'[post'[q].reply].status # "none"
         /\ rows'[post'[q].reply].version = post'[q].version
  BY <1>1, <1>2, RowsRemain DEF RowInv
<1> QED BY <1>1, <1>3 DEF RowInv, Live, NonTerminal, unanswered

\* What a step of a task between its first and its last write does to it.
Continues(r) ==
    /\ UNCHANGED <<todo, post, lost>> /\ phase = "up" /\ phase' = "up"
    /\ \A q \in Requests \ {r} : task'[q] = task[q] /\ rows'[q] = rows[q]
    /\ task[r].stage # "none" /\ task'[r].stage # "none"
    /\ rows'[r].status \in StatusesAt(task'[r].stage)
    /\ rows'[r].version = rows[r].version
    /\ task'[r].stage \in {"again", "finish"} => rows'[r].dest_name

LEMMA OwnStepContinues ==
    ASSUME TypeOK, RowsInv, NEW r \in Requests, OwnStep(r)
    PROVE  Continues(r)
<1> DEFINE t == task[r]
           row == rows[r]
<1>0. /\ task \in [Requests -> Tasks] /\ rows \in [Requests -> LoraRow]
      /\ row \in LoraRow /\ t \in Tasks
  BY DEF TypeOK
<1>1. Live(r) => row.status \in StatusesAt(t.stage) /\ NonTerminal(r)
  BY LiveStatus
<1>2. t.stage \in {"again", "finish"} => row.dest_name
  BY DEF RowsInv, RowInv
<1>3. \A new : [task EXCEPT ![r] = new][r] = new
                /\ \A q \in Requests \ {r} : [task EXCEPT ![r] = new][q] = task[q]
  BY <1>0
<1>4. \A new : [rows EXCEPT ![r] = new][r] = new
                /\ \A q \in Requests \ {r} : [rows EXCEPT ![r] = new][q] = rows[q]
  BY <1>0
<1>5. ASSUME NEW new, task' = [task EXCEPT ![r] = new], new.stage # "none",
             t.stage # "none", phase = "up", new.stage \notin {"again", "finish"},
             row.status \in StatusesAt(new.stage),
             UNCHANGED <<phase, todo, post, rows, lost>>
      PROVE  Continues(r)
  BY <1>3, <1>5 DEF Continues
<1>6. ASSUME NEW c, Goes(r, Failing(r, c)), phase = "up",
             row.status \in {"downloading", "verifying"}, t.stage # "none"
      PROVE  Continues(r)
  <2>1. row.status \in StatusesAt("fail") /\ Failing(r, c).stage = "fail"
    BY <1>6, TaskFields DEF StatusesAt
  <2> QED BY <1>5, <1>6, <2>1 DEF Goes
<1>21. ASSUME NEW new, Goes(r, new)
       PROVE  task'[r] = new /\ \A q \in Requests \ {r} : task'[q] = task[q]
  BY <1>3, <1>21 DEF Goes
<1>7. CASE TakeSlot(r) \/ TakeLock(r)
  <2>1. \E new : task' = [task EXCEPT ![r] = new] /\ new.stage \in {"slot", "begin"}
    <3> DEFINE lock == IF locks[row.version] = None THEN r ELSE locks[row.version]
               new1 == [t EXCEPT !.stage = "slot", !.lock = lock]
               new2 == [t EXCEPT !.stage = "begin"]
    <3>1. new1.stage = "slot" /\ new2.stage = "begin"
      BY <1>0 DEF Tasks
    <3>2. task' = [task EXCEPT ![r] = new1] \/ task' = [task EXCEPT ![r] = new2]
      BY <1>0, <1>7 DEF TakeSlot, TakeLock
    <3> QED BY <3>1, <3>2
  <2>2. row.status = "pending"
    BY <1>1, <1>7 DEF TakeSlot, TakeLock, Live, StatusesAt
  <2> QED BY <1>5, <1>7, <2>1, <2>2 DEF TakeSlot, TakeLock, StatusesAt
<1>8. CASE Begin(r)
  <2>1. task'[r].stage = "meta" /\ rows'[r] = set_status(row, "downloading")
    BY <1>0, <1>8 DEF Begin, Tasks
  <2> QED BY <1>0, <1>8, <2>1, RowFields DEF Begin, At, Continues, StatusesAt
<1>9. CASE Metadata(r)
  <2>1. row.status = "downloading"
    BY <1>1, <1>9 DEF Metadata, At, Live, StatusesAt
  <2>2. CASE \E size \in Claims : Goes(r, [t EXCEPT !.stage = "place", !.claimed = size])
    <3>1. task'[r].stage = "place" /\ \A q \in Requests \ {r} : task'[q] = task[q]
      BY <1>0, <2>2 DEF Goes, Tasks
    <3> QED BY <1>9, <2>1, <2>2, <3>1 DEF Metadata, At, Goes, Continues, StatusesAt
  <2>3. CASE Goes(r, Failing(r, "refused"))
    BY <1>6, <1>9, <2>1, <2>3 DEF Metadata, At
  <2> QED BY <1>9, <2>2, <2>3 DEF Metadata, MetadataFails, NoPrimaryFile
<1>10. CASE Place(r)
  <2>1. row.status = "downloading"
    BY <1>1, <1>10 DEF Place, At, Live, StatusesAt
  <2>2. CASE Present(row.version)
    <3>1. task'[r].stage = "name" /\ \A q \in Requests \ {r} : task'[q] = task[q]
      BY <1>0, <1>10, <2>2 DEF Place, Tasks
    <3> QED BY <1>10, <2>1, <2>2, <3>1 DEF Place, At, Continues, StatusesAt
  <2>3. CASE ~Present(row.version)
    <3>1. task'[r].stage \in {"scan", "open"} /\ \A q \in Requests \ {r} : task'[q] = task[q]
      <4>1. \/ \E need : Goes(r, [t EXCEPT !.stage = "scan", !.required = need])
            \/ Goes(r, [t EXCEPT !.stage = "open"])
        BY <1>10, <2>3 DEF Place
      <4>2. /\ \A need : [t EXCEPT !.stage = "scan", !.required = need].stage = "scan"
            /\ [t EXCEPT !.stage = "open"].stage = "open"
        BY <1>0 DEF Tasks
      <4> QED BY <1>21, <4>1, <4>2
    <3> QED BY <1>10, <2>1, <2>3, <3>1 DEF Place, At, Goes, Continues, StatusesAt
  <2> QED BY <2>2, <2>3
<1>11. CASE Scan(r)
  <2>1. row.status = "downloading"
    BY <1>1, <1>11 DEF Scan, At, Live, StatusesAt
  <2>2. task'[r].stage = "evict" /\ \A q \in Requests \ {r} : task'[q] = task[q]
    BY <1>0, <1>11 DEF Scan, Goes, Tasks
  <2> QED BY <1>11, <2>1, <2>2 DEF Scan, At, Goes, Continues, StatusesAt
<1>12. CASE Recheck(r)
  <2>1. row.status = "downloading" /\ t.stage = "evict" /\ phase = "up"
    BY <1>1, <1>12 DEF Recheck, At, Live, StatusesAt
  <2>2. CASE Goes(r, Failing(r, "refused"))
    BY <1>6, <2>1, <2>2
  <2>3. CASE ~ Goes(r, Failing(r, "refused"))
    <3>1. /\ task'[r].stage \in {"evict", "open", "unlink"}
          /\ \A q \in Requests \ {r} : task'[q] = task[q]
      <4> DEFINE opened == [t EXCEPT !.stage = "open", !.cands = {}]
                 skipped(c) == [t EXCEPT !.cands = t.cands \ {c}]
                 chosen(c) == [t EXCEPT !.stage = "unlink", !.cands = t.cands \ {c},
                                        !.victim = c[2]]
      <4>1. Goes(r, opened) \/ \E c : Goes(r, skipped(c)) \/ Goes(r, chosen(c))
        BY <1>12, <2>3 DEF Recheck
      <4>2. /\ opened.stage = "open"
            /\ \A c : skipped(c).stage = "evict" /\ chosen(c).stage = "unlink"
        BY <1>0, <2>1 DEF Tasks
      <4> HIDE DEF opened, skipped, chosen
      <4> QED BY <1>21, <4>1, <4>2
    <3>2. UNCHANGED <<phase, todo, post, rows, lost>>
      BY <1>12 DEF Recheck, Goes
    <3> QED BY <2>1, <3>1, <3>2 DEF Continues, StatusesAt
  <2> QED BY <2>2, <2>3
<1>13. CASE Unlink(r)
  <2>1. row.status = "downloading" /\ t.stage = "unlink" /\ phase = "up"
    BY <1>1, <1>13 DEF Unlink, At, Live, StatusesAt
  <2>2. task'[r].stage = "evict" /\ \A q \in Requests \ {r} : task'[q] = task[q]
    <3> DEFINE new1 == [t EXCEPT !.stage = "evict", !.victim = None,
                                 !.reclaimed = @ + Size[t.victim]]
               new2 == [t EXCEPT !.stage = "evict", !.victim = None]
    <3>1. task' = [task EXCEPT ![r] = new1] \/ task' = [task EXCEPT ![r] = new2]
      BY <1>0, <1>13 DEF Unlink, Goes
    <3>2. new1.stage = "evict" /\ new2.stage = "evict"
      BY <1>0 DEF Tasks
    <3> HIDE DEF new1, new2
    <3> QED BY <1>0, <3>1, <3>2
  <2> QED BY <1>13, <2>1, <2>2 DEF Unlink, Goes, Continues, StatusesAt
<1>14. CASE Open(r)
  <2>1. row.status = "downloading" /\ t.stage = "open" /\ phase = "up"
    BY <1>1, <1>14 DEF Open, At, Live, StatusesAt
  <2>2. CASE UnsafeUrl(r)
    BY <1>6, <2>1, <2>2 DEF UnsafeUrl
  <2>3. CASE ~UnsafeUrl(r)
    <3>1. task'[r].stage = "stream" /\ \A q \in Requests \ {r} : task'[q] = task[q]
      BY <1>0, <1>14, <2>3 DEF Open, NoTask
    <3> QED BY <1>14, <2>1, <2>3, <3>1 DEF Open, Continues, StatusesAt
  <2> QED BY <2>2, <2>3
<1>15. CASE Stream(r)
  <2>1. row.status = "downloading" /\ t.stage = "stream" /\ phase = "up"
    BY <1>1, <1>15 DEF Stream, At, Live, StatusesAt
  <2>2. task'[r].stage \in {"verify", "fail"} /\ \A q \in Requests \ {r} : task'[q] = task[q]
    BY <1>0, <1>15, TaskFields DEF Stream, Tasks
  <2> QED BY <1>15, <2>1, <2>2 DEF Stream, Continues, StatusesAt
<1>16. CASE Verify(r)
  <2>1. row.status = "downloading" /\ t.stage = "verify" /\ phase = "up"
    BY <1>1, <1>16 DEF Verify, At, Live, StatusesAt
  <2>2. task'[r].stage \in {"sidecar", "fail"} /\ \A q \in Requests \ {r} : task'[q] = task[q]
    BY <1>0, <1>16, TaskFields DEF Verify, Tasks
  <2>3. /\ rows'[r] = set_status(row, "verifying")
        /\ \A q \in Requests \ {r} : rows'[q] = rows[q]
    BY <1>0, <1>16 DEF Verify
  <2> QED BY <1>0, <1>16, <2>1, <2>2, <2>3, RowFields DEF Verify, Continues, StatusesAt
<1>17. CASE Sidecar(r) \/ Replace(r)
  <2>1. row.status = "verifying" /\ t.stage # "none" /\ phase = "up"
    BY <1>1, <1>17 DEF Sidecar, Replace, At, Live, StatusesAt
  <2>2. task'[r].stage \in {"replace", "name"} /\ \A q \in Requests \ {r} : task'[q] = task[q]
    BY <1>0, <1>17 DEF Sidecar, Replace, Tasks
  <2> QED BY <1>17, <2>1, <2>2 DEF Sidecar, Replace, Continues, StatusesAt
<1>18. CASE NameDest(r)
  <2>1. row.status \in {"downloading", "verifying"} /\ t.stage = "name" /\ phase = "up"
    BY <1>1, <1>18 DEF NameDest, At, Live, StatusesAt
  <2>2. /\ task'[r].stage = IF row.status = "downloading" THEN "again" ELSE "finish"
        /\ \A q \in Requests \ {r} : task'[q] = task[q]
    BY <1>0, <1>18 DEF NameDest, Tasks
  <2>3. /\ rows'[r] = set_dest_name(row)
        /\ \A q \in Requests \ {r} : rows'[q] = rows[q]
    BY <1>0, <1>18 DEF NameDest
  <2> QED BY <1>0, <1>18, <2>1, <2>2, <2>3, RowFields DEF NameDest, Continues, StatusesAt
<1>19. CASE Again(r)
  <2>1. row.status = "downloading" /\ t.stage = "again" /\ phase = "up"
    BY <1>1, <1>19 DEF Again, At, Live, StatusesAt
  <2>2. task'[r].stage = "finish" /\ \A q \in Requests \ {r} : task'[q] = task[q]
    BY <1>0, <1>19 DEF Again, Tasks
  <2>3. /\ rows'[r] = set_status(row, "verifying")
        /\ \A q \in Requests \ {r} : rows'[q] = rows[q]
    BY <1>0, <1>19 DEF Again
  <2> QED BY <1>0, <1>2, <1>19, <2>1, <2>2, <2>3, RowFields DEF Again, Continues, StatusesAt
<1>20. CASE Raises(r)
  <2>1. NonTerminal(r) /\ t.stage # "none" /\ phase = "up"
    BY <1>1, <1>20 DEF Raises, Live, FetchStages
  <2>2. task'[r].stage = "internal" /\ \A q \in Requests \ {r} : task'[q] = task[q]
    BY <1>0, <1>20 DEF Raises, Goes, NoTask
  <2> QED BY <1>20, <2>1, <2>2 DEF Raises, Goes, Continues, StatusesAt, NonTerminal
<1> QED BY <1>7, <1>8, <1>9, <1>10, <1>11, <1>12, <1>13, <1>14, <1>15, <1>16, <1>17,
           <1>18, <1>19, <1>20 DEF OwnStep


\* Each kind of step keeps the story of the rows.
LEMMA OwnRows ==
    ASSUME TypeOK, RowsInv, (\A x \in Requests : rows'[x] = rows[x]) \/ OneRowMoves,
           NEW r \in Requests, Continues(r)
    PROVE  RowsInv'
<1>1. ASSUME NEW q \in Requests, q # r
      PROVE  RowInv(q)'
  BY <1>1, RowInvFrame DEF Continues
<1>2. RowInv(r)'
  <2>1. RowInv(r) /\ NonTerminal(r) /\ rows[r].status # "none"
    BY LiveStatus DEF RowsInv, Continues, Live, NonTerminal, _NON_TERMINAL
  <2>2. post[r].reply \in Requests \cup {None}
    BY DEF TypeOK
  <2>3. post'[r].reply # None =>
           /\ rows'[post'[r].reply].status # "none"
           /\ rows'[post'[r].reply].version = post'[r].version
    BY <2>1, <2>2, RowsRemain DEF RowInv, Continues
  <2>4. rows'[r].status \in _NON_TERMINAL /\ rows'[r].status # "none"
    BY DEF Continues, StatusesAt, _NON_TERMINAL
  <2> QED BY <2>1, <2>3, <2>4 DEF RowInv, Continues, Live, NonTerminal, unanswered
<1>3. todo' = IF phase' = "recovering" THEN {q \in Requests : NonTerminal(q)'} ELSE {}
  BY DEF RowsInv, Continues
<1> QED BY <1>1, <1>2, <1>3 DEF RowsInv

\* The end of a task: its row is terminal, or it is lost.
LEMMA LastRows ==
    ASSUME TypeOK, RowsInv, (\A x \in Requests : rows'[x] = rows[x]) \/ OneRowMoves,
           NEW r \in Requests, LastStep(r)
    PROVE  RowsInv'
<1>0. /\ task \in [Requests -> Tasks] /\ rows \in [Requests -> LoraRow]
      /\ UNCHANGED <<phase, todo, post>> /\ phase = "up" /\ lost \subseteq lost' /\ Live(r)
  BY DEF TypeOK, LastStep, Finish, Fail, Internal, RowReadFails, Leave, At, Live
<1>1. task'[r] = NoTask /\ \A q \in Requests \ {r} : task'[q] = task[q]
  BY <1>0 DEF LastStep, Finish, Fail, Internal, RowReadFails, Leave
<1>2. ASSUME NEW row, rows' = [rows EXCEPT ![r] = row], row.version = rows[r].version,
             row.status \in {"done", "failed"} \/ (row = rows[r] /\ r \in lost')
      PROVE  /\ rows'[r].version = rows[r].version
             /\ rows'[r].status \in {"done", "failed"} \/ (rows'[r] = rows[r] /\ r \in lost')
             /\ \A q \in Requests \ {r} : rows'[q] = rows[q]
  BY <1>0, <1>2
<1>3. /\ rows'[r].version = rows[r].version
      /\ rows'[r].status \in {"done", "failed"} \/ (rows'[r] = rows[r] /\ r \in lost')
      /\ \A q \in Requests \ {r} : rows'[q] = rows[q]
  <2>1. rows[r] \in LoraRow
    BY <1>0
  <2> DEFINE done == set_status(rows[r], "done")
             failed(c) == set_failed(rows[r], c, FALSE)
  <2>2. /\ done.version = rows[r].version /\ done.status = "done"
        /\ \A c : failed(c).version = rows[r].version /\ failed(c).status = "failed"
    BY <2>1 DEF LoraRow, set_status, set_failed
  <2>3. \/ rows' = [rows EXCEPT ![r] = done]
        \/ \E c : rows' = [rows EXCEPT ![r] = failed(c)]
        \/ rows' = [rows EXCEPT ![r] = rows[r]] /\ r \in lost'
    BY <1>0 DEF LastStep, Finish, Fail, Internal, RowReadFails, Leave
  <2> HIDE DEF done, failed
  <2> QED BY <1>2, <2>2, <2>3
<1>4. ASSUME NEW q \in Requests, q # r
      PROVE  RowInv(q)'
  BY <1>0, <1>1, <1>3, <1>4, RowInvFrame
<1>5. RowInv(r)'
  <2>1. RowInv(r) /\ NonTerminal(r) /\ rows[r].status # "none"
    BY <1>0, LiveStatus DEF RowsInv, NonTerminal, _NON_TERMINAL
  <2>2. post[r].reply \in Requests \cup {None}
    BY DEF TypeOK
  <2>3. post'[r].reply # None =>
           /\ rows'[post'[r].reply].status # "none"
           /\ rows'[post'[r].reply].version = post'[r].version
    BY <1>0, <2>1, <2>2, RowsRemain DEF RowInv
  <2>4. task'[r].stage = "none"
    BY <1>1 DEF NoTask
  <2> QED BY <1>0, <1>3, <2>1, <2>3, <2>4
          DEF RowInv, Live, NonTerminal, unanswered, _NON_TERMINAL
<1>6. todo' = IF phase' = "recovering" THEN {q \in Requests : NonTerminal(q)'} ELSE {}
  BY <1>0 DEF RowsInv
<1> QED BY <1>4, <1>5, <1>6 DEF RowsInv

\* The handlers: an answer names a row of the version that was asked for.
LEMMA PostRows ==
    ASSUME TypeOK, RowsInv, (\A x \in Requests : rows'[x] = rows[x]) \/ OneRowMoves,
           NEW r \in Requests, PostStep(r)
    PROVE  RowsInv'
<1>0. /\ task \in [Requests -> Tasks] /\ rows \in [Requests -> LoraRow]
      /\ UNCHANGED <<phase, todo, lost>> /\ phase = "up"
      /\ post[r].stage \in {"idle", "insert", "refind"} /\ RowInv(r)
  BY DEF TypeOK, PostStep, Post, Insert, Refind, RowsInv
<1>1. ASSUME NEW q \in Requests, q # r
      PROVE  RowInv(q)'
  <2>1. task'[q] = task[q] /\ rows'[q] = rows[q] /\ post'[q] = post[q]
    BY <1>0, <1>1 DEF PostStep, Post, Insert, Refind, TypeOK
  <2> QED BY <1>0, <2>1, RowInvFrame
<1>2. rows[r] = NoLoraRow /\ rows[r].status = "none" /\ ~Live(r)
  BY <1>0 DEF RowInv, StatusesAt, _NON_TERMINAL
<1>3. None \notin Versions /\ \A q : find_active_by_version(q) \subseteq Requests
  BY FetchAssumption DEF find_active_by_version
<1>4. RowInv(r)'
  <2>1. CASE \E v \in Versions : Post(r, v)
    <3>1. PICK v \in Versions : Post(r, v)
      BY <2>1
    <3>2. /\ rows' = rows /\ task' = task
          /\ \/ /\ post'[r].stage = "insert" /\ post'[r].version = v
                /\ post'[r].reply = None
             \/ /\ post'[r].stage = "answered" /\ post'[r].version = v
                /\ post'[r].reply \in find_active_by_version(v)
      BY <3>1 DEF Post, TypeOK
    <3> QED BY <1>0, <1>2, <3>2 DEF RowInv, Live, NonTerminal, unanswered,
                   find_active_by_version, _NON_TERMINAL
  <2>2. CASE Refind(r)
    <3>1. /\ rows' = rows /\ task' = task /\ post'[r].version = post[r].version
          /\ post'[r].stage = "answered"
          /\ \/ post'[r].reply = post[r].reply
             \/ post'[r].reply \in find_active_by_version(post[r].version)
      BY <2>2 DEF Refind, TypeOK
    <3> QED BY <1>0, <1>2, <3>1 DEF RowInv, Live, NonTerminal, unanswered,
                   find_active_by_version, _NON_TERMINAL
  <2>3. CASE Insert(r) /\ UniqueIndexAllows(post[r].version)
    <3>1. /\ rows'[r] = create_pending(post[r].version)
          /\ task'[r].stage = "queued" /\ post'[r].version = post[r].version
          /\ post'[r].reply = r /\ post'[r].stage = "answered"
          /\ post[r].version \in Versions
      BY <1>0, <2>3 DEF Insert, TypeOK, RowInv, unanswered, Tasks
    <3>2. rows'[r].status = "pending" /\ rows'[r].version = post[r].version
          /\ rows'[r].error_code = "none"
      BY <3>1 DEF create_pending, NoLoraRow
    <3> QED BY <1>0, <3>1, <3>2 DEF RowInv, Live, NonTerminal, unanswered, StatusesAt
  <2>4. CASE Insert(r) /\ ~UniqueIndexAllows(post[r].version)
    <3>1. /\ rows' = rows /\ task' = task /\ post'[r].version = post[r].version
          /\ post'[r].stage = "refind" /\ post'[r].reply = post[r].reply
          /\ unanswered(post[r])
      BY <2>4 DEF Insert, TypeOK, unanswered
    <3> QED BY <1>0, <1>2, <3>1 DEF RowInv, Live, NonTerminal, unanswered
  <2> QED BY <2>1, <2>2, <2>3, <2>4 DEF PostStep
<1>5. todo' = IF phase' = "recovering" THEN {q \in Requests : NonTerminal(q)'} ELSE {}
  BY <1>0 DEF RowsInv
<1> QED BY <1>1, <1>4, <1>5 DEF RowsInv


\* Generation jobs and the clock do not touch the fetches.
LEMMA QuietRows ==
    ASSUME RowsInv, UNCHANGED <<phase, todo, post, rows, task, lost>>
    PROVE  RowsInv'
BY DEF RowsInv, RowInv, Live, NonTerminal, unanswered

\* A death ends every task; recovery flips what is left of the rows.
LEMMA LifeRows ==
    ASSUME TypeOK, RowsInv, (\A x \in Requests : rows'[x] = rows[x]) \/ OneRowMoves, LifeStep
    PROVE  RowsInv'
<1>0. /\ task \in [Requests -> Tasks] /\ rows \in [Requests -> LoraRow]
      /\ post \in [Requests -> [stage : {"idle", "insert", "refind", "answered"},
                                version : Versions \cup {None},
                                reply : Requests \cup {None}]]
  BY DEF TypeOK
<1>1. CASE Shutdown
  BY <1>1 DEF Shutdown, RowsInv, RowInv, Live, NonTerminal, unanswered
<1>2. CASE Stopped \/ Crash
  <2>1. Down /\ (phase = "stopping" \/ phase # "down")
    BY <1>2 DEF Stopped, Crash
  <2>2. ASSUME NEW q \in Requests
        PROVE  RowInv(q)'
    <3>1. /\ phase' = "down" /\ rows' = rows /\ task'[q] = NoTask
          /\ post'[q].version = post[q].version /\ post'[q].reply = post[q].reply
          /\ post'[q].stage = IF unanswered(post[q]) THEN "answered" ELSE post[q].stage
      BY <1>0, <2>1 DEF Down
    <3> QED BY <1>0, <3>1 DEF RowsInv, RowInv, Live, NonTerminal, unanswered, NoTask
  <2>3. todo' = {} /\ phase' # "recovering"
    BY <2>1 DEF Down
  <2> QED BY <2>2, <2>3 DEF RowsInv
<1>3. CASE Boot
  <2>1. todo' = {q \in Requests : NonTerminal(q)'}
    BY <1>3 DEF Boot, NonTerminal
  <2> QED BY <1>3, <2>1 DEF Boot, RowsInv, RowInv, Live, NonTerminal, unanswered
<1>4. CASE Serve
  <2>1. \A q \in Requests : ~NonTerminal(q)
    BY <1>4 DEF Serve, RowsInv
  <2> QED BY <1>4, <2>1 DEF Serve, RowsInv, RowInv, Live, NonTerminal, unanswered
<1>5. CASE Quiescent
  BY <1>5, QuietRows DEF Quiescent, vars
<1>6. ASSUME NEW r \in Requests, Cancelled(r)
      PROVE  RowsInv'
  <2>1. /\ UNCHANGED <<phase, todo, post, lost>> /\ phase = "stopping"
        /\ task'[r] = NoTask
        /\ \A q \in Requests \ {r} : task'[q] = task[q] /\ rows'[q] = rows[q]
    BY <1>0, <1>6 DEF Cancelled
  <2>2. ASSUME NEW q \in Requests, q # r
        PROVE  RowInv(q)'
    BY <2>1, <2>2, RowInvFrame
  <2>3. RowInv(r)'
    <3>1. RowInv(r) /\ NonTerminal(r) /\ rows[r].status # "none"
      BY <1>6, LiveStatus DEF RowsInv, Cancelled, Live, NonTerminal, _NON_TERMINAL
    <3>2. post[r].reply \in Requests \cup {None}
      BY <1>0
    <3>3. post'[r].reply # None =>
             /\ rows'[post'[r].reply].status # "none"
             /\ rows'[post'[r].reply].version = post'[r].version
      BY <2>1, <3>1, <3>2, RowsRemain DEF RowInv
    <3>4. /\ rows'[r].version = rows[r].version
          /\ rows'[r].status \in {"done", "failed"} \/ rows'[r] = rows[r]
      BY <1>6, CancelledRow DEF CancelledAs
    <3>5. task'[r].stage = "none"
      BY <2>1 DEF NoTask
    <3> QED BY <2>1, <3>1, <3>3, <3>4, <3>5
            DEF RowInv, Live, NonTerminal, unanswered, _NON_TERMINAL
  <2> QED BY <2>1, <2>2, <2>3 DEF RowsInv
<1>7. ASSUME NEW r \in Requests, RecoverRow(r)
      PROVE  RowsInv'
  <2>1. /\ UNCHANGED <<phase, post, task, lost>> /\ phase = "recovering"
        /\ NonTerminal(r) /\ todo' = todo \ {r}
        /\ \A q \in Requests \ {r} : rows'[q] = rows[q]
        /\ rows'[r] = set_failed(rows[r], "service_restarted", TRUE)
    BY <1>0, <1>7 DEF RecoverRow, RowsInv
  <2>2. ASSUME NEW q \in Requests, q # r
        PROVE  RowInv(q)'
    BY <2>1, <2>2, RowInvFrame
  <2>3. RowInv(r) /\ rows[r].status # "none" /\ ~Live(r)
    BY <2>1 DEF RowsInv, RowInv, NonTerminal, _NON_TERMINAL
  <2>4. rows'[r].version = rows[r].version /\ rows'[r].status = "failed"
    BY <1>0, <2>1 DEF LoraRow, set_failed
  <2>5. RowInv(r)'
    <3>1. post[r].reply \in Requests \cup {None}
      BY <1>0
    <3>2. post'[r].reply # None =>
             /\ rows'[post'[r].reply].status # "none"
             /\ rows'[post'[r].reply].version = post'[r].version
      BY <2>1, <2>3, <3>1, RowsRemain DEF RowInv
    <3> QED BY <2>1, <2>3, <2>4, <3>2
            DEF RowInv, Live, NonTerminal, unanswered, _NON_TERMINAL
  <2>6. todo' = {q \in Requests : NonTerminal(q)'}
    BY <2>1, <2>4 DEF RowsInv, NonTerminal, _NON_TERMINAL
  <2> QED BY <2>1, <2>2, <2>5, <2>6 DEF RowsInv
<1> QED BY <1>1, <1>2, <1>3, <1>4, <1>5, <1>6, <1>7 DEF LifeStep

LEMMA NextRows ==
    ASSUME TypeOK, RowsInv, [Next]_vars
    PROVE  RowsInv'
<1>1. (\A x \in Requests : rows'[x] = rows[x]) \/ OneRowMoves
  BY NextMovesRows
<1>2. ASSUME NEW r \in Requests, OwnStep(r)
      PROVE  RowsInv'
  BY <1>1, <1>2, OwnStepContinues, OwnRows
<1>3. ASSUME NEW r \in Requests, LastStep(r) \/ PostStep(r)
      PROVE  RowsInv'
  BY <1>1, <1>3, LastRows, PostRows
<1>4. CASE JobStep \/ \E v \in Versions : Age(v)
  BY <1>4, QuietRows DEF JobStep, Check, Touch, Accept, Work, EndJob, JobGoes, Age
<1>5. CASE LifeStep
  BY <1>1, <1>5, LifeRows
<1>6. CASE vars' = vars
  BY <1>6, QuietRows DEF vars
<1> QED BY <1>2, <1>3, <1>4, <1>5, <1>6, StepKinds


-----------------------------------------------------------------------------
(* Files.                                                                  *)

\* What a task's step does to the disk: partial downloads only of its own
\* version, no file but its own appears, and an operator's file stays what it is
\* except that its own version's may get a sidecar.
DiskEffect(r) ==
    /\ \A u \in Versions :
          /\ disk'[u].file \in {"absent", "drop", "good"}
          /\ disk'[u].file = "drop" => /\ disk[u].file = "drop"
                                       /\ \/ disk'[u].sidecar = disk[u].sidecar
                                          \/ /\ u = rows[r].version
                                             /\ disk'[u].sidecar = "civitai"
          /\ u # rows[r].version => /\ disk'[u].tmp = disk[u].tmp
                                    /\ disk'[u].file \in {disk[u].file, "absent"}
    /\ disk'[rows[r].version].tmp # "absent" =>
          \/ task'[r].stage \in Writing
          \/ disk[rows[r].version].tmp # "absent" /\ task[r].stage \notin Writing

\* A task that looks at no candidate has nothing to say about the others' files.
NoCandidates(t) == t.cands = {} /\ t.victim = None

LEMMA FreshTask ==
    ASSUME NEW r \in Requests
    PROVE  /\ \A c : NoCandidates(Failing(r, c)) /\ Failing(r, c).stage = "fail"
           /\ \A s, l : /\ NoCandidates([NoTask EXCEPT !.stage = s, !.lock = l])
                        /\ [NoTask EXCEPT !.stage = s, !.lock = l].stage = s
           /\ NoCandidates(NoTask) /\ NoTask.stage = "none"
BY DEF NoCandidates, Failing, NoTask

\* A step that leaves the disk alone.
LEMMA DiskUntouched ==
    ASSUME DiskInv, NEW r \in Requests, disk' = disk,
           task[r].stage \in Writing => task'[r].stage \in Writing
    PROVE  DiskEffect(r)
BY DEF DiskEffect, DiskInv, FileInv

\* A task that keeps its candidates, or drops them, still knows what it knew.
LEMMA TaskKeeps ==
    ASSUME TypeOK, DiskInv, NEW r \in Requests, rows[r].version \in Versions, DiskEffect(r),
           rows'[r].version = rows[r].version,
           NoCandidates(task'[r]) \/ (task'[r].cands \subseteq task[r].cands
                                      /\ task'[r].victim \in {task[r].victim, None}),
           task'[r].stage # "unlink",
           task'[r].stage \in {"sidecar", "replace"} => disk'[rows[r].version].tmp = "good",
           task'[r].stage \in Missing => disk'[rows[r].version].file = "absent"
    PROVE  TaskInv(r)'
<1>1. ASSUME NEW v \in Versions,
             (\E u \in Ranks : <<u, v>> \in task'[r].cands) \/ task'[r].victim = v
      PROVE  disk'[v].file # "drop" \/ disk'[v].sidecar = "civitai"
  <2>1. None \notin Versions
    BY FetchAssumption
  <2>2. (\E u \in Ranks : <<u, v>> \in task[r].cands) \/ task[r].victim = v
    BY <1>1, <2>1 DEF NoCandidates
  <2>3. disk[v].file # "drop" \/ disk[v].sidecar = "civitai"
    BY <2>2 DEF DiskInv, TaskInv
  <2> QED BY <2>3 DEF DiskEffect
<1> QED BY <1>1 DEF TaskInv, Present


\* The steps of a task, one by one.
LEMMA OwnStepDisk ==
    ASSUME TypeOK, RowsInv, DiskInv, NEW r \in Requests, OwnStep(r)
    PROVE  DiskEffect(r) /\ TaskInv(r)'
<1> DEFINE t == task[r]
           v == rows[r].version
<1>0. /\ task \in [Requests -> Tasks] /\ t \in Tasks /\ disk \in [Versions -> Files]
      /\ Continues(r) /\ rows'[r].version = v
  BY OwnStepContinues DEF TypeOK, Continues
<1>1. v \in Versions
  BY <1>0, LiveStatus DEF RowsInv, RowInv, Continues, Live, NonTerminal, _NON_TERMINAL
<1>2. TaskInv(r) /\ FileInv(v)
  BY <1>1 DEF DiskInv
<1>3. ASSUME NEW new, task' = [task EXCEPT ![r] = new]
      PROVE  task'[r] = new
  BY <1>0, <1>3
<1>4. ASSUME NEW new, task' = [task EXCEPT ![r] = new], disk' = disk,
             NoCandidates(new) \/ (new.cands \subseteq t.cands /\ new.victim = t.victim),
             new.stage \notin {"unlink", "sidecar", "replace"},
             t.stage \in Writing => new.stage \in Writing,
             new.stage \in Missing => ~Present(v)
      PROVE  DiskEffect(r) /\ TaskInv(r)'
  <2>1. task'[r] = new
    BY <1>3, <1>4
  <2>2. DiskEffect(r)
    BY <1>4, <2>1, DiskUntouched
  <2> QED BY <1>0, <1>1, <1>4, <2>1, <2>2, TaskKeeps DEF Present
<1>5. ASSUME NEW c, Goes(r, Failing(r, c)), t.stage \notin Writing
      PROVE  DiskEffect(r) /\ TaskInv(r)'
  <2> DEFINE new == Failing(r, c)
  <2>1. NoCandidates(new) /\ new.stage = "fail"
    BY FreshTask
  <2>2. task' = [task EXCEPT ![r] = new] /\ disk' = disk
    BY <1>5 DEF Goes
  <2>3. /\ new.stage \notin {"unlink", "sidecar", "replace"} /\ t.stage \notin Writing
        /\ new.stage \notin Missing
    BY <1>5, <2>1 DEF Missing
  <2> HIDE DEF new
  <2> QED BY <1>4, <2>1, <2>2, <2>3
<1>6. CASE TakeSlot(r) \/ TakeLock(r) \/ Begin(r)
  <2> DEFINE lock == IF locks[v] = None THEN r ELSE locks[v]
             new1 == [t EXCEPT !.stage = "slot", !.lock = lock]
             new2 == [t EXCEPT !.stage = "begin"]
             new3 == [t EXCEPT !.stage = "meta"]
  <2>1. \E new \in {new1, new2, new3} : task' = [task EXCEPT ![r] = new]
    BY <1>0, <1>6 DEF TakeSlot, TakeLock, Begin
  <2>2. \A new \in {new1, new2, new3} :
           new.stage \in {"slot", "begin", "meta"} /\ new.cands = t.cands /\ new.victim = t.victim
    BY <1>0 DEF Tasks
  <2>3. disk' = disk /\ t.stage \notin Writing
    BY <1>6 DEF TakeSlot, TakeLock, Begin, At, Writing
  <2> HIDE DEF new1, new2, new3
  <2> QED BY <1>4, <2>1, <2>2, <2>3 DEF Missing
<1>7. CASE Metadata(r)
  <2>1. disk' = disk /\ t.stage \notin Writing
    BY <1>7 DEF Metadata, MetadataFails, NoPrimaryFile, Goes, At, Writing
  <2> DEFINE new(size) == [t EXCEPT !.stage = "place", !.claimed = size]
  <2>2. \A size : new(size).stage = "place" /\ new(size).cands = t.cands
                  /\ new(size).victim = t.victim
    BY <1>0 DEF Tasks
  <2>3. (\E size : Goes(r, new(size))) \/ \E c : Goes(r, Failing(r, c))
    BY <1>7 DEF Metadata, MetadataFails, NoPrimaryFile
  <2> HIDE DEF new
  <2> QED BY <1>4, <1>5, <2>1, <2>2, <2>3 DEF Goes, Missing
<1>8. CASE Place(r) /\ ~Present(v)
  <2> DEFINE new1(need) == [t EXCEPT !.stage = "scan", !.required = need]
             new2 == [t EXCEPT !.stage = "open"]
  <2>1. (\E need : Goes(r, new1(need))) \/ Goes(r, new2)
    BY <1>8 DEF Place
  <2>2. /\ \A need : new1(need).stage = "scan" /\ new1(need).cands = t.cands
                     /\ new1(need).victim = t.victim
        /\ new2.stage = "open" /\ new2.cands = t.cands /\ new2.victim = t.victim
    BY <1>0 DEF Tasks
  <2>3. t.stage \notin Writing
    BY <1>8 DEF Place, At, Writing
  <2> HIDE DEF new1, new2
  <2> QED BY <1>4, <1>8, <2>1, <2>2, <2>3 DEF Goes
<1>9. CASE Place(r) /\ Present(v)
  <2>1. /\ task'[r].stage = "name" /\ task'[r].cands = t.cands /\ task'[r].victim = t.victim
        /\ t.stage = "place"
    BY <1>0, <1>9 DEF Place, At, Tasks
  <2>2. disk' = [disk EXCEPT ![v].sidecar = IF @ = "none" THEN "civitai" ELSE @]
    BY <1>9 DEF Place
  <2>3. \A u \in Versions :
           /\ disk'[u].tmp = disk[u].tmp /\ disk'[u].file = disk[u].file
           /\ disk'[u].sidecar = disk[u].sidecar \/ (u = v /\ disk'[u].sidecar = "civitai")
    <3>1. /\ \A u \in Versions \ {v} : disk'[u] = disk[u]
          /\ disk'[v] = [disk[v] EXCEPT !.sidecar = IF @ = "none" THEN "civitai" ELSE @]
      BY <1>0, <1>1, <2>2
    <3>2. /\ disk'[v].tmp = disk[v].tmp /\ disk'[v].file = disk[v].file
          /\ disk'[v].sidecar = disk[v].sidecar \/ disk'[v].sidecar = "civitai"
      BY <1>0, <1>1, <3>1 DEF Files
    <3>3. ASSUME NEW u \in Versions, u # v
          PROVE  disk'[u] = disk[u]
      BY <3>1, <3>3
    <3> QED BY <3>2, <3>3
  <2>4. DiskEffect(r)
    BY <1>1, <2>1, <2>3 DEF DiskEffect, DiskInv, FileInv, Writing
  <2> QED BY <1>0, <1>1, <2>1, <2>4, TaskKeeps DEF Missing
<1>10. CASE Scan(r)
  <2> DEFINE there == {<<disk[u].used, u>> : u \in {w \in Versions : Evictable(w)}}
             new == [t EXCEPT !.stage = "evict", !.reclaimed = 0, !.cands = there]
  <2>1. Goes(r, new) /\ t.stage = "scan"
    BY <1>10 DEF Scan, At
  <2> HIDE DEF there
  <2>2. new.stage = "evict" /\ new.cands = there /\ new.victim = t.victim
    BY <1>0 DEF Tasks
  <2> HIDE DEF new
  <2>3. task'[r] = new /\ disk' = disk
    BY <1>3, <2>1 DEF Goes
  <2>4. ASSUME NEW u \in Ranks, NEW w \in Versions, <<u, w>> \in there
        PROVE  disk[w].sidecar = "civitai"
    BY <2>4 DEF there, Evictable
  <2>5. DiskEffect(r)
    BY <2>1, <2>2, <2>3, DiskUntouched DEF Writing
  <2> QED BY <1>0, <1>2, <2>1, <2>2, <2>3, <2>4, <2>5 DEF DiskEffect, TaskInv, Missing, Present
<1>11. CASE Recheck(r)
  <2> DEFINE opened == [t EXCEPT !.stage = "open", !.cands = {}]
             skipped(c) == [t EXCEPT !.cands = t.cands \ {c}]
             chosen(c) == [t EXCEPT !.stage = "unlink", !.cands = t.cands \ {c},
                                    !.victim = c[2]]
  <2>1. /\ t.stage = "evict"
        /\ \/ Goes(r, opened) \/ Goes(r, Failing(r, "refused"))
           \/ \E c \in t.cands : Goes(r, skipped(c)) \/ Goes(r, chosen(c))
    BY <1>11 DEF Recheck, At, Oldest
  <2>2. ~Present(v) /\ t.stage \notin Writing
    BY <1>2, <2>1 DEF TaskInv, Missing, Writing
  <2>3. /\ opened.stage = "open" /\ opened.cands = {} /\ opened.victim = t.victim
        /\ \A c : /\ skipped(c).stage = "evict" /\ skipped(c).cands = t.cands \ {c}
                  /\ skipped(c).victim = t.victim
                  /\ chosen(c).stage = "unlink" /\ chosen(c).cands = t.cands \ {c}
                  /\ chosen(c).victim = c[2]
    BY <1>0, <2>1 DEF Tasks
  <2> HIDE DEF opened, skipped, chosen
  <2>4. CASE Goes(r, Failing(r, "refused"))
    BY <1>5, <2>2, <2>4
  <2>5. CASE Goes(r, opened)
    BY <1>4, <2>2, <2>3, <2>5 DEF Goes
  <2>6. ASSUME NEW c \in t.cands, Goes(r, skipped(c))
        PROVE  DiskEffect(r) /\ TaskInv(r)'
    BY <1>4, <2>2, <2>3, <2>6 DEF Goes
  <2>7. ASSUME NEW c \in t.cands, Goes(r, chosen(c))
        PROVE  DiskEffect(r) /\ TaskInv(r)'
    <3>1. task'[r] = chosen(c) /\ disk' = disk
      BY <1>3, <2>7 DEF Goes
    <3>2. c[1] \in Ranks /\ c[2] \in Versions /\ c = <<c[1], c[2]>>
      BY <1>0 DEF Tasks
    <3>3. disk[c[2]].file # "drop" \/ disk[c[2]].sidecar = "civitai"
      BY <1>2, <3>2 DEF TaskInv
    <3>4. DiskEffect(r)
      BY <2>2, <3>1, DiskUntouched
    <3> QED BY <1>0, <1>2, <2>1, <2>3, <3>1, <3>2, <3>3, <3>4
            DEF TaskInv, Missing, Present
  <2> QED BY <2>1, <2>4, <2>5, <2>6, <2>7
<1>12. CASE Unlink(r)
  <2> DEFINE u == t.victim
             new1 == [t EXCEPT !.stage = "evict", !.victim = None,
                               !.reclaimed = t.reclaimed + Size[t.victim]]
             new2 == [t EXCEPT !.stage = "evict", !.victim = None]
  <2>1. t.stage = "unlink" /\ t.stage \notin Writing /\ u \in Versions /\ ~Present(v)
    BY <1>2, <1>12 DEF Unlink, At, TaskInv, Missing, Writing
  <2>2. /\ new1.stage = "evict" /\ new1.cands = t.cands /\ new1.victim = None
        /\ new2.stage = "evict" /\ new2.cands = t.cands /\ new2.victim = None
    BY <1>0 DEF Tasks
  <2>3. /\ \E new \in {new1, new2} : task' = [task EXCEPT ![r] = new]
        /\ \/ disk' = disk
           \/ \E left \in BOOLEAN :
                 disk' = [disk EXCEPT ![u].file = "absent",
                                      ![u].sidecar = IF left THEN @ ELSE "none",
                                      ![u].used = IF left THEN @ ELSE "never"]
    BY <1>0, <1>12 DEF Unlink, Goes
  <2> HIDE DEF new1, new2
  <2>4. task'[r].stage = "evict" /\ task'[r].cands = t.cands /\ task'[r].victim = None
    BY <1>3, <2>2, <2>3
  <2>5. disk' = disk \/ /\ \A w \in Versions \ {u} : disk'[w] = disk[w]
                        /\ disk'[u].file = "absent" /\ disk'[u].tmp = disk[u].tmp
    <3>1. ASSUME NEW left \in BOOLEAN,
                 disk' = [disk EXCEPT ![u].file = "absent",
                                      ![u].sidecar = IF left THEN @ ELSE "none",
                                      ![u].used = IF left THEN @ ELSE "never"]
          PROVE  /\ \A w \in Versions \ {u} : disk'[w] = disk[w]
                 /\ disk'[u].file = "absent" /\ disk'[u].tmp = disk[u].tmp
      BY <1>0, <2>1, <3>1 DEF Files
    <3> QED BY <2>3, <3>1
  <2>6. DiskEffect(r)
    <3>1. CASE disk' = disk
      <4>1. t.stage \in Writing => task'[r].stage \in Writing
        BY <2>1
      <4> QED BY <3>1, <4>1, DiskUntouched
    <3>2. CASE disk' # disk
      <4>1. ASSUME NEW w \in Versions
            PROVE  /\ disk'[w].tmp = disk[w].tmp /\ disk'[w].file \in {disk[w].file, "absent"}
                   /\ disk'[w].file = "drop" => disk'[w] = disk[w]
                   /\ disk[w].file \in {"absent", "drop", "good"}
        <5>1. CASE w = u
          BY <2>5, <3>2, <5>1 DEF DiskInv, FileInv
        <5>2. CASE w # u
          BY <2>5, <3>2, <5>2 DEF DiskInv, FileInv
        <5> QED BY <5>1, <5>2
      <4> QED BY <1>1, <2>1, <4>1 DEF DiskEffect
    <3> QED BY <3>1, <3>2
  <2>7. disk'[v].file = "absent"
    BY <1>1, <2>1, <2>5 DEF Present
  <2> QED BY <1>0, <1>1, <2>4, <2>6, <2>7, TaskKeeps
<1>13. CASE Open(r)
  <2>1. t.stage = "open" /\ t.stage \notin Writing /\ ~Present(v)
    BY <1>2, <1>13 DEF Open, At, TaskInv, Missing, Writing
  <2>2. CASE UnsafeUrl(r)
    BY <1>5, <2>1, <2>2 DEF UnsafeUrl
  <2>3. CASE ~UnsafeUrl(r)
    <3> DEFINE new == [NoTask EXCEPT !.stage = "stream", !.lock = task[r].lock]
    <3>1. /\ disk' = [disk EXCEPT ![v].tmp = "partial"]
          /\ task' = [task EXCEPT ![r] = new]
      BY <1>13, <2>3 DEF Open
    <3>2. new.stage = "stream" /\ NoCandidates(new)
      BY FreshTask
    <3> HIDE DEF new
    <3>3. task'[r] = new
      BY <1>3, <3>1
    <3>4. /\ \A w \in Versions \ {v} : disk'[w] = disk[w]
          /\ disk'[v].file = disk[v].file /\ disk'[v].sidecar = disk[v].sidecar
      BY <1>0, <1>1, <3>1 DEF Files
    <3>5. DiskEffect(r)
      BY <1>1, <3>2, <3>3, <3>4 DEF DiskEffect, DiskInv, FileInv, Writing
    <3> QED BY <1>0, <1>1, <2>1, <3>2, <3>3, <3>4, <3>5, TaskKeeps DEF Present
  <2> QED BY <2>2, <2>3
<1>14. CASE Stream(r)
  <2>1. t.stage = "stream" /\ ~Present(v)
    BY <1>2, <1>14 DEF Stream, At, TaskInv, Missing
  <2> DEFINE next == [t EXCEPT !.stage = "verify"]
  <2>2. next.stage = "verify" /\ next.cands = t.cands /\ next.victim = t.victim
    BY <1>0 DEF Tasks
  <2>3. \/ /\ task' = [task EXCEPT ![r] = next]
           /\ \E c \in {"good", "bad"} : disk' = [disk EXCEPT ![v].tmp = c]
        \/ /\ \E code : task' = [task EXCEPT ![r] = Failing(r, code)]
           /\ disk' \in unlink_quiet(v)
    BY <1>0, <1>14 DEF Stream
  <2> HIDE DEF next
  <2>4. \/ task'[r] = next
        \/ NoCandidates(task'[r]) /\ task'[r].stage = "fail"
    <3>1. ASSUME NEW code, task' = [task EXCEPT ![r] = Failing(r, code)]
          PROVE  NoCandidates(task'[r]) /\ task'[r].stage = "fail"
      <4>1. task'[r] = Failing(r, code)
        BY <1>3, <3>1
      <4>2. NoCandidates(Failing(r, code)) /\ Failing(r, code).stage = "fail"
        BY FreshTask
      <4> QED BY <4>1, <4>2
    <3> QED BY <1>3, <2>3, <3>1
  <2>5. /\ \A w \in Versions \ {v} : disk'[w] = disk[w]
        /\ disk'[v].file = disk[v].file /\ disk'[v].sidecar = disk[v].sidecar
    BY <1>0, <1>1, <2>3 DEF unlink_quiet, Files
  <2>6. DiskEffect(r)
    BY <1>1, <2>2, <2>4, <2>5 DEF DiskEffect, DiskInv, FileInv, Writing
  <2> QED BY <1>0, <1>1, <2>1, <2>2, <2>4, <2>5, <2>6, TaskKeeps DEF Present, Missing
<1>15. CASE Verify(r)
  <2>1. t.stage = "verify" /\ ~Present(v)
    BY <1>2, <1>15 DEF Verify, At, TaskInv, Missing
  <2> DEFINE next == [t EXCEPT !.stage = "sidecar"]
  <2>2. next.stage = "sidecar" /\ next.cands = t.cands /\ next.victim = t.victim
    BY <1>0 DEF Tasks
  <2>3. \/ /\ task' = [task EXCEPT ![r] = next]
           /\ disk[v].tmp = "good" /\ disk' = disk
        \/ /\ task' = [task EXCEPT ![r] = Failing(r, "refused")]
           /\ disk' \in unlink_quiet(v)
    BY <1>0, <1>15 DEF Verify
  <2> HIDE DEF next
  <2>4. \/ task'[r] = next /\ disk'[v].tmp = "good"
        \/ NoCandidates(task'[r]) /\ task'[r].stage = "fail"
    <3>1. ASSUME task' = [task EXCEPT ![r] = Failing(r, "refused")]
          PROVE  NoCandidates(task'[r]) /\ task'[r].stage = "fail"
      <4>1. task'[r] = Failing(r, "refused")
        BY <1>3, <3>1
      <4>2. NoCandidates(Failing(r, "refused")) /\ Failing(r, "refused").stage = "fail"
        BY FreshTask
      <4> QED BY <4>1, <4>2
    <3> QED BY <1>3, <2>3, <3>1
  <2>5. /\ \A w \in Versions \ {v} : disk'[w] = disk[w]
        /\ disk'[v].file = disk[v].file /\ disk'[v].sidecar = disk[v].sidecar
    BY <1>0, <1>1, <2>3 DEF unlink_quiet, Files
  <2>6. DiskEffect(r)
    BY <1>1, <2>2, <2>4, <2>5 DEF DiskEffect, DiskInv, FileInv, Writing
  <2> QED BY <1>0, <1>1, <2>1, <2>2, <2>4, <2>5, <2>6, TaskKeeps DEF Present, Missing
<1>16. CASE Sidecar(r)
  <2>1. t.stage = "sidecar" /\ ~Present(v) /\ disk[v].tmp = "good"
    BY <1>2, <1>16 DEF Sidecar, At, TaskInv, Missing
  <2>2. task'[r].stage = "replace" /\ task'[r].cands = t.cands /\ task'[r].victim = t.victim
    BY <1>0, <1>16 DEF Sidecar, Tasks
  <2>3. /\ \A w \in Versions \ {v} : disk'[w] = disk[w]
        /\ disk'[v].file = disk[v].file /\ disk'[v].sidecar = "civitai"
        /\ disk'[v].tmp = disk[v].tmp
    BY <1>0, <1>1, <1>16 DEF Sidecar, Files
  <2>4. DiskEffect(r)
    BY <1>1, <2>2, <2>3 DEF DiskEffect, DiskInv, FileInv, Writing
  <2> QED BY <1>0, <1>1, <2>1, <2>2, <2>3, <2>4, TaskKeeps DEF Present, Missing
<1>17. CASE Replace(r)
  <2>1. t.stage = "replace" /\ ~Present(v) /\ disk[v].tmp = "good"
    BY <1>2, <1>17 DEF Replace, At, TaskInv, Missing
  <2>2. task'[r].stage = "name" /\ task'[r].cands = t.cands /\ task'[r].victim = t.victim
    BY <1>0, <1>17 DEF Replace, Tasks
  <2>3. /\ \A w \in Versions \ {v} : disk'[w] = disk[w]
        /\ disk'[v].file = disk[v].tmp /\ disk'[v].tmp = "absent"
    BY <1>0, <1>1, <1>17 DEF Replace, Files
  <2>4. DiskEffect(r)
    BY <1>1, <2>1, <2>2, <2>3 DEF DiskEffect, DiskInv, FileInv
  <2> QED BY <1>0, <1>1, <2>2, <2>4, TaskKeeps DEF Missing
<1>18. CASE NameDest(r) \/ Again(r)
  <2>1. /\ task'[r].stage \in {"again", "finish"} /\ task'[r].cands = t.cands
        /\ task'[r].victim = t.victim /\ disk' = disk /\ t.stage \notin Writing
    BY <1>0, <1>18 DEF NameDest, Again, At, Tasks, Writing
  <2>2. DiskEffect(r)
    BY <2>1, DiskUntouched
  <2> QED BY <1>0, <1>1, <2>1, <2>2, TaskKeeps DEF Missing
<1>19. CASE Raises(r)
  <2> DEFINE new == [NoTask EXCEPT !.stage = "internal", !.lock = task[r].lock]
  <2>1. task' = [task EXCEPT ![r] = new] /\ disk' = disk
    BY <1>19 DEF Raises, Goes
  <2>2. new.stage = "internal" /\ NoCandidates(new)
    BY FreshTask
  <2>3. /\ new.stage \notin {"unlink", "sidecar", "replace"} /\ new.stage \in Writing
        /\ new.stage \notin Missing
    BY <2>2 DEF Missing, Writing
  <2> HIDE DEF new
  <2> QED BY <1>4, <2>1, <2>2, <2>3
<1> QED BY <1>6, <1>7, <1>8, <1>9, <1>10, <1>11, <1>12, <1>13, <1>14, <1>15, <1>16, <1>17,
           <1>18, <1>19 DEF OwnStep


\* The files after a step of a task.
LEMMA OwnDisk ==
    ASSUME TypeOK, RowsInv, OneActiveRow, DiskInv, NEW r \in Requests, OwnStep(r)
    PROVE  DiskInv'
<1> DEFINE v == rows[r].version
<1>0. DiskEffect(r) /\ TaskInv(r)' /\ Continues(r) /\ NonTerminal(r)
  <2>1. Continues(r)
    BY OwnStepContinues
  <2>2. NonTerminal(r)
    BY <2>1, LiveStatus DEF Continues, Live
  <2> QED BY <2>1, <2>2, OwnStepDisk
<1>1. ASSUME NEW u \in Versions
      PROVE  FileInv(u)'
  <2>1. FileInv(u)
    BY DEF DiskInv
  <2>2. disk'[u].tmp # "absent" => Accountable(u)'
    <3> SUFFICES ASSUME disk'[u].tmp # "absent"
                 PROVE  Accountable(u)'
      OBVIOUS
    <3>1. CASE u = v /\ task'[r].stage \in Writing
      BY <1>0, <3>1 DEF Accountable, Answers, Continues
    <3>2. CASE ~(u = v /\ task'[r].stage \in Writing)
      <4>1. disk[u].tmp # "absent" /\ (u = v => task[r].stage \notin Writing)
        BY <1>0, <3>2 DEF DiskEffect
      <4>2. Accountable(u)
        BY <1>0, <2>1, <4>1 DEF FileInv, Continues
      <4>3. PICK q \in Requests : rows[q].version = u /\ Answers(q)
        BY <4>2 DEF Accountable
      <4>4. rows'[q].version = u /\ Answers(q)'
        <5>1. q # r
          <6>1. Live(r) /\ rows[r].status # "failed"
            BY <1>0 DEF Continues, Live, NonTerminal, _NON_TERMINAL
          <6>2. q = r => u = v /\ task[r].stage \in Writing
            BY <4>3, <6>1 DEF Answers
          <6> QED BY <4>1, <6>2
        <5>2. task'[q] = task[q] /\ rows'[q] = rows[q]
          BY <1>0, <5>1 DEF Continues
        <5> QED BY <4>3, <5>2 DEF Answers, NonTerminal, Live
      <4> QED BY <4>4 DEF Accountable
    <3> QED BY <3>1, <3>2
  <2>3. ASSUME disk'[u].file = "drop", disk'[u].sidecar = "civitai"
        PROVE  \E q \in Requests : rows'[q].version = u
    <3>1. u = v \/ \E q \in Requests : rows[q].version = u
      BY <1>0, <2>1, <2>3 DEF DiskEffect, FileInv
    <3> QED BY <1>0, <3>1 DEF Continues
  <2> QED BY <1>0, <2>2, <2>3 DEF FileInv, DiskEffect
<1>2. ASSUME NEW q \in Requests, q # r
      PROVE  TaskInv(q)'
  <2>1. TaskInv(q) /\ task'[q] = task[q] /\ rows'[q] = rows[q]
    BY <1>0, <1>2 DEF DiskInv, Continues
  <2>2. ASSUME Live(q)
        PROVE  rows[q].version # v /\ rows[q].version \in Versions
    <3>1. NonTerminal(q)
      BY <2>2, LiveStatus
    <3> QED BY <1>0, <1>2, <3>1 DEF OneActiveRow, RowsInv, RowInv, NonTerminal, _NON_TERMINAL
  <2>3. /\ task[q].stage \in {"sidecar", "replace"} => disk'[rows[q].version].tmp = "good"
        /\ task[q].stage \in Missing => disk'[rows[q].version].file = "absent"
    BY <1>0, <2>1, <2>2 DEF DiskEffect, TaskInv, Live, Missing, Present
  <2>4. ASSUME NEW w \in Versions,
               (\E u \in Ranks : <<u, w>> \in task[q].cands) \/ task[q].victim = w
        PROVE  disk'[w].file # "drop" \/ disk'[w].sidecar = "civitai"
    <3>1. disk[w].file # "drop" \/ disk[w].sidecar = "civitai"
      BY <2>1, <2>4 DEF TaskInv
    <3> QED BY <1>0, <3>1 DEF DiskEffect
  <2> QED BY <2>1, <2>3, <2>4 DEF TaskInv, Present
<1> QED BY <1>0, <1>1, <1>2 DEF DiskInv

\* A task that ends leaves behind what it has to answer for.
LEMMA LastDisk ==
    ASSUME TypeOK, RowsInv, DiskInv, NEW r \in Requests, LastStep(r)
    PROVE  DiskInv'
<1>0. /\ rows \in [Requests -> LoraRow] /\ task \in [Requests -> Tasks]
      /\ rows[r] \in LoraRow
  BY DEF TypeOK
<1>1. /\ disk' = disk /\ phase' = phase /\ task' = [task EXCEPT ![r] = NoTask]
      /\ lost \subseteq lost' /\ Live(r)
  BY DEF LastStep, Finish, Fail, Internal, RowReadFails, Leave, At, Live
<1>2. /\ task'[r] = NoTask
      /\ \A q \in Requests \ {r} : task'[q] = task[q] /\ rows'[q] = rows[q]
  BY <1>0, <1>1 DEF LastStep, Finish, Fail, Internal, RowReadFails, Leave
<1>3. NonTerminal(r)
  BY <1>1, LiveStatus
<1>4. /\ rows'[r].version = rows[r].version
      /\ task[r].stage \in Writing => rows'[r].status \in _NON_TERMINAL \cup {"failed"}
  <2>1. CASE Finish(r)
    <3>1. rows'[r] = set_status(rows[r], "done") /\ task[r].stage = "finish"
      BY <1>0, <2>1 DEF Finish, Leave, At
    <3> QED BY <1>0, <3>1, RowFields DEF Writing
  <2>2. CASE ~Finish(r)
    <3>1. rows'[r] = rows[r] \/ \E c : rows'[r] = set_failed(rows[r], c, FALSE)
      BY <1>0, <2>2 DEF LastStep, Fail, Internal, RowReadFails, Leave
    <3>2. \A c : /\ set_failed(rows[r], c, FALSE).version = rows[r].version
                  /\ set_failed(rows[r], c, FALSE).status = "failed"
      BY <1>0 DEF set_failed, LoraRow
    <3> QED BY <1>3, <3>1, <3>2 DEF NonTerminal
  <2> QED BY <2>1, <2>2
<1>5. ASSUME NEW u \in Versions, Accountable(u)
      PROVE  Accountable(u)'
  <2>1. PICK q \in Requests : rows[q].version = u /\ Answers(q)
    BY <1>5 DEF Accountable
  <2>2. rows'[q].version = u /\ Answers(q)'
    <3>1. CASE q = r
      <4>1. task[r].stage \in Writing
        BY <1>1, <1>3, <2>1, <3>1 DEF Answers, NonTerminal, _NON_TERMINAL
      <4>2. ~Live(r)'
        BY <1>2 DEF Live, NoTask
      <4> QED BY <1>4, <2>1, <3>1, <4>1, <4>2 DEF Answers, NonTerminal
    <3>2. CASE q # r
      <4>1. task'[q] = task[q] /\ rows'[q] = rows[q]
        BY <1>2, <3>2
      <4> QED BY <2>1, <4>1 DEF Answers, NonTerminal, Live
    <3> QED BY <3>1, <3>2
  <2> QED BY <2>2 DEF Accountable
<1>6. ASSUME NEW u \in Versions
      PROVE  FileInv(u)'
  <2>1. FileInv(u)
    BY DEF DiskInv
  <2>2. \A q \in Requests : rows'[q].version = rows[q].version
    BY <1>2, <1>4
  <2> QED BY <1>1, <1>5, <2>1, <2>2 DEF FileInv
<1>7. ASSUME NEW q \in Requests
      PROVE  TaskInv(q)'
  <2>1. CASE q = r
    <3>1. NoCandidates(task'[r]) /\ task'[r].stage = "none" /\ None \notin Versions
      BY <1>2, FreshTask, FetchAssumption
    <3> QED BY <2>1, <3>1 DEF TaskInv, NoCandidates, Missing
  <2>2. CASE q # r
    BY <1>1, <1>2, <2>2 DEF DiskInv, TaskInv, Present
  <2> QED BY <2>1, <2>2
<1> QED BY <1>6, <1>7 DEF DiskInv


\* Steps that change neither files, sidecars nor what a task knows about them.
LEMMA QuietDisk ==
    ASSUME DiskInv, UNCHANGED <<rows, task>>,
           \A u \in Versions : /\ disk'[u].file = disk[u].file
                               /\ disk'[u].tmp = disk[u].tmp
                               /\ disk'[u].sidecar = disk[u].sidecar,
           \A r \in Requests : rows[r].version \in Versions \/ ~Live(r)
    PROVE  DiskInv'
<1>1. ASSUME NEW u \in Versions
      PROVE  FileInv(u)'
  <2>1. FileInv(u)
    BY DEF DiskInv
  <2> QED BY <2>1 DEF FileInv, Accountable, Answers, NonTerminal, Live
<1>2. ASSUME NEW r \in Requests
      PROVE  TaskInv(r)'
  <2>1. TaskInv(r)
    BY DEF DiskInv
  <2>2. /\ task[r].stage \in {"sidecar", "replace"} => rows[r].version \in Versions
        /\ task[r].stage \in Missing => rows[r].version \in Versions
    BY DEF Live, Missing
  <2> QED BY <2>1, <2>2 DEF TaskInv, Present
<1> QED BY <1>1, <1>2 DEF DiskInv

\* Steps that leave files and sidecars alone, sweep partial downloads at most, and
\* end tasks whose rows are left for recovery or are over.
LEMMA DownDisk ==
    ASSUME TypeOK, DiskInv,
           \A u \in Versions : /\ disk'[u].file = disk[u].file
                               /\ disk'[u].sidecar = disk[u].sidecar
                               /\ disk'[u].tmp \in {disk[u].tmp, "absent"}
                               /\ disk'[u] = disk[u] \/ \A r \in Requests : ~Live(r),
           \A r \in Requests : /\ rows'[r].version = rows[r].version
                               /\ task'[r] = task[r] \/ task'[r] = NoTask
                               /\ Answers(r) => Answers(r)',
           \A r \in Requests : rows[r].version \in Versions \/ ~Live(r)
    PROVE  DiskInv'
<1>1. ASSUME NEW u \in Versions
      PROVE  FileInv(u)'
  <2>1. FileInv(u)
    BY DEF DiskInv
  <2>2. Accountable(u) => Accountable(u)'
    BY DEF Accountable
  <2> QED BY <2>1, <2>2 DEF FileInv
<1>2. ASSUME NEW r \in Requests
      PROVE  TaskInv(r)'
  <2>1. TaskInv(r)
    BY DEF DiskInv
  <2>2. CASE task'[r] = NoTask
    <3>1. NoCandidates(task'[r]) /\ task'[r].stage = "none" /\ None \notin Versions
      BY <2>2, FreshTask, FetchAssumption
    <3> QED BY <3>1 DEF TaskInv, NoCandidates, Missing
  <2>3. CASE task'[r] = task[r]
    <3>1. /\ task[r].stage \in {"sidecar", "replace"} =>
                disk'[rows[r].version].tmp = disk[rows[r].version].tmp
          /\ task[r].stage \in Missing =>
                disk'[rows[r].version].file = disk[rows[r].version].file
      BY DEF Live, Missing
    <3> QED BY <2>1, <2>3, <3>1 DEF TaskInv, Present
  <2> QED BY <2>2, <2>3
<1> QED BY <1>1, <1>2 DEF DiskInv

LEMMA PostDisk ==
    ASSUME TypeOK, RowsInv, DiskInv, NEW r \in Requests, PostStep(r)
    PROVE  DiskInv'
<1>0. /\ disk' = disk /\ phase' = phase /\ lost' = lost
      /\ \A q \in Requests \ {r} : task'[q] = task[q] /\ rows'[q] = rows[q]
      /\ post[r].stage \in {"idle", "insert", "refind"}
  BY DEF PostStep, Post, Insert, Refind, TypeOK
<1>1. rows[r] = NoLoraRow /\ rows[r].status = "none" /\ ~Live(r)
  BY <1>0 DEF RowsInv, RowInv, StatusesAt, _NON_TERMINAL
<1>2. rows[r].version = None /\ None \notin Versions
  BY <1>1, FetchAssumption DEF NoLoraRow
<1>3. ASSUME NEW u \in Versions
      PROVE  FileInv(u)'
  <2>1. FileInv(u)
    BY DEF DiskInv
  <2>2. Accountable(u) => Accountable(u)'
    BY <1>0, <1>2 DEF Accountable, Answers, NonTerminal, Live
  <2>3. (\E q \in Requests : rows[q].version = u) => \E q \in Requests : rows'[q].version = u
    BY <1>0, <1>2
  <2> QED BY <1>0, <2>1, <2>2, <2>3 DEF FileInv
<1>4. ASSUME NEW q \in Requests
      PROVE  TaskInv(q)'
  <2>1. TaskInv(q)
    BY DEF DiskInv
  <2>2. CASE q # r
    BY <1>0, <2>1, <2>2 DEF TaskInv, Present
  <2>3. CASE q = r
    <3>1. /\ task'[r].stage \in {"none", "queued"} /\ task'[r].cands = task[r].cands
          /\ task'[r].victim = task[r].victim
      BY <1>1 DEF PostStep, Post, Insert, Refind, TypeOK, Tasks, Live
    <3> QED BY <1>0, <2>1, <2>3, <3>1 DEF TaskInv, Missing
  <2> QED BY <2>2, <2>3
<1> QED BY <1>3, <1>4 DEF DiskInv

LEMMA NextDisk ==
    ASSUME TypeOK, RowsInv, OneActiveRow, DiskInv, [Next]_vars
    PROVE  DiskInv'
<1>0. /\ disk \in [Versions -> Files] /\ task \in [Requests -> Tasks]
      /\ rows \in [Requests -> LoraRow]
  BY DEF TypeOK
<1>1. \A r \in Requests : rows[r].version \in Versions \/ ~Live(r)
  BY LiveStatus DEF RowsInv, RowInv, NonTerminal, _NON_TERMINAL
<1>2. ASSUME NEW r \in Requests, OwnStep(r)
      PROVE  DiskInv'
  BY <1>2, OwnDisk
<1>3. ASSUME NEW r \in Requests, LastStep(r) \/ PostStep(r)
      PROVE  DiskInv'
  BY <1>3, LastDisk, PostDisk
<1>4. CASE JobStep \/ \E v \in Versions : Age(v)
  <2>1. UNCHANGED <<rows, task, phase, lost>>
    BY <1>4 DEF JobStep, Check, Touch, Accept, Work, EndJob, JobGoes, Age
  <2>2. \/ disk' = disk
        \/ \E v : disk' = touched(v)
        \/ \E v \in Versions : disk' = [disk EXCEPT ![v].used = "old"]
    BY <1>4 DEF JobStep, Check, Touch, Accept, Work, EndJob, Age
  <2>3. ASSUME NEW v, disk' = touched(v), NEW u \in Versions
        PROVE  /\ disk'[u].file = disk[u].file /\ disk'[u].tmp = disk[u].tmp
               /\ disk'[u].sidecar = disk[u].sidecar
    <3>1. CASE u = v
      BY <1>0, <2>3, <3>1 DEF touched, Files
    <3>2. CASE u # v
      BY <1>0, <2>3, <3>2 DEF touched
    <3> QED BY <3>1, <3>2
  <2>4. ASSUME NEW v \in Versions, disk' = [disk EXCEPT ![v].used = "old"], NEW u \in Versions
        PROVE  /\ disk'[u].file = disk[u].file /\ disk'[u].tmp = disk[u].tmp
               /\ disk'[u].sidecar = disk[u].sidecar
    BY <1>0, <2>4 DEF Files
  <2>5. \A u \in Versions : /\ disk'[u].file = disk[u].file
                            /\ disk'[u].tmp = disk[u].tmp
                            /\ disk'[u].sidecar = disk[u].sidecar
    BY <2>2, <2>3, <2>4
  <2> QED BY <1>1, <2>1, <2>5, QuietDisk
<1>5. CASE Shutdown \/ Boot \/ Quiescent \/ vars' = vars
  <2>1. UNCHANGED <<rows, task, disk>>
    BY <1>5 DEF Shutdown, Boot, Quiescent, vars
  <2> QED BY <1>1, <2>1, QuietDisk
<1>6. CASE Stopped \/ Crash
  <2>1. /\ rows' = rows /\ disk' = disk /\ phase' = "down"
        /\ \A r \in Requests : task'[r] = NoTask
    BY <1>6 DEF Stopped, Crash, Down
  <2>2. ASSUME NEW r \in Requests, Answers(r)
        PROVE  Answers(r)'
    <3>1. rows[r].status = "failed" \/ NonTerminal(r)
      BY <2>2, LiveStatus DEF Answers, Writing, Live
    <3>2. ~Live(r)'
      BY <2>1 DEF Live, NoTask
    <3> QED BY <2>1, <3>1, <3>2 DEF Answers, NonTerminal
  <2> QED BY <1>1, <2>1, <2>2, DownDisk
<1>7. CASE Serve
  <2>1. rows' = rows /\ task' = task /\ \A r \in Requests : ~Live(r)
    BY <1>7 DEF Serve, RowsInv, RowInv
  <2>2. \A u \in Versions : /\ disk'[u].file = disk[u].file
                            /\ disk'[u].sidecar = disk[u].sidecar
                            /\ disk'[u].tmp \in {disk[u].tmp, "absent"}
    BY <1>0, <1>7 DEF Serve, Files
  <2>3. \A r \in Requests : Answers(r) => Answers(r)'
    BY <2>1 DEF Answers, NonTerminal, Live
  <2> QED BY <1>1, <2>1, <2>2, <2>3, DownDisk
<1>8. ASSUME NEW r \in Requests, Cancelled(r) \/ RecoverRow(r)
      PROVE  DiskInv'
  <2>1. disk' = disk /\ \A q \in Requests \ {r} : task'[q] = task[q] /\ rows'[q] = rows[q]
    BY <1>0, <1>8 DEF Cancelled, RecoverRow
  <2>2. task'[r] = task[r] \/ task'[r] = NoTask
    BY <1>0, <1>8 DEF Cancelled, RecoverRow
  <2>3. rows'[r].version = rows[r].version /\ (Answers(r) => Answers(r)')
    <3>1. CASE Cancelled(r)
      <4>1. CancelledAs(r) /\ task'[r].stage = "none" /\ Live(r)
        BY <1>0, <3>1, CancelledRow DEF Cancelled, NoTask, Live
      <4>2. task[r].stage = "finish" => ~Answers(r)
        BY <4>1 DEF Answers, Writing, CancelledAs, NonTerminal, _NON_TERMINAL
      <4> QED BY <4>1, <4>2 DEF CancelledAs, Answers, NonTerminal, Live
    <3>2. CASE RecoverRow(r)
      <4>1. rows'[r] = set_failed(rows[r], "service_restarted", TRUE)
        BY <1>0, <3>2 DEF RecoverRow
      <4>2. rows'[r].version = rows[r].version /\ rows'[r].status = "failed"
        BY <1>0, <4>1 DEF set_failed, LoraRow
      <4> QED BY <4>2 DEF Answers
    <3> QED BY <1>8, <3>1, <3>2
  <2>4. \A q \in Requests : /\ rows'[q].version = rows[q].version
                            /\ task'[q] = task[q] \/ task'[q] = NoTask
                            /\ Answers(q) => Answers(q)'
    BY <2>1, <2>2, <2>3 DEF Answers, NonTerminal, Live
  <2> QED BY <1>1, <2>1, <2>4, DownDisk
<1> QED BY <1>2, <1>3, <1>4, <1>5, <1>6, <1>7, <1>8, StepKinds DEF LifeStep

-----------------------------------------------------------------------------
(* The theorems.                                                           *)

\* The initial states satisfy the invariant, every step keeps it.
LEMMA InitInv ==
    ASSUME Init
    PROVE  IInv
<1>1. NoTask \in Tasks /\ NoLoraRow \in LoraRow
  BY TaskOperations, RowOperations
<1>2. disk \in [Versions -> Files]
  BY DEF Init, Files, Content
<1>3. Cardinality({}) <= MaxFaults
  BY FS_EmptySet, FetchAssumption
<1>4. TypeOK
  BY <1>1, <1>2, <1>3, FetchAssumption DEF Init, TypeOK, GenJob, NoLora
<1>5. /\ \A r \in Requests : task[r] = NoTask /\ rows[r] = NoLoraRow
      /\ \A r \in Requests : post[r].stage = "idle" /\ post[r].reply = None
      /\ todo = {} /\ phase = "up"
      /\ NoTask.stage = "none" /\ NoLoraRow.status = "none"
  BY DEF Init, NoTask, NoLoraRow
<1>6. RowsInv
  BY <1>5 DEF RowsInv, RowInv, Live, NonTerminal, unanswered, _NON_TERMINAL
<1>7. OneActiveRow
  BY <1>5 DEF OneActiveRow, NonTerminal, _NON_TERMINAL
<1>8. ASSUME NEW v \in Versions
      PROVE  FileInv(v)
  BY DEF Init, FileInv
<1>9. ASSUME NEW r \in Requests
      PROVE  TaskInv(r)
  <2>1. NoCandidates(task[r]) /\ None \notin Versions
    BY <1>5, FreshTask, FetchAssumption
  <2> QED BY <1>5, <2>1 DEF TaskInv, NoCandidates, Missing
<1> QED BY <1>4, <1>6, <1>7, <1>8, <1>9 DEF IInv, DiskInv

LEMMA NextInv ==
    ASSUME IInv, [Next]_vars
    PROVE  IInv'
<1>1. TypeOK' /\ RowsInv' /\ DiskInv'
  BY NextTypes, NextRows, NextDisk DEF IInv
<1>2. OneActiveRow'
  <2>1. CASE \A r \in Requests : rows'[r] = rows[r]
    BY <2>1 DEF IInv, OneActiveRow, NonTerminal
  <2>2. CASE OneRowMoves
    BY <2>2, NextOneActive DEF IInv
  <2> QED BY <2>1, <2>2, NextMovesRows DEF IInv
<1> QED BY <1>1, <1>2 DEF IInv

LEMMA Invariant ==
    Spec => []IInv
BY InitInv, NextInv, PTL DEF Spec


\* Whatever the interleaving of POSTs, tasks, stops and recovery, two tasks never
\* work on one version, hence on one .tmp and one destination (post_fetch, _run).
THEOREM OneTaskPerVersionHolds == Spec => []OneTaskPerVersion
<1>1. ASSUME IInv
      PROVE  OneTaskPerVersion
  <2>1. \A r \in Requests : Live(r) => NonTerminal(r)
    BY <1>1, LiveStatus DEF IInv
  <2> QED BY <1>1, <2>1 DEF IInv, OneActiveRow, OneTaskPerVersion
<1> QED BY <1>1, Invariant, PTL

\* Every id a client got can be polled: it is of the version asked for and, while
\* the service is up, over, worked on, or left by a failed last-resort write
\* (post_fetch, _run, recover_fetches).
THEOREM AnswersAreServedHolds == Spec => []AnswersAreServed
<1>1. ASSUME IInv
      PROVE  AnswersAreServed
  <2> SUFFICES ASSUME NEW r \in Requests, post[r].reply # None
               PROVE  LET q == post[r].reply IN
                      /\ rows[q].version = post[r].version
                      /\ phase = "up" =>
                            rows[q].status \in {"done", "failed"} \/ Live(q) \/ q \in lost
    BY DEF AnswersAreServed
  <2> DEFINE q == post[r].reply
  <2>1. q \in Requests
    BY <1>1 DEF IInv, TypeOK
  <2>2. rows[q].status # "none" /\ rows[q].version = post[r].version
    BY <1>1 DEF IInv, RowsInv, RowInv
  <2>3. rows[q].status \in FetchStatus
    BY <1>1, <2>1 DEF IInv, TypeOK, LoraRow
  <2>4. phase = "up" /\ NonTerminal(q) => Live(q) \/ q \in lost
    BY <1>1, <2>1 DEF IInv, RowsInv, RowInv
  <2> QED BY <2>2, <2>3, <2>4 DEF FetchStatus, NonTerminal
<1> QED BY <1>1, Invariant, PTL

\* Types hold, what the fetcher installs is complete and of the right hash, and a
\* partial download has somebody to answer for it (_fetch, recover_fetches).
THEOREM FilesAccountedHolds == Spec => []FilesAccounted
<1>1. ASSUME IInv
      PROVE  FilesAccounted
  <2>1. \A r \in Requests : task[r].stage \in Writing => Live(r)
    BY DEF Writing, Live
  <2>2. ASSUME NEW v \in Versions, Accountable(v), phase = "up"
        PROVE  \E r \in Requests :
                  /\ rows[r].version = v
                  /\ Live(r) \/ r \in lost \/ rows[r].status = "failed"
    <3>1. PICK r \in Requests : rows[r].version = v /\ Answers(r)
      BY <2>2 DEF Accountable
    <3>2. NonTerminal(r) => Live(r) \/ r \in lost
      BY <1>1, <2>2 DEF IInv, RowsInv, RowInv
    <3> QED BY <2>1, <3>1, <3>2 DEF Answers
  <2> QED BY <1>1, <2>2 DEF IInv, DiskInv, FileInv, FilesAccounted
<1> QED BY <1>1, Invariant, PTL

\* Every status that a writer finds may go to the one it writes and a terminal row
\* is never written again; a fetch cancelled inside _fetch leaves its row handed
\* over, unless the cancellation fell into the commit of its last write: then the
\* handler is refused and the row keeps its verdict (fetches.py, _assert_allowed).
THEOREM TransitionsAllowedHolds == Spec => TransitionsAllowed
<1> DEFINE Written ==
       \A r \in Requests :
          /\ rows'[r] # rows[r] /\ rows[r].status # "none" =>
                \/ rows'[r].status \in _ALLOWED_TRANSITIONS[rows[r].status]
                \/ /\ rows'[r].status = rows[r].status
                   /\ rows[r].status \in _NON_TERMINAL
          /\ Cancelled(r) /\ task[r].stage \in FetchStages =>
                \/ rows'[r].status = "failed" /\ rows'[r].handover
                \/ /\ task[r].stage \in {"finish", "fail"}
                   /\ rows'[r].status \in {"done", "failed"}
<1>1. ASSUME IInv, [Next]_vars
      PROVE  Written
  <2>1. \A r \in Requests : RowMoves(r)
    BY <1>1, NextMovesRows DEF IInv, OneRowMoves, RowMoves
  <2>2. ASSUME NEW r \in Requests, rows'[r] # rows[r], rows[r].status # "none"
        PROVE  \/ rows'[r].status \in _ALLOWED_TRANSITIONS[rows[r].status]
               \/ /\ rows'[r].status = rows[r].status
                  /\ rows[r].status \in _NON_TERMINAL
    BY <2>1, <2>2 DEF RowMoves, Inserted, Advanced, NonTerminal
  <2>3. ASSUME NEW r \in Requests, Cancelled(r), task[r].stage \in FetchStages
        PROVE  \/ rows'[r].status = "failed" /\ rows'[r].handover
               \/ /\ task[r].stage \in {"finish", "fail"}
                  /\ rows'[r].status \in {"done", "failed"}
    <3>1. CancelledAs(r)
      BY <1>1, <2>3, CancelledRow DEF IInv
    <3> QED BY <2>3, <3>1 DEF CancelledAs
  <2> QED BY <2>2, <2>3
<1>2. ASSUME IInv, [Next]_vars
      PROVE  [Written]_vars
  BY <1>1, <1>2
<1> QED BY <1>2, Invariant, PTL DEF Spec, TransitionsAllowed

\* The only steps that change which files there are.
LEMMA FilesStay ==
    ASSUME TypeOK, [Next]_vars, NEW v \in Versions
    PROVE  \/ disk'[v].file = disk[v].file
           \/ \E r \in Requests : \/ Unlink(r) /\ task[r].victim = v
                                  \/ Replace(r) /\ rows[r].version = v
<1>0. disk \in [Versions -> Files]
  BY DEF TypeOK
<1>1. ASSUME NEW u, NEW x, disk' = [disk EXCEPT ![u] = x], u # v
      PROVE  disk'[v].file = disk[v].file
  BY <1>0, <1>1
<1>2. ASSUME NEW r \in Requests, OwnStep(r), ~(Unlink(r) /\ task[r].victim = v),
             ~(Replace(r) /\ rows[r].version = v)
      PROVE  disk'[v].file = disk[v].file
  <2>1. CASE Unlink(r) \/ Replace(r)
    BY <1>0, <1>1, <1>2, <2>1 DEF Unlink, Replace, Goes
  <2>2. CASE disk' = disk
    BY <2>2
  <2>3. CASE Place(r) \/ Open(r) \/ Stream(r) \/ Verify(r) \/ Sidecar(r)
    BY <1>0, <2>3 DEF Place, Open, UnsafeUrl, Stream, Verify, Sidecar, unlink_quiet, Goes, Files
  <2>4. disk' = disk \/ Unlink(r) \/ Replace(r) \/ Place(r) \/ Open(r) \/ Stream(r)
        \/ Verify(r) \/ Sidecar(r)
    BY <1>2 DEF OwnStep, TakeSlot, TakeLock, Begin, Metadata, MetadataFails, NoPrimaryFile,
           Scan, Recheck, NameDest, Again, Raises, Goes
  <2> QED BY <2>1, <2>2, <2>3, <2>4
<1>3. ASSUME NEW r \in Requests, LastStep(r) \/ PostStep(r)
      PROVE  disk' = disk
  BY <1>3 DEF LastStep, Finish, Fail, Internal, RowReadFails, Leave, PostStep, Post, Insert, Refind
<1>4. CASE JobStep \/ \E u \in Versions : Age(u)
  <2>1. \/ disk' = disk
        \/ \E u : disk' = touched(u)
        \/ \E u \in Versions : disk' = [disk EXCEPT ![u].used = "old"]
    BY <1>4 DEF JobStep, Check, Touch, Accept, Work, EndJob, Age
  <2> QED BY <1>0, <2>1 DEF touched, Files
<1>5. CASE LifeStep
  <2>1. CASE Serve
    BY <1>0, <2>1 DEF Serve, Files
  <2>2. CASE Shutdown \/ Stopped \/ Crash \/ Boot \/ Quiescent
    BY <2>2 DEF Shutdown, Stopped, Crash, Down, Boot, Quiescent, vars
  <2>3. CASE \E r \in Requests : Cancelled(r) \/ RecoverRow(r)
    BY <2>3 DEF Cancelled, RecoverRow
  <2> QED BY <1>5, <2>1, <2>2, <2>3 DEF LifeStep
<1>6. CASE vars' = vars
  BY <1>6 DEF vars
<1> QED BY <1>2, <1>3, <1>4, <1>5, <1>6, StepKinds

\* A file an operator put there goes only after a fetch of its version has
\* attached a sidecar to it (evict_for).
THEOREM HandDropsSurviveHolds == Spec => HandDropsSurvive
<1> DEFINE Survive ==
       \A v \in Versions : disk[v].file = "drop" /\ disk'[v].file # "drop" =>
          \E r \in Requests : rows[r].version = v /\ disk[v].sidecar = "civitai"
<1>1. ASSUME IInv, [Next]_vars
      PROVE  Survive
  <2> SUFFICES ASSUME NEW v \in Versions, disk[v].file = "drop", disk'[v].file # "drop"
               PROVE  \E r \in Requests : rows[r].version = v /\ disk[v].sidecar = "civitai"
    OBVIOUS
  <2>1. PICK r \in Requests : \/ Unlink(r) /\ task[r].victim = v
                              \/ Replace(r) /\ rows[r].version = v
    BY <1>1, FilesStay DEF IInv
  <2>2. TaskInv(r) /\ FileInv(v)
    BY <1>1 DEF IInv, DiskInv
  <2>3. ~(Replace(r) /\ rows[r].version = v)
    BY <2>2 DEF Replace, At, TaskInv, Missing, Present
  <2>4. disk[v].sidecar = "civitai"
    BY <2>1, <2>2, <2>3 DEF TaskInv
  <2> QED BY <2>2, <2>4 DEF FileInv
<1>2. ASSUME IInv, [Next]_vars
      PROVE  [Survive]_vars
  BY <1>1, <1>2
<1> QED BY <1>2, Invariant, PTL DEF Spec, HandDropsSurvive


-----------------------------------------------------------------------------
(* One fetch at a time.                                                    *)

InSlot(r) == task[r].stage \in Holding \cup {"slot"}

\* Nobody gets into the semaphore but through TakeSlot.
LEMMA SlotsTaken ==
    ASSUME TypeOK, RowsInv, [Next]_vars, NEW q \in Requests, InSlot(q)'
    PROVE  InSlot(q) \/ TakeSlot(q)
<1>0. task \in [Requests -> Tasks]
  BY DEF TypeOK
<1>1. CASE task'[q] = task[q]
  BY <1>1 DEF InSlot
<1>2. CASE task'[q] = NoTask
  BY <1>2 DEF InSlot, NoTask, Holding, FetchStages
<1>3. ASSUME NEW r \in Requests, OwnStep(r)
      PROVE  InSlot(q) \/ TakeSlot(q)
  <2>1. CASE q # r
    BY <1>1, <1>3, <2>1, OwnStepContinues DEF Continues
  <2>2. CASE q = r /\ ~TakeSlot(r)
    BY <1>3, <2>2 DEF OwnStep, TakeLock, Begin, Metadata, Place, Scan, Recheck, Unlink, Open,
           Stream, Verify, Sidecar, Replace, NameDest, Again, Raises, At,
           InSlot, Holding, FetchStages
  <2> QED BY <2>1, <2>2
<1>4. ASSUME NEW r \in Requests, LastStep(r)
      PROVE  task'[q] = task[q] \/ task'[q] = NoTask
  BY <1>0, <1>4 DEF LastStep, Finish, Fail, Internal, RowReadFails, Leave
<1>5. ASSUME NEW r \in Requests, PostStep(r)
      PROVE  task'[q] = task[q] \/ task'[q].stage = "queued"
  BY <1>0, <1>5 DEF PostStep, Post, Insert, Refind, Tasks
<1>6. CASE JobStep \/ \E u \in Versions : Age(u)
  BY <1>1, <1>6 DEF JobStep, Check, Touch, Accept, Work, EndJob, JobGoes, Age
<1>7. CASE LifeStep
  <2>1. task'[q] = task[q] \/ task'[q] = NoTask
    BY <1>0, <1>7 DEF LifeStep, Shutdown, Stopped, Crash, Down, Boot, Serve, Quiescent, vars,
           Cancelled, RecoverRow
  <2> QED BY <1>1, <1>2, <2>1
<1>8. CASE vars' = vars
  BY <1>1, <1>8 DEF vars
<1>9. "queued" \notin Holding \cup {"slot"}
  BY DEF Holding, FetchStages
<1> QED BY <1>1, <1>2, <1>3, <1>4, <1>5, <1>6, <1>7, <1>8, <1>9, StepKinds DEF InSlot

\* The semaphore is free for one only when nobody is in it.
LEMMA OneSlot ==
    ASSUME MaxConcurrent = 1, NEW r \in Requests, TakeSlot(r)
    PROVE  \A q \in Requests : ~InSlot(q)
<1>1. IsFiniteSet(InSemaphore)
  BY FS_Subset, FetchAssumption DEF InSemaphore
<1>2. Cardinality(InSemaphore) \in Nat /\ Cardinality(InSemaphore) < 1
  BY <1>1, FS_CardinalityType DEF TakeSlot, SemaphoreFree
<1>3. InSemaphore = {}
  BY <1>1, <1>2, FS_EmptySet
<1> QED BY <1>3 DEF InSemaphore, InSlot

LEMMA NextSerial ==
    ASSUME MaxConcurrent = 1, TypeOK, RowsInv, Serial, [Next]_vars
    PROVE  Serial'
<1> SUFFICES ASSUME NEW q \in Requests, NEW r \in Requests, InSlot(q)', InSlot(r)', q # r
             PROVE  FALSE
  BY DEF Serial, InSemaphore, InSlot
<1>1. (InSlot(q) \/ TakeSlot(q)) /\ (InSlot(r) \/ TakeSlot(r))
  BY SlotsTaken
<1>2. ~(InSlot(q) /\ InSlot(r))
  BY DEF Serial, InSemaphore, InSlot
<1>3. ~TakeSlot(q)
  <2> SUFFICES ASSUME TakeSlot(q)
               PROVE  FALSE
    OBVIOUS
  <2>1. TakeSlot(r) \/ InSlot(r)
    BY <1>1
  <2>2. ~InSlot(r)
    BY OneSlot
  <2>3. task'[r] = task[r]
    BY DEF TakeSlot, TypeOK
  <2> QED BY <2>2, <2>3 DEF InSlot
<1>4. ~TakeSlot(r)
  <2> SUFFICES ASSUME TakeSlot(r)
               PROVE  FALSE
    OBVIOUS
  <2>1. ~InSlot(q)
    BY OneSlot
  <2>2. task'[q] = task[q]
    BY DEF TakeSlot, TypeOK
  <2> QED BY <2>1, <2>2 DEF InSlot
<1> QED BY <1>1, <1>2, <1>3, <1>4

\* _directory_size as a sum over the files that are there.
There == {v \in Versions : Present(v)}

LEMMA DirectorySum == DirectorySize = SumOver(Size, There)
BY DEF DirectorySize, SumOver, There

LEMMA DirectorySums ==
    /\ DirectorySize = SumOver(Size, There)
    /\ (DirectorySize = SumOver(Size, There))'
BY DirectorySum, PTL

\* The size of the directory only depends on which files there are.
LEMMA SameSize ==
    ASSUME \A v \in Versions : Present(v)' = Present(v)
    PROVE  DirectorySize' = DirectorySize
<1>1. There' = There
  BY DEF There
<1> QED BY <1>1, DirectorySums

\* Taking a file away takes its size off.
LEMMA UnlinkSize ==
    ASSUME TypeOK, NEW u \in Versions, Present(u), ~Present(u)',
           \A v \in Versions \ {u} : Present(v)' = Present(v)
    PROVE  DirectorySize = Size[u] + DirectorySize'
<1>1. Size \in [Versions -> Nat] /\ IsFiniteSet(Versions)
  BY FetchAssumption
<1>2. There \in SUBSET Versions /\ u \in There /\ There' = There \ {u}
  BY DEF There
<1>3. SumsSplit(Size, Versions)
  BY <1>1, SumRemove
<1>4. SumOver(Size, There) = Size[u] + SumOver(Size, There \ {u})
  BY <1>2, <1>3 DEF SumsSplit
<1> QED BY <1>2, <1>4, DirectorySums


\* Jobs, the clock, stops and recovery leave files and sidecars alone and start
\* no task.
LEMMA OthersKeep ==
    ASSUME TypeOK, JobStep \/ (\E v \in Versions : Age(v)) \/ LifeStep \/ vars' = vars
    PROVE  /\ \A u \in Versions : disk'[u].file = disk[u].file
                                  /\ disk'[u].sidecar = disk[u].sidecar
           /\ \A q \in Requests : task'[q] = task[q] \/ task'[q] = NoTask
           /\ \A q \in Requests : rows'[q].version = rows[q].version
<1>0. /\ disk \in [Versions -> Files] /\ task \in [Requests -> Tasks]
      /\ rows \in [Requests -> LoraRow]
  BY DEF TypeOK
<1>1. CASE JobStep \/ \E v \in Versions : Age(v)
  <2>1. \/ disk' = disk
        \/ \E v : disk' = touched(v)
        \/ \E v \in Versions : disk' = [disk EXCEPT ![v].used = "old"]
    BY <1>1 DEF JobStep, Check, Touch, Accept, Work, EndJob, Age
  <2>2. rows' = rows /\ task' = task
    BY <1>1 DEF JobStep, Check, Touch, Accept, Work, EndJob, JobGoes, Age
  <2> QED BY <1>0, <2>1, <2>2 DEF touched, Files
<1>2. CASE LifeStep
  <2>1. \A q \in Requests : task'[q] = task[q] \/ task'[q] = NoTask
    BY <1>0, <1>2 DEF LifeStep, Shutdown, Stopped, Crash, Down, Boot, Serve, Quiescent, vars,
           Cancelled, RecoverRow
  <2>2. \A u \in Versions : disk'[u].file = disk[u].file /\ disk'[u].sidecar = disk[u].sidecar
    BY <1>0, <1>2 DEF LifeStep, Shutdown, Stopped, Crash, Down, Boot, Serve, Quiescent, vars,
           Cancelled, RecoverRow, Files
  <2>3. \A q \in Requests : rows'[q].version = rows[q].version
    <3>1. ASSUME NEW r \in Requests, Cancelled(r)
          PROVE  \E w : w.version = rows[r].version /\ rows' = [rows EXCEPT ![r] = w]
      BY <3>1, CancelledTyped
    <3>2. ASSUME NEW r \in Requests, RecoverRow(r)
          PROVE  \E w : w.version = rows[r].version /\ rows' = [rows EXCEPT ![r] = w]
      <4>1. rows' = [rows EXCEPT ![r] = set_failed(rows[r], "service_restarted", TRUE)]
        BY <1>0, <3>2 DEF RecoverRow
      <4>2. set_failed(rows[r], "service_restarted", TRUE).version = rows[r].version
        BY <1>0 DEF set_failed, LoraRow
      <4> QED BY <4>1, <4>2
    <3>3. rows' = rows \/ \E r \in Requests : Cancelled(r) \/ RecoverRow(r)
      BY <1>2 DEF LifeStep, Shutdown, Stopped, Crash, Down, Boot, Serve, Quiescent, vars
    <3> QED BY <1>0, <3>1, <3>2, <3>3
  <2> QED BY <1>0, <2>1, <2>2, <2>3
<1>3. CASE vars' = vars
  BY <1>3 DEF vars
<1> QED BY <1>1, <1>2, <1>3

\* A task outside the semaphore has no eviction to answer for.
LEMMA IdleSerial ==
    ASSUME TypeOK, NEW q \in Requests, ~InSlot(q), Evicted(q),
           task'[q] = task[q] \/ task'[q] = NoTask \/ task'[q] = [task[q] EXCEPT !.stage = "queued"]
    PROVE  Installed(q)' /\ Evicted(q)'
<1>1. task[q].stage \in {"none", "queued"}
  BY DEF TypeOK, Tasks, Stages, InSlot
<1>2. /\ task'[q].stage \in {"none", "queued"}
      /\ task'[q].required = 0 /\ task'[q].reclaimed = 0
  BY <1>1 DEF Evicted, NoTask, TypeOK, Tasks
<1> QED BY <1>2 DEF Installed, Evicted, Placed

\* The one task in the semaphore.
LEMMA OwnSerial ==
    ASSUME TypeOK, RowsInv, DiskInv, NEW r \in Requests, Installed(r), Evicted(r),
           OwnStep(r), [Next]_vars
    PROVE  Installed(r)' /\ Evicted(r)'
<1> DEFINE t == task[r]
           v == rows[r].version
<1>0. /\ task \in [Requests -> Tasks] /\ t \in Tasks /\ disk \in [Versions -> Files]
      /\ Continues(r) /\ rows'[r].version = v
  BY OwnStepContinues DEF TypeOK, Continues
<1>1. v \in Versions
  BY <1>0, LiveStatus DEF RowsInv, RowInv, Continues, Live, NonTerminal, _NON_TERMINAL
<1>2. TaskInv(r)
  BY DEF DiskInv
<1>3. ASSUME NEW new, task' = [task EXCEPT ![r] = new]
      PROVE  task'[r] = new
  BY <1>0, <1>3
<1>4. ASSUME task'[r].stage \in {"fail", "internal", "stream", "verify", "sidecar"}
      PROVE  Installed(r)' /\ Evicted(r)'
  BY <1>4 DEF Installed, Evicted, Placed
<1>5. ASSUME task'[r].stage \in {"slot", "begin", "meta", "place"},
             task'[r].required = 0, task'[r].reclaimed = 0
      PROVE  Installed(r)' /\ Evicted(r)'
  BY <1>5 DEF Installed, Evicted, Placed
<1>6. ASSUME task'[r].stage \in {"scan", "evict", "unlink", "open"},
             task'[r].stage = "scan" => task'[r].required > 0 /\ task'[r].reclaimed = 0,
             task'[r].required > 0 =>
                DirectorySize' + task'[r].reclaimed + 2 * task'[r].claimed
                    <= task'[r].required + DirMax,
             task'[r].stage = "open" /\ task'[r].required > 0 =>
                task'[r].required <= task'[r].reclaimed
      PROVE  Installed(r)' /\ Evicted(r)'
  BY <1>6 DEF Installed, Evicted, Placed
<1>7. ASSUME task'[r].stage \in Placed \cup {"replace"},
             task'[r].stage \in Placed => disk'[v].file # "absent",
             disk'[v].sidecar # "none"
      PROVE  Installed(r)' /\ Evicted(r)'
  BY <1>0, <1>7 DEF Installed, Evicted, Placed, Present
<1>8. disk' = disk => DirectorySize' = DirectorySize
  BY SameSize DEF Present
<1>9. DirectorySize \in Nat /\ t.required \in Int /\ t.reclaimed \in Nat /\ DirMax \in Nat
      /\ t.claimed \in Nat
  <2>1. t.required \in Int /\ t.reclaimed \in Nat /\ t.claimed \in Claims \cup {0}
    BY <1>0 DEF Tasks
  <2>2. \A x \in Claims : x \in Nat
    BY ONLY FetchAssumption
  <2>3. DirMax \in Nat
    BY FetchAssumption
  <2> HIDE DEF t
  <2> QED BY <2>1, <2>2, <2>3, DirectorySizeIsNat
<1>10. ASSUME NEW c, Goes(r, Failing(r, c))
       PROVE  Installed(r)' /\ Evicted(r)'
  <2>1. task'[r] = Failing(r, c)
    BY <1>3, <1>10 DEF Goes
  <2>2. Failing(r, c).stage = "fail"
    BY FreshTask
  <2> QED BY <1>4, <2>1, <2>2
<1>11. CASE TakeSlot(r) \/ TakeLock(r) \/ Begin(r)
  <2> DEFINE lock == IF locks[v] = None THEN r ELSE locks[v]
             new1 == [t EXCEPT !.stage = "slot", !.lock = lock]
             new2 == [t EXCEPT !.stage = "begin"]
             new3 == [t EXCEPT !.stage = "meta"]
  <2>1. \E x \in {new1, new2, new3} : task' = [task EXCEPT ![r] = x]
    BY <1>0, <1>11 DEF TakeSlot, TakeLock, Begin
  <2>2. \A x \in {new1, new2, new3} :
           /\ x.stage \in {"slot", "begin", "meta"}
           /\ x.required = t.required /\ x.reclaimed = t.reclaimed
    BY <1>0 DEF Tasks
  <2>3. t.required = 0 /\ t.reclaimed = 0
    BY <1>11 DEF TakeSlot, TakeLock, Begin, At, Evicted
  <2> HIDE DEF new1, new2, new3
  <2> QED BY <1>3, <1>5, <2>1, <2>2, <2>3
<1>12. CASE Metadata(r)
  <2> DEFINE placed(size) == [t EXCEPT !.stage = "place", !.claimed = size]
  <2>1. \A size : /\ placed(size).stage = "place" /\ placed(size).required = t.required
                  /\ placed(size).reclaimed = t.reclaimed
    BY <1>0 DEF Tasks
  <2>2. (\E size : Goes(r, placed(size))) \/ \E c : Goes(r, Failing(r, c))
    BY <1>12 DEF Metadata, MetadataFails, NoPrimaryFile
  <2>3. t.required = 0 /\ t.reclaimed = 0
    BY <1>12 DEF Metadata, At, Evicted
  <2> HIDE DEF placed
  <2>4. ASSUME NEW size, Goes(r, placed(size))
        PROVE  Installed(r)' /\ Evicted(r)'
    <3>1. task'[r] = placed(size)
      BY <1>3, <2>4 DEF Goes
    <3> QED BY <1>5, <2>1, <2>3, <3>1
  <2> QED BY <1>10, <2>2, <2>4
<1>13. CASE Place(r) /\ Present(v)
  <2>1. task'[r].stage = "name"
    BY <1>0, <1>13 DEF Place, Tasks
  <2>2. disk' = [disk EXCEPT ![v].sidecar = IF @ = "none" THEN "civitai" ELSE @]
    BY <1>13 DEF Place
  <2>3. disk'[v].file # "absent" /\ disk'[v].sidecar # "none"
    BY <1>0, <1>1, <1>13, <2>2 DEF Files, Present
  <2> QED BY <1>7, <2>1, <2>3 DEF Placed
<1>14. CASE Place(r) /\ ~Present(v)
  <2> DEFINE need == required(t.claimed)
             scanning == [t EXCEPT !.stage = "scan", !.required = need]
             opening == [t EXCEPT !.stage = "open"]
  <2>1. (need > 0 /\ Goes(r, scanning)) \/ Goes(r, opening)
    BY <1>14 DEF Place
  <2>2. /\ scanning.stage = "scan" /\ scanning.required = need
        /\ scanning.reclaimed = t.reclaimed /\ scanning.claimed = t.claimed
        /\ opening.stage = "open" /\ opening.required = t.required
    BY <1>0 DEF Tasks
  <2>3. t.required = 0 /\ t.reclaimed = 0
    BY <1>14 DEF Place, At, Evicted
  <2>4. need = 2 * t.claimed - (DirMax - DirectorySize)
    BY DEF required
  <2> HIDE DEF scanning, opening, need
  <2>5. CASE need > 0 /\ Goes(r, scanning)
    <3>1. task'[r] = scanning /\ DirectorySize' = DirectorySize
      BY <1>3, <1>8, <2>5 DEF Goes
    <3> DEFINE c == t.claimed
               d == DirectorySize
    <3>2. c \in Nat /\ d \in Nat /\ DirMax \in Nat /\ need = 2 * c - (DirMax - d)
      BY <1>9, <2>4
    <3> HIDE DEF c, d
    <3>3. d + 0 + 2 * c <= need + DirMax
      BY ONLY <3>2
    <3> USE DEF c, d
    <3> QED BY <1>6, <2>2, <2>3, <2>5, <3>1, <3>3
  <2>6. CASE Goes(r, opening)
    <3>1. task'[r] = opening
      BY <1>3, <2>6 DEF Goes
    <3> QED BY <1>6, <2>2, <2>3, <3>1
  <2> QED BY <2>1, <2>5, <2>6
<1>15. ASSUME NEW x, Goes(r, x), t.stage \in {"scan", "evict", "unlink"},
              x.stage \in {"evict", "unlink", "open"},
              x.required = t.required, x.claimed = t.claimed, x.reclaimed = t.reclaimed,
              x.stage = "open" => t.required <= t.reclaimed
       PROVE  Installed(r)' /\ Evicted(r)'
  <2>1. task'[r] = x /\ DirectorySize' = DirectorySize
    BY <1>3, <1>8, <1>15 DEF Goes
  <2>2. t.required > 0 =>
           DirectorySize + t.reclaimed + 2 * t.claimed <= t.required + DirMax
    BY <1>15 DEF Evicted
  <2> HIDE DEF t
  <2> QED BY <1>6, <1>15, <2>1, <2>2
<1>16. CASE Scan(r)
  <2> DEFINE found == {<<disk[u].used, u>> : u \in {w \in Versions : Evictable(w)}}
             x == [t EXCEPT !.stage = "evict", !.reclaimed = 0, !.cands = found]
  <2>1. Goes(r, x) /\ t.stage = "scan"
    BY <1>16 DEF Scan, At
  <2>2. t.reclaimed = 0
    BY <2>1 DEF Evicted
  <2> HIDE DEF found
  <2>3. /\ x.stage = "evict" /\ x.required = t.required /\ x.claimed = t.claimed
        /\ x.reclaimed = 0
    BY <1>0 DEF Tasks
  <2> HIDE DEF x, t
  <2> QED BY <1>15, <2>1, <2>2, <2>3
<1>17. CASE Recheck(r)
  <2> DEFINE opened == [t EXCEPT !.stage = "open", !.cands = {}]
             skipped(c) == [t EXCEPT !.cands = @ \ {c}]
             chosen(c) == [t EXCEPT !.stage = "unlink", !.cands = @ \ {c}, !.victim = c[2]]
  <2>1. t.stage = "evict"
    BY <1>17 DEF Recheck, At
  <2>2. \/ t.reclaimed >= t.required /\ Goes(r, opened)
        \/ \E c : Goes(r, Failing(r, c))
        \/ \E c : Goes(r, skipped(c)) \/ Goes(r, chosen(c))
    BY <1>17 DEF Recheck
  <2>3. /\ opened.stage = "open" /\ opened.required = t.required
        /\ opened.claimed = t.claimed /\ opened.reclaimed = t.reclaimed
    BY <1>0 DEF Tasks
  <2>4. \A c : /\ skipped(c).stage = t.stage /\ skipped(c).required = t.required
               /\ skipped(c).claimed = t.claimed /\ skipped(c).reclaimed = t.reclaimed
    BY <1>0 DEF Tasks
  <2>5. \A c : /\ chosen(c).stage = "unlink" /\ chosen(c).required = t.required
               /\ chosen(c).claimed = t.claimed /\ chosen(c).reclaimed = t.reclaimed
    BY <1>0 DEF Tasks
  <2> HIDE DEF opened, skipped, chosen
  <2>6. CASE t.reclaimed >= t.required /\ Goes(r, opened)
    <3>1. t.required <= t.reclaimed
      BY <1>9, <2>6
    <3> QED BY <1>15, <2>1, <2>3, <2>6, <3>1
  <2>7. ASSUME NEW c, Goes(r, skipped(c)) \/ Goes(r, chosen(c))
        PROVE  Installed(r)' /\ Evicted(r)'
    <3>1. \A x \in {skipped(c), chosen(c)} :
             /\ x.stage \in {"evict", "unlink"} /\ x.required = t.required
             /\ x.claimed = t.claimed /\ x.reclaimed = t.reclaimed
      BY <2>1, <2>4, <2>5
    <3>2. PICK x \in {skipped(c), chosen(c)} : Goes(r, x)
      BY <2>7
    <3> HIDE DEF t
    <3> QED BY <1>15, <2>1, <3>1, <3>2
  <2> QED BY <1>10, <2>2, <2>6, <2>7
<1>18. CASE Unlink(r)
  <2> DEFINE u == t.victim
             freed == [t EXCEPT !.stage = "evict", !.victim = None, !.reclaimed = @ + Size[u]]
             kept == [t EXCEPT !.stage = "evict", !.victim = None]
  <2>1. t.stage = "unlink" /\ u \in Versions
    BY <1>2, <1>18 DEF Unlink, At, TaskInv
  <2>2. /\ freed.stage = "evict" /\ freed.required = t.required
        /\ freed.claimed = t.claimed /\ freed.reclaimed = t.reclaimed + Size[u]
    BY <1>0 DEF Tasks
  <2>3. /\ kept.stage = "evict" /\ kept.required = t.required
        /\ kept.claimed = t.claimed /\ kept.reclaimed = t.reclaimed
    BY <1>0 DEF Tasks
  <2>4. \/ Goes(r, kept)
        \/ /\ Present(u) /\ task' = [task EXCEPT ![r].stage = "evict", ![r].victim = None,
                                                 ![r].reclaimed = @ + Size[u]]
           /\ \E left \in BOOLEAN :
                 disk' = [disk EXCEPT ![u].file = "absent",
                                      ![u].sidecar = IF left THEN @ ELSE "none",
                                      ![u].used = IF left THEN @ ELSE "never"]
    BY <1>18 DEF Unlink
  <2>5. CASE Goes(r, kept)
    <3> HIDE DEF kept, t
    <3> QED BY <1>15, <2>1, <2>3, <2>5
  <2>6. CASE ~Goes(r, kept)
    <3>1. Present(u) /\ \A w \in Versions : disk'[w].file = IF w = u THEN "absent"
                                                            ELSE disk[w].file
      <4>1. PICK left \in BOOLEAN :
               disk' = [disk EXCEPT ![u].file = "absent",
                                    ![u].sidecar = IF left THEN @ ELSE "none",
                                    ![u].used = IF left THEN @ ELSE "never"]
        BY <2>4, <2>6
      <4>2. Present(u)
        BY <2>4, <2>6
      <4> HIDE DEF u
      <4>3. u \in Versions
        BY <2>1
      <4>4. \A w \in Versions : disk'[w].file = IF w = u THEN "absent" ELSE disk[w].file
        BY ONLY <1>0, <4>1, <4>3 DEF Files
      <4> QED BY <4>2, <4>4
    <3>2. DirectorySize = Size[u] + DirectorySize'
      BY <2>1, <3>1, UnlinkSize DEF Present
    <3>3. /\ task'[r].stage = "evict" /\ task'[r].required = t.required
          /\ task'[r].claimed = t.claimed /\ task'[r].reclaimed = t.reclaimed + Size[u]
      <4> DEFINE s == Size[u]
      <4>1. task' = [task EXCEPT ![r].stage = "evict", ![r].victim = None,
                                 ![r].reclaimed = @ + s]
        BY <2>4, <2>6
      <4> HIDE DEF s, u
      <4>2. /\ task'[r].stage = "evict" /\ task'[r].required = t.required
            /\ task'[r].claimed = t.claimed /\ task'[r].reclaimed = t.reclaimed + s
        BY ONLY <1>0, <4>1, r \in Requests DEF Tasks
      <4> QED BY <4>2 DEF s
    <3>4. t.required > 0 =>
             DirectorySize + t.reclaimed + 2 * t.claimed <= t.required + DirMax
      BY <2>1 DEF Evicted
    <3>5. Size[u] \in Nat
      BY <2>1, FetchAssumption
    <3>6. DirectorySize' \in Int
      <4>1. TypeOK'
        BY NextTypes
      <4>2. (TypeOK => DirectorySize \in Nat)'
        BY DirectorySizeIsNat, PTL
      <4> QED BY <4>1, <4>2
    <3> DEFINE d == DirectorySize
               e == DirectorySize'
               s == Size[u]
    <3>7. /\ d = s + e /\ s \in Nat /\ e \in Int /\ d \in Nat
          /\ t.required \in Int /\ t.reclaimed \in Nat /\ DirMax \in Nat /\ t.claimed \in Nat
      BY <1>9, <3>2, <3>5, <3>6
    <3> HIDE DEF d, e, s, t
    <3>8. d + t.reclaimed + 2 * t.claimed = e + (t.reclaimed + s) + 2 * t.claimed
      BY ONLY <3>7
    <3> USE DEF d, e, s
    <3>9. task'[r].required > 0 =>
             DirectorySize' + task'[r].reclaimed + 2 * task'[r].claimed
                 <= task'[r].required + DirMax
      BY <3>3, <3>4, <3>8
    <3> QED BY <1>6, <3>3, <3>9
  <2> QED BY <2>5, <2>6
<1>19. CASE Open(r) \/ Stream(r) \/ Verify(r)
  <2> DEFINE fresh == [NoTask EXCEPT !.stage = "stream", !.lock = t.lock]
  <2>1. \/ task' = [task EXCEPT ![r] = fresh]
        \/ task' = [task EXCEPT ![r].stage = "verify"]
        \/ task' = [task EXCEPT ![r].stage = "sidecar"]
        \/ \E c : task' = [task EXCEPT ![r] = Failing(r, c)]
    BY <1>19 DEF Open, UnsafeUrl, Stream, Verify, Goes
  <2>2. fresh.stage = "stream" /\ \A c : Failing(r, c).stage = "fail"
    BY FreshTask
  <2> HIDE DEF fresh
  <2>3. task'[r].stage \in {"stream", "verify", "sidecar", "fail"}
    BY <1>0, <2>1, <2>2 DEF Tasks
  <2> QED BY <1>4, <2>3
<1>20. CASE Sidecar(r)
  <2>1. task'[r].stage = "replace"
    BY <1>0, <1>20 DEF Sidecar, Tasks
  <2>2. disk'[v].sidecar = "civitai"
    BY <1>0, <1>1, <1>20 DEF Sidecar, Files
  <2> QED BY <1>7, <2>1, <2>2 DEF Placed
<1>21. CASE Replace(r)
  <2>1. t.stage = "replace" /\ task'[r].stage = "name"
    BY <1>0, <1>21 DEF Replace, At, Tasks
  <2>2. disk[v].tmp = "good" /\ disk[v].sidecar # "none"
    BY <1>2, <2>1 DEF TaskInv, Installed
  <2>3. disk'[v].file = "good" /\ disk'[v].sidecar # "none"
    BY <1>0, <1>1, <1>21, <2>2 DEF Replace, Files
  <2> QED BY <1>7, <2>1, <2>3 DEF Placed
<1>22. CASE NameDest(r) \/ Again(r)
  <2>1. /\ t.stage \in {"name", "again"} /\ task'[r].stage \in {"again", "finish"}
        /\ disk' = disk
    BY <1>0, <1>22 DEF NameDest, Again, At, Tasks
  <2>2. disk[v].file # "absent" /\ disk[v].sidecar # "none"
    BY <2>1 DEF Installed, Placed, Present
  <2> QED BY <1>7, <2>1, <2>2 DEF Placed
<1>23. CASE Raises(r)
  <2>1. task'[r].stage = "internal"
    <3>1. task'[r] = [NoTask EXCEPT !.stage = "internal", !.lock = t.lock]
      BY <1>3, <1>23 DEF Raises, Goes
    <3>2. \A s, l : [NoTask EXCEPT !.stage = s, !.lock = l].stage = s
      BY FreshTask
    <3> QED BY <3>1, <3>2
  <2> QED BY <1>4, <2>1
<1> QED BY <1>11, <1>12, <1>13, <1>14, <1>16, <1>17, <1>18, <1>19, <1>20, <1>21, <1>22, <1>23
        DEF OwnStep

\* Only the last step of a fetch that went well makes a row done.
LEMMA OnlyFinishIsDone ==
    ASSUME TypeOK, RowsInv, [Next]_vars, NEW r \in Requests,
           rows[r].status # "done", rows'[r].status = "done"
    PROVE  Finish(r) \/ (Cancelled(r) /\ task[r].stage = "finish")
<1>0. rows \in [Requests -> LoraRow]
  BY DEF TypeOK
<1>1. ASSUME NEW q \in Requests, OwnStep(q)
      PROVE  FALSE
  <2>1. r = q
    BY <1>1, OwnStepContinues DEF Continues
  <2>2. rows'[r].status \in StatusesAt(task'[r].stage)
    BY <1>1, <2>1, OwnStepContinues DEF Continues
  <2> QED BY <2>2 DEF StatusesAt, _NON_TERMINAL
<1>2. ASSUME NEW q \in Requests, LastStep(q)
      PROVE  Finish(r)
  <2>1. CASE Finish(q)
    BY <1>0, <2>1 DEF Finish, Leave
  <2>2. CASE Fail(q) \/ Internal(q) \/ RowReadFails(q)
    <3>1. rows' = rows \/ \E c : rows' = [rows EXCEPT ![q] = set_failed(rows[q], c, FALSE)]
      BY <1>0, <2>2 DEF Fail, Internal, RowReadFails, Leave
    <3>2. \A row \in LoraRow : \A c : set_failed(row, c, FALSE).status = "failed"
      BY DEF set_failed, LoraRow
    <3> QED BY <1>0, <3>1, <3>2
  <2> QED BY <1>2, <2>1, <2>2 DEF LastStep
<1>3. ASSUME NEW q \in Requests, PostStep(q)
      PROVE  FALSE
  <2>1. rows' = rows \/ \E v : rows' = [rows EXCEPT ![q] = create_pending(v)]
    BY <1>3 DEF PostStep, Post, Insert, Refind
  <2> QED BY <1>0, <2>1, RowFields
<1>4. CASE JobStep \/ (\E v \in Versions : Age(v)) \/ LifeStep \/ vars' = vars
  <2>1. ASSUME NEW q \in Requests, Cancelled(q)
        PROVE  Cancelled(r) /\ task[r].stage = "finish"
    <3>1. q = r
      BY <1>0, <2>1 DEF Cancelled
    <3> QED BY <2>1, <3>1, CancelledRow DEF CancelledAs
  <2>2. \/ rows' = rows
        \/ \E q \in Requests : Cancelled(q)
        \/ \E q \in Requests : \E c, h : rows' = [rows EXCEPT ![q] = set_failed(@, c, h)]
    BY <1>4 DEF JobStep, Check, Touch, Accept, Work, EndJob, JobGoes, Age, LifeStep, Shutdown,
           Stopped, Crash, Down, Boot, Serve, Quiescent, vars, RecoverRow
  <2> QED BY <1>0, <2>1, <2>2, RowFields
<1> QED BY <1>1, <1>2, <1>3, <1>4, StepKinds

\* A task that has ended, or that a step leaves alone with the files.
LEMMA EndedSerial ==
    ASSUME NEW q \in Requests, task'[q] = NoTask
    PROVE  Installed(q)' /\ Evicted(q)'
<1>1. task'[q].stage = "none" /\ task'[q].required = 0 /\ task'[q].reclaimed = 0
  BY DEF NoTask
<1> QED BY <1>1 DEF Installed, Evicted, Placed

LEMMA QuietSerial ==
    ASSUME NEW q \in Requests, task'[q] = task[q], Installed(q), Evicted(q),
           Live(q) => rows[q].version \in Versions /\ rows'[q].version = rows[q].version,
           \A u \in Versions : /\ disk'[u].file = disk[u].file
                               /\ disk'[u].sidecar = disk[u].sidecar
    PROVE  Installed(q)' /\ Evicted(q)'
<1>1. DirectorySize' = DirectorySize
  BY SameSize DEF Present
<1>2. Evicted(q)'
  BY <1>1 DEF Evicted
<1>3. task[q].stage \in Placed \cup {"replace"} => Live(q)
  BY DEF Placed, Live
<1> QED BY <1>2, <1>3 DEF Installed, Present

LEMMA NextSerialInv ==
    ASSUME MaxConcurrent = 1, IInv, SerialInv, [Next]_vars
    PROVE  SerialInv'
<1>0. /\ TypeOK /\ RowsInv /\ DiskInv /\ Serial
      /\ \A q \in Requests : Installed(q) /\ Evicted(q)
  BY DEF IInv, SerialInv
<1>1. Serial'
  BY <1>0, NextSerial
<1>2. \A q \in Requests : Live(q) => rows[q].version \in Versions
                                     /\ rows'[q].version = rows[q].version
  <2>1. \A q \in Requests : Live(q) => rows[q].status # "none"
    BY <1>0, LiveStatus DEF NonTerminal, _NON_TERMINAL
  <2> QED BY <1>0, <2>1, NextMovesRows, RowsRemain DEF RowsInv, RowInv
<1>3. ASSUME NEW q \in Requests, NEW r \in Requests, OwnStep(r)
      PROVE  Installed(q)' /\ Evicted(q)'
  <2>1. CASE q = r
    BY <1>0, <1>3, <2>1, OwnSerial
  <2>2. CASE q # r
    <3>1. InSlot(r) \/ TakeSlot(r)
      BY <1>3 DEF OwnStep, TakeLock, Begin, Metadata, Place, Scan, Recheck, Unlink, Open,
             Stream, Verify, Sidecar, Replace, NameDest, Again, Raises, At,
             InSlot, Holding, FetchStages
    <3>2. ~InSlot(q)
      BY <1>0, <2>2, <3>1, OneSlot DEF Serial, InSemaphore, InSlot
    <3>3. task'[q] = task[q]
      BY <1>0, <1>3, <2>2, OwnStepContinues DEF Continues
    <3> QED BY <1>0, <3>2, <3>3, IdleSerial
  <2> QED BY <2>1, <2>2
<1>4. ASSUME NEW q \in Requests, NEW r \in Requests, LastStep(r)
      PROVE  Installed(q)' /\ Evicted(q)'
  <2>1. /\ disk' = disk
        /\ task'[q] = task[q] \/ task'[q] = NoTask
    BY <1>0, <1>4 DEF LastStep, Finish, Fail, Internal, RowReadFails, Leave, TypeOK
  <2> QED BY <1>0, <1>2, <2>1, EndedSerial, QuietSerial
<1>5. ASSUME NEW q \in Requests, NEW r \in Requests, PostStep(r)
      PROVE  Installed(q)' /\ Evicted(q)'
  <2>1. /\ disk' = disk
        /\ q # r => task'[q] = task[q]
        /\ task'[r] = task[r] \/ task'[r] = [task[r] EXCEPT !.stage = "queued"]
        /\ post[r].stage \in {"idle", "insert", "refind"}
    BY <1>0, <1>5 DEF PostStep, Post, Insert, Refind, TypeOK
  <2>2. ~Live(r)
    BY <1>0, <2>1, LiveStatus DEF RowsInv, RowInv, NonTerminal, _NON_TERMINAL
  <2>3. ~InSlot(r)
    BY <2>2 DEF Live, InSlot, Holding, FetchStages
  <2> QED BY <1>0, <1>2, <2>1, <2>3, IdleSerial, QuietSerial
<1>6. ASSUME NEW q \in Requests,
             JobStep \/ (\E v \in Versions : Age(v)) \/ LifeStep \/ vars' = vars
      PROVE  Installed(q)' /\ Evicted(q)'
  <2>1. /\ \A u \in Versions : /\ disk'[u].file = disk[u].file
                               /\ disk'[u].sidecar = disk[u].sidecar
        /\ task'[q] = task[q] \/ task'[q] = NoTask
    BY <1>0, <1>6, OthersKeep
  <2> QED BY <1>0, <1>2, <2>1, EndedSerial, QuietSerial
<1>7. \A q \in Requests : Installed(q)' /\ Evicted(q)'
  BY <1>3, <1>4, <1>5, <1>6, StepKinds
<1> QED BY <1>1, <1>7 DEF SerialInv

LEMMA SerialInvariant ==
    ASSUME MaxConcurrent = 1
    PROVE  Spec => [](IInv /\ SerialInv)
<1>1. Init => SerialInv
  <2> SUFFICES ASSUME Init
               PROVE  SerialInv
    OBVIOUS
  <2>1. \A r \in Requests : /\ task[r].stage = "none" /\ task[r].required = 0
                            /\ task[r].reclaimed = 0
    BY DEF Init, NoTask
  <2>2. Serial
    BY <2>1 DEF Serial, InSemaphore, Holding, FetchStages
  <2> QED BY <2>1, <2>2 DEF SerialInv, Installed, Evicted, Placed
<1>2. IInv /\ SerialInv /\ [Next]_vars => SerialInv'
  BY NextSerialInv
<1> QED BY <1>1, <1>2, Invariant, PTL DEF Spec

\* With one slot, a fetch that evicted starts its download only when twice the
\* stated size fits under LORA_DIR_MAX_SIZE_GB, candidates that were skipped or
\* could not be unlinked notwithstanding (evict_for).
THEOREM RoomAfterEvictionHolds ==
    ASSUME MaxConcurrent = 1
    PROVE  Spec => []RoomAfterEviction
<1>1. ASSUME IInv, SerialInv
      PROVE  RoomAfterEviction
  <2> SUFFICES ASSUME NEW r \in Requests, task[r].stage = "open", task[r].required > 0
               PROVE  DirectorySize + 2 * task[r].claimed <= DirMax
    BY DEF RoomAfterEviction
  <2> DEFINE size == DirectorySize
             t == task[r]
  <2>1. size + t.reclaimed + 2 * t.claimed <= t.required + DirMax
        /\ t.required <= t.reclaimed
    BY <1>1 DEF SerialInv, Evicted
  <2>2. /\ size \in Nat /\ t.required \in Int /\ t.reclaimed \in Nat
        /\ t.claimed \in Nat /\ DirMax \in Nat
    <3>1. size \in Nat /\ t \in Tasks
      BY <1>1, DirectorySizeIsNat DEF IInv, TypeOK
    <3>2. DirMax \in Nat /\ \A x \in Claims : x \in Nat
      BY FetchAssumption
    <3> QED BY <3>1, <3>2 DEF Tasks
  <2> HIDE DEF size, t
  <2>3. size + 2 * t.claimed <= DirMax
    BY ONLY <2>1, <2>2
  <2> QED BY <2>3 DEF size, t
<1> QED BY <1>1, SerialInvariant, PTL

\* With one slot, a row becomes done only while its file and a sidecar are there
\* under the name it publishes: no eviction takes the file in between (_fetch).
THEOREM DoneMeansInstalledHolds ==
    ASSUME MaxConcurrent = 1
    PROVE  Spec => DoneMeansInstalled
<1> DEFINE Installs ==
       \A r \in Requests : rows[r].status # "done" /\ rows'[r].status = "done" =>
          /\ rows'[r].dest_name
          /\ disk'[rows[r].version].file # "absent"
          /\ disk'[rows[r].version].sidecar # "none"
<1>1. ASSUME IInv, SerialInv, [Next]_vars
      PROVE  Installs
  <2> SUFFICES ASSUME NEW r \in Requests, rows[r].status # "done", rows'[r].status = "done"
               PROVE  /\ rows'[r].dest_name
                      /\ disk'[rows[r].version].file # "absent"
                      /\ disk'[rows[r].version].sidecar # "none"
    OBVIOUS
  <2>1. Finish(r) \/ (Cancelled(r) /\ task[r].stage = "finish")
    BY <1>1, OnlyFinishIsDone DEF IInv
  <2>2. task[r].stage = "finish" /\ disk' = disk
    BY <2>1 DEF Finish, At, Leave, Cancelled
  <2>3. rows[r].dest_name
    BY <1>1, <2>2 DEF IInv, RowsInv, RowInv
  <2>4. rows'[r].dest_name
    <3>1. CASE Finish(r)
      <4>1. rows[r] \in LoraRow /\ rows'[r] = set_status(rows[r], "done")
        BY <1>1, <3>1 DEF IInv, TypeOK, Finish, Leave
      <4> QED BY <2>3, <4>1, RowFields
    <3>2. CASE Cancelled(r)
      BY <1>1, <2>3, <3>2, CancelledRow DEF IInv, CancelledAs
    <3> QED BY <2>1, <3>1, <3>2
  <2>5. Installed(r)
    BY <1>1 DEF SerialInv
  <2> QED BY <2>2, <2>4, <2>5 DEF Installed, Placed, Present
<1>2. ASSUME IInv, SerialInv, [Next]_vars
      PROVE  [Installs]_vars
  BY <1>1, <1>2
<1> QED BY <1>2, SerialInvariant, PTL DEF Spec, DoneMeansInstalled
=============================================================================
