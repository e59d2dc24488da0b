--------------------------- MODULE ComfyWaitProofs ---------------------------
(***************************************************************************)
(* What ComfyWait guarantees for every set of jobs, workers and models,    *)
(* with and without the stall check, whatever number of calls fail.        *)
(*                                                                         *)
(* The argument: a prompt is submitted once, by the worker that took its   *)
(* job, so it is in the sidecar's queue once, or running, or over, and a   *)
(* verdict is final.  An event exists only for a prompt that is over, and  *)
(* from the moment the prompt is accepted its end is missed, unread or     *)
(* delivered for as long as the worker waits.  As long as nothing excuses  *)
(* it, one worker is busy, every job that ended completed, and VRAM holds  *)
(* at most the model of _last_model_name or of the job being run.          *)
(***************************************************************************)
EXTENDS ComfyWait, FiniteSetTheorems, SequenceTheorems, TLAPS

-----------------------------------------------------------------------------
(* The inductive invariant.                                                *)

Busy(w) == worker[w].pc # "idle"

\* Before its prompt may be known to the sidecar; while its end is awaited.
Preparing == {"idle", "swap", "submit"}
Awaiting == {"accept"} \cup WaitPcs

\* A job whose prompt the sidecar has never seen.
Fresh(j) ==
    /\ j \notin Queued /\ comfy.running # j /\ comfy.history[j] = "none"

SidecarInv ==
    /\ \A i, k \in DOMAIN comfy.queue : comfy.queue[i] = comfy.queue[k] => i = k
    /\ \A p \in Queued : p # comfy.running /\ comfy.history[p] = "none"
    /\ comfy.running # NoJob => comfy.history[comfy.running] \notin Verdicts

SocketInv ==
    /\ ~ws.up => ws.events = {}
    /\ ws.conn <= faults + (IF ws.up THEN 1 ELSE 0)
    /\ \A p \in ws.events \cup resolved : comfy.history[p] \in Verdicts

JobInv(j) ==
    /\ outcome[j] = "completed" => comfy.history[j] = "success"
    /\ outcome[j] = "none" /\ (\A w \in Workers : JobOf(w) = j => worker[w].pc \in Preparing)
          => Fresh(j)

WorkerInv(w) ==
    /\ JobOf(w) = NoJob <=> ~Busy(w)
    /\ Busy(w) => outcome[JobOf(w)] = "none"
    /\ worker[w].pc \notin {"cancel", "interrupt", "delete", "free"} => worker[w].why = "none"
    /\ worker[w].pc = "fetch" => Entry(w) \in Verdicts
    /\ worker[w].pc \in Awaiting /\ Entry(w) \in Verdicts =>
          JobOf(w) \in missed \cup ws.events \cup resolved
    /\ worker[w].reader <= ws.conn

OneWorkerPerJob ==
    \A v, w \in Workers : JobOf(v) = JobOf(w) /\ Busy(v) => v = w

\* The model VRAM may hold, while nothing excuses a second one.
Serial ==
    /\ \A v, w \in Workers : Busy(v) /\ Busy(w) => v = w
    /\ \A j \in Jobs : outcome[j] \in {"none", "completed"}
    /\ (\A w \in Workers : worker[w].pc \in {"idle", "swap"}) => comfy.loaded \subseteq {lastModel}
    /\ \A w \in Workers :
          worker[w].pc \notin {"idle", "swap"} => comfy.loaded \subseteq {ModelOf[JobOf(w)]}

IInv ==
    /\ TypeOK
    /\ SidecarInv /\ SocketInv
    /\ \A j \in Jobs : JobInv(j)
    /\ \A w \in Workers : WorkerInv(w)
    /\ OneWorkerPerJob
    /\ FuturesMatchWaits
    /\ ~excused => Serial

-----------------------------------------------------------------------------
(* The queue of the sidecar.                                               *)

Contents(q) == {q[i] : i \in DOMAIN q}
NoRepeat(q) == \A i, k \in DOMAIN q : q[i] = q[k] => i = k

LEMMA Appended ==
    ASSUME NEW q \in Seq(Jobs), NEW p \in Jobs
    PROVE  /\ Append(q, p) \in Seq(Jobs)
           /\ Contents(Append(q, p)) \subseteq Contents(q) \cup {p}
           /\ NoRepeat(q) /\ p \notin Contents(q) => NoRepeat(Append(q, p))
<1> DEFINE a == Append(q, p)
           n == Len(q)
<1>1. /\ a \in Seq(Jobs) /\ Len(a) = n + 1 /\ n \in Nat
      /\ \A i \in 1..n : a[i] = q[i]
      /\ a[n + 1] = p
      /\ DOMAIN a = 1..(n + 1) /\ DOMAIN q = 1..n
  BY AppendProperties, LenProperties
<1> HIDE DEF a, n
<1>2. \A i \in DOMAIN a : (i \in DOMAIN q /\ a[i] = q[i]) \/ (i = n + 1 /\ a[i] = p)
  BY ONLY <1>1
<1>3. Contents(a) \subseteq Contents(q) \cup {p}
  BY <1>2 DEF Contents
<1>4. ASSUME NoRepeat(q), p \notin Contents(q)
      PROVE  NoRepeat(a)
  BY <1>2, <1>4 DEF NoRepeat, Contents
<1> QED BY <1>1, <1>3, <1>4 DEF a

LEMMA Shortened ==
    ASSUME NEW q \in Seq(Jobs), q # <<>>
    PROVE  /\ Tail(q) \in Seq(Jobs) /\ Head(q) \in Contents(q) /\ Head(q) \in Jobs
           /\ Contents(Tail(q)) \subseteq Contents(q)
           /\ NoRepeat(q) => NoRepeat(Tail(q)) /\ Head(q) \notin Contents(Tail(q))
<1> DEFINE t == Tail(q)
           n == Len(q)
<1>1. /\ t \in Seq(Jobs) /\ Len(t) = n - 1 /\ n \in Nat \ {0}
      /\ \A i \in 1..(n - 1) : t[i] = q[i + 1]
      /\ DOMAIN t = 1..(n - 1) /\ DOMAIN q = 1..n
      /\ Head(q) = q[1] /\ Head(q) \in Jobs
  BY HeadTailProperties, LenProperties, EmptySeq
<1> HIDE DEF t, n
<1>2. /\ \A i \in DOMAIN t : i + 1 \in DOMAIN q /\ t[i] = q[i + 1] /\ i + 1 # 1
      /\ 1 \in DOMAIN q /\ \A i, k \in DOMAIN t : i + 1 = k + 1 => i = k
  BY ONLY <1>1
<1>3. Contents(t) \subseteq Contents(q) /\ Head(q) \in Contents(q)
  BY <1>1, <1>2 DEF Contents
<1>4. ASSUME NoRepeat(q)
      PROVE  NoRepeat(t) /\ Head(q) \notin Contents(t)
  <2>1. NoRepeat(t)
    BY <1>2, <1>4 DEF NoRepeat
  <2>2. \A i \in DOMAIN t : t[i] # q[1]
    BY <1>2, <1>4 DEF NoRepeat
  <2> QED BY <1>1, <2>1, <2>2 DEF Contents
<1> QED BY <1>1, <1>3, <1>4 DEF t

LEMMA Removed ==
    ASSUME NEW q \in Seq(Jobs), NEW i \in DOMAIN q
    PROVE  LET c == SubSeq(q, 1, i - 1) \o SubSeq(q, i + 1, Len(q)) IN
           /\ c \in Seq(Jobs)
           /\ Contents(c) \subseteq Contents(q)
           /\ NoRepeat(q) => NoRepeat(c)
<1> DEFINE n == Len(q)
           a == SubSeq(q, 1, i - 1)
           b == SubSeq(q, i + 1, n)
           c == a \o b
<1>1. n \in Nat /\ i \in 1..n /\ DOMAIN q = 1..n /\ \A k \in 1..n : q[k] \in Jobs
  BY LenProperties, ElementOfSeq
<1> HIDE DEF n
<1>2. /\ a \in Seq(Jobs) /\ Len(a) = i - 1
      /\ \A k \in 1..(i - 1) : a[k] = q[k]
  <2>1. /\ i - 1 \in Int /\ 1 \in Int /\ \A k \in 1..(i - 1) : q[k] \in Jobs
    BY <1>1
  <2>2. /\ a \in Seq(Jobs) /\ Len(a) = IF 1 <= i - 1 THEN i - 1 - 1 + 1 ELSE 0
        /\ \A k \in 1..(i - 1 - 1 + 1) : a[k] = q[1 + k - 1]
    BY ONLY <2>1, SubSeqProperties
  <2> HIDE DEF a
  <2> QED BY <1>1, <2>2
<1>3. /\ b \in Seq(Jobs) /\ Len(b) = n - i
      /\ \A k \in 1..(n - i) : b[k] = q[i + k]
  <2> DEFINE m == i + 1
  <2>1. /\ m \in Int /\ n \in Int /\ \A k \in m..n : q[k] \in Jobs
    BY <1>1
  <2> HIDE DEF m
  <2>2. /\ SubSeq(q, m, n) \in Seq(Jobs)
        /\ Len(SubSeq(q, m, n)) = IF m <= n THEN n - m + 1 ELSE 0
        /\ \A k \in 1..(n - m + 1) : SubSeq(q, m, n)[k] = q[m + k - 1]
    BY ONLY <2>1, SubSeqProperties
  <2>3. b = SubSeq(q, m, n) /\ m = i + 1
    BY DEF m
  <2> HIDE DEF b
  <2>4. /\ n - m + 1 = n - i /\ \A k \in Int : m + k - 1 = i + k
    BY <1>1, <2>3
  <2>5. /\ b \in Seq(Jobs) /\ Len(b) = n - i
    BY <1>1, <2>2, <2>3
  <2>6. \A k \in 1..(n - i) : b[k] = q[i + k]
    <3> SUFFICES ASSUME NEW k \in 1..(n - i)
                 PROVE  b[k] = q[i + k]
      OBVIOUS
    <3>1. k \in Int /\ k \in 1..(n - m + 1) /\ m + k - 1 = i + k
      BY <1>1, <2>3, <2>4
    <3>2. b[k] = q[m + k - 1]
      BY <2>2, <2>3, <3>1
    <3> QED BY <3>1, <3>2
  <2> QED BY <2>5, <2>6
<1> HIDE DEF a, b
<1>4. /\ c \in Seq(Jobs) /\ Len(c) = Len(a) + Len(b)
      /\ \A k \in 1..(Len(a) + Len(b)) : c[k] = IF k <= Len(a) THEN a[k] ELSE b[k - Len(a)]
  BY ONLY <1>2, <1>3, ConcatProperties
<1>5. DOMAIN c = 1..(n - 1)
  <2>1. DOMAIN c = 1..Len(c)
    BY <1>4, LenProperties
  <2> HIDE DEF c
  <2> QED BY <1>1, <1>2, <1>3, <1>4, <2>1
<1> HIDE DEF c
<1> DEFINE from(k) == IF k < i THEN k ELSE k + 1
<1>6. ASSUME NEW k \in DOMAIN c
      PROVE  from(k) \in DOMAIN q /\ c[k] = q[from(k)]
  <2>1. k \in 1..(n - 1) /\ k \in Nat /\ i \in Nat /\ k \in 1..(Len(a) + Len(b))
    BY <1>1, <1>2, <1>3, <1>5, <1>6
  <2>2. CASE k < i
    <3>1. k <= Len(a) /\ k \in 1..(i - 1)
      BY <1>2, <2>1, <2>2
    <3>2. c[k] = q[k]
      BY <1>2, <1>4, <2>1, <3>1
    <3> QED BY <1>1, <2>1, <2>2, <3>2
  <2>3. CASE ~(k < i)
    <3>1. /\ ~(k <= Len(a)) /\ k - Len(a) \in 1..(n - i)
          /\ i + (k - Len(a)) = k + 1 /\ k + 1 \in 1..n
      BY <1>1, <1>2, <2>1, <2>3
    <3>2. c[k] = b[k - Len(a)]
      BY <1>4, <2>1, <3>1
    <3>3. c[k] = q[k + 1]
      BY <1>3, <3>1, <3>2
    <3> QED BY <1>1, <2>1, <2>3, <3>1, <3>3
  <2> QED BY <2>2, <2>3
<1>7. \A k, l \in DOMAIN c : from(k) = from(l) => k = l
  <2>1. \A k \in DOMAIN c : k \in Int
    BY <1>5
  <2> QED BY <1>1, <2>1
<1> HIDE DEF from
<1>8. Contents(c) \subseteq Contents(q)
  BY <1>6 DEF Contents
<1>9. ASSUME NoRepeat(q)
      PROVE  NoRepeat(c)
  BY <1>6, <1>7, <1>9 DEF NoRepeat
<1> QED BY <1>4, <1>8, <1>9 DEF a, b, c, n


-----------------------------------------------------------------------------
(* Types.                                                                  *)

Sidecars == [queue : Seq(Jobs), running : Jobs \cup {NoJob},
             history : [Jobs -> History], loaded : SUBSET Models]
Sockets == [up : BOOLEAN, conn : 0..(MaxFaults + 1), events : SUBSET Jobs]
Locals == [pc : Pcs, job : Jobs \cup {NoJob}, reader : 0..(MaxFaults + 1), tries : 0..2,
           reconnects : 0..1, sig : History, why : {"none", "timeout", "comfy_error"}]

LEMMA Typed ==
    ASSUME TypeOK
    PROVE  /\ comfy \in Sidecars /\ ws \in Sockets /\ worker \in [Workers -> Locals]
           /\ outcome \in [Jobs -> Outcomes] /\ lastModel \in Models \cup {NoModel}
           /\ pending \subseteq Jobs /\ resolved \subseteq Jobs /\ missed \subseteq Jobs
           /\ excused \in BOOLEAN /\ faults \in 0..MaxFaults /\ MaxFaults \in Nat
BY WaitAssumption DEF TypeOK, Sidecars, Sockets, Locals

\* A worker that has a job names one.
LEMMA JobTyped ==
    ASSUME TypeOK, NEW w \in Workers, Busy(w), WorkerInv(w)
    PROVE  JobOf(w) \in Jobs /\ worker[w] \in Locals /\ Entry(w) \in History
BY Typed DEF WorkerInv, JobOf, Locals, Entry, Sidecars

LEMMA IdleTyped ==
    /\ Idle \in Locals
    /\ \A pc \in Pcs, j \in Jobs, why \in {"none", "timeout", "comfy_error"} :
          LET new == [Idle EXCEPT !.pc = pc, !.job = j, !.why = why] IN
          /\ new \in Locals
          /\ new.pc = pc /\ new.job = j /\ new.why = why /\ new.reader = 0
<1>1. 0 \in 0..(MaxFaults + 1)
  BY WaitAssumption
<1>2. Idle \in Locals
  BY <1>1 DEF Idle, Locals, Pcs, History
<1>3. ASSUME NEW pc \in Pcs, NEW j \in Jobs, NEW why \in {"none", "timeout", "comfy_error"}
      PROVE  LET new == [Idle EXCEPT !.pc = pc, !.job = j, !.why = why] IN
             /\ new \in Locals
             /\ new.pc = pc /\ new.job = j /\ new.why = why /\ new.reader = 0
  <2> DEFINE new == [Idle EXCEPT !.pc = pc, !.job = j, !.why = why]
  <2>1. new \in Locals
    BY <1>2 DEF Locals
  <2>2. new.pc = pc /\ new.job = j /\ new.why = why /\ new.reader = 0
    BY DEF Idle
  <2> QED BY <2>1, <2>2
<1> QED BY <1>2, <1>3

\* What a step of a worker does to its own locals.
LEMMA LocalMoves ==
    ASSUME TypeOK, NEW w \in Workers
    PROVE  /\ \A new : worker' = [worker EXCEPT ![w] = new] =>
                 worker'[w] = new /\ \A v \in Workers \ {w} : worker'[v] = worker[v]
           /\ \A new \in Locals : worker' = [worker EXCEPT ![w] = new] =>
                 worker' \in [Workers -> Locals]
BY Typed

LEMMA FreedTyped ==
    ASSUME TypeOK
    PROVE  /\ freed \in Sidecars
           /\ freed.queue = comfy.queue /\ freed.running = comfy.running
           /\ freed.history = comfy.history
           /\ comfy.running = NoJob => freed.loaded = {}
<1>1. ModelOf \in [Jobs -> Models]
  BY WaitAssumption
<1>2. comfy \in Sidecars
  BY Typed
<1>3. comfy.running # NoJob => {ModelOf[comfy.running]} \subseteq Models
  BY <1>1, <1>2 DEF Sidecars
<1> DEFINE set == IF comfy.loaded = {} \/ comfy.running = NoJob THEN {}
                  ELSE {ModelOf[comfy.running]}
<1>4. freed = [comfy EXCEPT !.loaded = set]
  BY DEF freed
<1>5. set \in SUBSET Models /\ (comfy.running = NoJob => set = {})
  BY <1>3
<1> HIDE DEF set
<1> QED BY <1>2, <1>4, <1>5 DEF Sidecars


LEMMA EndsTyped ==
    ASSUME TypeOK, comfy.running # NoJob, NEW v \in Verdicts, Ends(comfy.running, v)
    PROVE  comfy' \in Sidecars /\ ws' \in Sockets /\ missed' \subseteq Jobs
<1> DEFINE p == comfy.running
<1>1. comfy \in Sidecars /\ ws \in Sockets /\ missed \subseteq Jobs
  BY Typed
<1>2. p \in Jobs
  BY <1>1 DEF Sidecars
<1>3. v \in History
  BY DEF History
<1> HIDE DEF p
<1>4. comfy' = [comfy EXCEPT !.running = NoJob, !.history[p] = v]
  BY DEF Ends, p
<1>5. comfy' \in Sidecars
  BY <1>1, <1>2, <1>3, <1>4 DEF Sidecars
<1>6. ws' = ws \/ ws' = [ws EXCEPT !.events = @ \cup {p}]
  BY DEF Ends, p
<1>7. ws' \in Sockets
  BY <1>1, <1>2, <1>6 DEF Sockets
<1>8. missed' \subseteq Jobs
  BY <1>1, <1>2 DEF Ends, p
<1> QED BY <1>5, <1>7, <1>8

\* The steps of a worker keep the types.
LEMMA StepTypes ==
    ASSUME TypeOK, SocketInv, NEW w \in Workers, WorkerInv(w),
           WorkerStep(w) \/ CheckProgress(w) \/ Stall(w)
    PROVE  TypeOK'
<1> DEFINE l == worker[w]
           WorkersTyped == worker' \in [Workers -> Locals]
           EndTyped == /\ outcome' \in [Jobs -> Outcomes] /\ excused' \in BOOLEAN
                       /\ lastModel' \in Models \cup {NoModel}
           WaitTyped == pending' \subseteq Jobs /\ resolved' \subseteq Jobs
<1>0. /\ comfy \in Sidecars /\ ws \in Sockets /\ worker \in [Workers -> Locals]
      /\ outcome \in [Jobs -> Outcomes] /\ lastModel \in Models \cup {NoModel}
      /\ pending \subseteq Jobs /\ resolved \subseteq Jobs /\ missed \subseteq Jobs
      /\ excused \in BOOLEAN /\ faults \in 0..MaxFaults /\ MaxFaults \in Nat
      /\ l \in Locals /\ (Busy(w) => JobOf(w) \in Jobs) /\ ModelOf \in [Jobs -> Models]
  BY Typed, JobTyped, WaitAssumption
<1>1. ASSUME NEW pc \in Pcs, Goto(w, pc)
      PROVE  WorkersTyped
  BY <1>0, <1>1 DEF Goto, Locals
<1>2. ASSUME NEW pc \in Pcs, NEW why \in {"none", "timeout", "comfy_error"}, Busy(w),
             Leaves(w, pc, why)
      PROVE  WorkersTyped
  BY <1>0, <1>2, IdleTyped, LocalMoves DEF Leaves
<1>3. ASSUME NEW how \in Outcomes, Busy(w), End(w, how)
      PROVE  WorkersTyped /\ EndTyped
  <2>1. WorkersTyped
    BY <1>0, <1>3, IdleTyped, LocalMoves DEF End
  <2> QED BY <1>0, <1>3, <2>1 DEF End
<1>4. LeaveWait(w) => WaitTyped
  BY <1>0 DEF LeaveWait
<1>5. ASSUME Busy(w), GiveUp(w)
      PROVE  WorkersTyped /\ EndTyped /\ WaitTyped
  <2>1. Leaves(w, "cancel", "timeout") /\ LeaveWait(w) /\ UNCHANGED <<outcome, lastModel, excused>>
    BY <1>5 DEF GiveUp
  <2> QED BY <1>0, <1>2, <1>4, <1>5, <2>1 DEF Pcs
<1>6. Fault \/ NoFault => faults' \in 0..MaxFaults
  BY <1>0 DEF Fault, NoFault
<1>7. ASSUME ws' = ws \/ ws' \in Sockets, comfy' = comfy \/ comfy' \in Sidecars,
             WorkersTyped, EndTyped, WaitTyped, missed' \subseteq Jobs,
             faults' \in 0..MaxFaults
      PROVE  TypeOK'
  BY <1>0, <1>7 DEF TypeOK, Sidecars, Sockets, Locals
<1>8. /\ UNCHANGED <<outcome, lastModel, excused>> => EndTyped
      /\ UNCHANGED <<pending, resolved>> => WaitTyped
  BY <1>0
<1>9. \A pc \in Pcs : At(w, pc) /\ pc # "idle" => Busy(w)
  BY DEF At, Busy
<1>10. {"idle", "swap", "submit", "accept", "fetch", "cancel", "interrupt", "delete", "free",
        "baseline", "connect", "wait", "stalled", "poll"} = Pcs
  BY DEF Pcs, WaitPcs
<1>11. {"completed", "timeout", "failed", "unread"} \subseteq Outcomes
  BY DEF Outcomes
<1>12. freed \in Sidecars
  BY FreedTyped
<1>13. ASSUME NEW why, AfterCancel(w), Busy(w)
       PROVE  WorkersTyped /\ EndTyped
  BY <1>1, <1>3, <1>8, <1>10, <1>11, <1>13 DEF AfterCancel
<1> HIDE DEF WorkersTyped, EndTyped, WaitTyped, l
<1>14. CASE \E j \in Jobs : Take(w, j)
  <2> USE DEF WorkersTyped, EndTyped, WaitTyped
  <2>1. PICK j \in Jobs : Take(w, j)
    BY <1>14
  <2> DEFINE pc == IF NeedsSwap(ModelOf[j]) THEN "swap" ELSE "submit"
  <2>4. pc \in Pcs /\ worker' = [worker EXCEPT ![w].pc = pc, ![w].job = j]
    BY <1>10, <2>1 DEF Take
  <2> HIDE DEF pc
  <2>2. WorkersTyped
    BY <1>0, <2>4 DEF Locals
  <2>3. /\ excused' \in BOOLEAN
        /\ UNCHANGED <<comfy, ws, pending, resolved, outcome, lastModel, missed, faults>>
    BY <2>1 DEF Take
  <2> QED BY <1>0, <1>7, <2>2, <2>3
<1>15. CASE Swap(w)
  <2>1. Busy(w)
    BY <1>9, <1>10, <1>15 DEF Swap
  <2>2. comfy' \in {comfy, freed} /\ UNCHANGED <<ws, pending, resolved, missed>>
        /\ (Fault \/ NoFault)
    BY <1>15 DEF Swap
  <2>3. WorkersTyped /\ EndTyped
    <3>1. \/ End(w, "failed")
          \/ /\ Goto(w, "submit") /\ UNCHANGED <<outcome, lastModel>>
             /\ excused' = excused \/ excused' = TRUE
      BY <1>15 DEF Swap
    <3>2. CASE End(w, "failed")
      BY <1>3, <1>11, <2>1, <3>2
    <3>3. CASE ~End(w, "failed")
      BY <1>0, <1>1, <1>10, <3>1, <3>3 DEF EndTyped
    <3> QED BY <3>2, <3>3
  <2> QED BY <1>0, <1>6, <1>7, <1>8, <1>12, <2>2, <2>3
<1>16. CASE Submit(w)
  <2> DEFINE queued == [comfy EXCEPT !.queue = Append(@, JobOf(w))]
  <2>1. Busy(w)
    BY <1>9, <1>10, <1>16 DEF Submit
  <2>2. comfy' \in {comfy, queued} /\ UNCHANGED <<ws, pending, resolved, missed>>
        /\ (Fault \/ NoFault)
        /\ (End(w, "failed") \/ (Goto(w, "accept") /\ UNCHANGED <<outcome, lastModel, excused>>))
    BY <1>16 DEF Submit
  <2>3. queued \in Sidecars
    <3>1. Append(comfy.queue, JobOf(w)) \in Seq(Jobs)
      BY <1>0, <2>1, Appended DEF Sidecars
    <3> QED BY <1>0, <3>1 DEF Sidecars
  <2> HIDE DEF queued
  <2>4. WorkersTyped /\ EndTyped
    BY <1>1, <1>3, <1>8, <1>10, <1>11, <2>1, <2>2
  <2> QED BY <1>0, <1>6, <1>7, <1>8, <2>2, <2>3, <2>4
<1>17. CASE Accept(w)
  <2>1. Busy(w)
    BY <1>9, <1>10, <1>17 DEF Accept
  <2>2. UNCHANGED <<comfy, ws, resolved, outcome, lastModel, missed, excused>>
        /\ (Fault \/ NoFault)
    BY <1>17 DEF Accept
  <2>3. WorkersTyped /\ pending' \subseteq Jobs
    <3>1. CASE Fault /\ Leaves(w, "cancel", "comfy_error") /\ UNCHANGED pending
      BY <1>0, <1>2, <1>10, <2>1, <3>1
    <3>2. CASE /\ pending' = pending \cup {JobOf(w)}
               /\ worker' = [worker EXCEPT ![w].pc = IF StallCheck THEN "baseline" ELSE "connect",
                                           ![w].tries = 2]
      <4> DEFINE pc == IF StallCheck THEN "baseline" ELSE "connect"
      <4>1. pc \in Pcs /\ 2 \in 0..2 /\ worker' = [worker EXCEPT ![w].pc = pc, ![w].tries = 2]
        BY <1>10, <3>2
      <4> HIDE DEF pc
      <4>2. worker' \in [Workers -> Locals]
        BY ONLY <1>0, <4>1 DEF Locals
      <4> QED BY <1>0, <2>1, <3>2, <4>2 DEF WorkersTyped
    <3> QED BY <1>17, <3>1, <3>2 DEF Accept
  <2> QED BY <1>0, <1>6, <1>7, <2>2, <2>3 DEF EndTyped, WaitTyped
<1>18. CASE Baseline(w) \/ CheckProgress(w)
  <2>1. Busy(w)
    BY <1>9, <1>10, <1>18 DEF Baseline, CheckProgress
  <2>2. Entry(w) \in History
    BY <2>1, JobTyped
  <2>3. UNCHANGED <<comfy, ws, missed>> /\ (Fault \/ NoFault)
    BY <1>18 DEF Baseline, CheckProgress, NoFault
  <2>4. CASE End(w, "unread") /\ UNCHANGED <<pending, resolved>>
    <3>1. WorkersTyped /\ EndTyped
      BY <1>3, <1>11, <2>1, <2>4
    <3> QED BY <1>0, <1>6, <1>7, <1>8, <2>3, <2>4, <3>1
  <2>5. CASE Quit(w, "failed")
    <3>1. WorkersTyped /\ EndTyped
      BY <1>3, <1>11, <2>1, <2>5 DEF Quit
    <3>2. WaitTyped
      BY <1>4, <2>5 DEF Quit
    <3> QED BY <1>0, <1>6, <1>7, <2>3, <3>1, <3>2
  <2>6. CASE ~(End(w, "unread") /\ UNCHANGED <<pending, resolved>>) /\ ~Quit(w, "failed")
    <3>1. UNCHANGED <<pending, resolved, outcome, lastModel, excused>>
      BY <1>18, <2>6 DEF Baseline, CheckProgress
    <3>2. WorkersTyped
      BY <1>0, <1>18, <2>2, <2>6 DEF WorkersTyped, Baseline, CheckProgress, NotesProgress, Goto,
             Locals, Sockets, Pcs, WaitPcs
    <3> QED BY <1>0, <1>6, <1>7, <1>8, <2>3, <3>1, <3>2
  <2> QED BY <2>4, <2>5, <2>6
<1>19. CASE Connect(w)
  <2>1. Busy(w)
    BY <1>9, <1>10, <1>19 DEF Connect
  <2>2. UNCHANGED <<comfy, pending, resolved, outcome, lastModel, missed, excused>>
        /\ faults' \in 0..MaxFaults
    BY <1>0, <1>19 DEF Connect, Fault
  <2>3. ~ws.up => ws.conn + 1 \in 0..(MaxFaults + 1)
    BY <1>0 DEF SocketInv, Sockets
  <2> DEFINE new == [up |-> TRUE, conn |-> ws.conn + 1, events |-> {}]
  <2>4. ws' = ws \/ ws' \in Sockets
    <3>1. ~ws.up => new \in Sockets
      BY <2>3 DEF Sockets
    <3>2. ws' = ws \/ (~ws.up /\ ws' = new)
      BY <1>19 DEF Connect
    <3> QED BY <3>1, <3>2
  <2>5. WorkersTyped
    <3>1. CASE StartsPolling(w)
      BY <1>2, <1>10, <2>1, <3>1 DEF StartsPolling
    <3>2. CASE \/ ws.up /\ worker' = [worker EXCEPT ![w].pc = "wait", ![w].reader = ws.conn]
               \/ /\ ~ws.up
                  /\ worker' = [worker EXCEPT ![w].pc = "wait", ![w].reader = ws.conn + 1]
      BY <1>0, <2>3, <3>2 DEF WorkersTyped, Locals, Sockets, Pcs, WaitPcs
    <3>3. CASE worker[w].tries > 1 /\ worker' = [worker EXCEPT ![w].tries = @ - 1]
      BY <1>0, <3>3 DEF WorkersTyped, Locals
    <3> QED BY <1>19, <3>1, <3>2, <3>3 DEF Connect
  <2> QED BY <1>0, <1>7, <1>8, <2>2, <2>4, <2>5
<1>20. CASE Return(w) \/ Stall(w) \/ RaiseStalled(w) \/ Deadline(w)
  <2>1. Busy(w)
    BY <1>9, <1>10, <1>20 DEF Return, Stall, RaiseStalled, Deadline
  <2>2. UNCHANGED <<comfy, ws, missed>> /\ faults' \in 0..MaxFaults
    BY <1>0, <1>20 DEF Return, Stall, RaiseStalled, Deadline, Fault, NoFault
  <2>3. \/ Leaves(w, "fetch", "none") /\ LeaveWait(w) /\ UNCHANGED <<outcome, lastModel, excused>>
        \/ /\ Leaves(w, "stalled", "none")
           /\ UNCHANGED <<pending, resolved, outcome, lastModel, excused>>
        \/ GiveUp(w)
    BY <1>20 DEF Return, Stall, RaiseStalled, Deadline
  <2>4. WorkersTyped /\ EndTyped /\ WaitTyped
    BY <1>2, <1>4, <1>5, <1>8, <1>10, <2>1, <2>3
  <2> QED BY <1>0, <1>7, <2>2, <2>4
<1>21. CASE ReaderDied(w)
  <2>1. Busy(w)
    BY <1>9, <1>10, <1>21 DEF ReaderDied
  <2>2. WorkersTyped
    <3>1. CASE StartsPolling(w)
      BY <1>2, <1>10, <2>1, <3>1 DEF StartsPolling
    <3>2. CASE worker' = [worker EXCEPT ![w].pc = "connect", ![w].tries = 1, ![w].reconnects = 1]
      <4>1. "connect" \in Pcs /\ 1 \in 0..2 /\ 1 \in 0..1
        BY <1>10
      <4>2. worker' \in [Workers -> Locals]
        BY ONLY <1>0, <3>2, <4>1 DEF Locals
      <4> QED BY <4>2 DEF WorkersTyped
    <3> QED BY <1>21, <3>1, <3>2 DEF ReaderDied
  <2>3. UNCHANGED <<comfy, ws, pending, resolved, outcome, lastModel, missed, excused, faults>>
    BY <1>21 DEF ReaderDied
  <2> QED BY <1>0, <1>7, <1>8, <2>2, <2>3
<1>22. CASE Poll(w)
  <2>1. Busy(w)
    BY <1>9, <1>10, <1>22 DEF Poll
  <2>2. UNCHANGED <<comfy, ws, missed, faults>>
    BY <1>22 DEF Poll, NoFault
  <2>3. \/ Leaves(w, "fetch", "none") /\ LeaveWait(w) /\ UNCHANGED <<outcome, lastModel, excused>>
        \/ End(w, "failed") /\ LeaveWait(w)
        \/ /\ worker' = [worker EXCEPT ![w].sig = "partial"]
           /\ UNCHANGED <<pending, resolved, outcome, lastModel, excused>>
    BY <1>22 DEF Poll, Quit, NotesProgress
  <2>4. worker' = [worker EXCEPT ![w].sig = "partial"] => WorkersTyped
    BY <1>0 DEF WorkersTyped, Locals, History
  <2>5. WorkersTyped /\ EndTyped /\ WaitTyped
    BY <1>2, <1>3, <1>4, <1>8, <1>10, <1>11, <2>1, <2>3, <2>4
  <2> QED BY <1>0, <1>7, <2>2, <2>5
<1>23. CASE Fetch(w)
  <2>1. Busy(w)
    BY <1>9, <1>10, <1>23 DEF Fetch
  <2>2. UNCHANGED <<comfy, ws, pending, resolved, missed>> /\ faults' \in 0..MaxFaults
        /\ (End(w, "completed") \/ End(w, "failed"))
    <3>1. Fault \/ NoFault
      BY <1>23 DEF Fetch
    <3> QED BY <1>6, <1>23, <3>1 DEF Fetch
  <2>3. WorkersTyped /\ EndTyped
    BY <1>3, <1>11, <2>1, <2>2
  <2> QED BY <1>0, <1>7, <1>8, <2>2, <2>3
<1>24. CASE Cancel(w)
  <2>1. Busy(w)
    BY <1>9, <1>10, <1>24 DEF Cancel
  <2>2. UNCHANGED <<comfy, ws, pending, resolved, missed>> /\ (Fault \/ NoFault)
        /\ \/ AfterCancel(w)
           \/ /\ Goto(w, "interrupt") \/ Goto(w, "delete")
              /\ UNCHANGED <<outcome, lastModel, excused>>
    BY <1>24 DEF Cancel
  <2>3. WorkersTyped /\ EndTyped
    BY <1>1, <1>8, <1>10, <1>13, <2>1, <2>2
  <2> QED BY <1>0, <1>6, <1>7, <1>8, <2>2, <2>3
<1>25. CASE Interrupt(w)
  <2>1. Busy(w)
    BY <1>9, <1>10, <1>25 DEF Interrupt
  <2>2. AfterCancel(w) /\ UNCHANGED <<pending, resolved>> /\ (Fault \/ NoFault)
        /\ \/ UNCHANGED <<comfy, ws, missed>>
           \/ comfy.running # NoJob /\ Ends(comfy.running, "error")
    BY <1>25 DEF Interrupt
  <2>3. WorkersTyped /\ EndTyped
    BY <1>13, <2>1, <2>2
  <2>4. comfy.running # NoJob /\ Ends(comfy.running, "error") =>
           comfy' \in Sidecars /\ ws' \in Sockets /\ missed' \subseteq Jobs
    <3> SUFFICES ASSUME comfy.running # NoJob, Ends(comfy.running, "error")
                 PROVE  comfy' \in Sidecars /\ ws' \in Sockets /\ missed' \subseteq Jobs
      OBVIOUS
    <3> QED BY <1>0, EndsTyped DEF Verdicts
  <2> QED BY <1>0, <1>6, <1>7, <1>8, <2>2, <2>3, <2>4
<1>26. CASE Delete(w)
  <2>1. Busy(w)
    BY <1>9, <1>10, <1>26 DEF Delete
  <2>2. AfterCancel(w) /\ UNCHANGED <<ws, pending, resolved, missed>> /\ (Fault \/ NoFault)
        /\ \/ comfy' = comfy
           \/ \E i \in DOMAIN comfy.queue : comfy' = [comfy EXCEPT !.queue = without(i)]
    BY <1>26 DEF Delete
  <2>3. WorkersTyped /\ EndTyped
    BY <1>13, <2>1, <2>2
  <2>4. comfy' = comfy \/ comfy' \in Sidecars
    <3>1. \A i \in DOMAIN comfy.queue : without(i) \in Seq(Jobs)
      BY <1>0, Removed DEF without, Sidecars
    <3> QED BY <1>0, <2>2, <3>1 DEF Sidecars
  <2> QED BY <1>0, <1>6, <1>7, <1>8, <2>2, <2>3, <2>4
<1>27. CASE Free(w)
  <2>1. Busy(w)
    BY <1>9, <1>10, <1>27 DEF Free
  <2>2. comfy' \in {comfy, freed} /\ End(w, "timeout")
        /\ UNCHANGED <<ws, pending, resolved, missed, faults>>
    BY <1>27 DEF Free
  <2>3. WorkersTyped /\ EndTyped
    BY <1>3, <1>11, <2>1, <2>2
  <2> QED BY <1>0, <1>7, <1>8, <1>12, <2>2, <2>3
<1> QED BY <1>14, <1>15, <1>16, <1>17, <1>18, <1>19, <1>20, <1>21, <1>22, <1>23, <1>24, <1>25,
           <1>26, <1>27 DEF WorkerStep


LEMMA EnvironmentTypes ==
    ASSUME TypeOK, Environment
    PROVE  TypeOK'
<1>0. /\ comfy \in Sidecars /\ ws \in Sockets /\ resolved \subseteq Jobs /\ missed \subseteq Jobs
      /\ pending \subseteq Jobs /\ faults \in 0..MaxFaults /\ MaxFaults \in Nat
      /\ ModelOf \in [Jobs -> Models]
  BY Typed, WaitAssumption
<1>1. ASSUME UNCHANGED <<pending, worker, outcome, lastModel, excused>>, comfy' \in Sidecars,
             ws' \in Sockets, resolved' \subseteq Jobs, missed' \subseteq Jobs,
             faults' \in 0..MaxFaults
      PROVE  TypeOK'
  BY <1>1 DEF TypeOK, Sidecars, Sockets
<1>2. CASE Start
  <2> DEFINE q == comfy.queue
             h == Head(q)
             loaded == comfy.loaded \cup {ModelOf[h]}
  <2>1. q \in Seq(Jobs) /\ q # <<>>
    BY <1>0, <1>2 DEF Start, Sidecars
  <2>2. Tail(q) \in Seq(Jobs) /\ h \in Jobs
    BY <2>1, Shortened
  <2>3. loaded \in SUBSET Models
    BY <1>0, <2>2 DEF Sidecars
  <2> DEFINE t == Tail(q)
  <2>4. comfy' = [comfy EXCEPT !.queue = t, !.running = h, !.loaded = loaded]
    BY <1>2 DEF Start
  <2> HIDE DEF h, t, loaded
  <2>5. comfy' \in Sidecars
    BY <1>0, <2>2, <2>3, <2>4 DEF Sidecars, t
  <2> QED BY <1>0, <1>1, <1>2, <2>5 DEF Start
<1>3. CASE Step
  <2>1. comfy' = [comfy EXCEPT !.history[comfy.running] = "partial"] /\ comfy.running \in Jobs
    BY <1>0, <1>3 DEF Step, Sidecars
  <2>2. comfy' \in Sidecars
    BY <1>0, <2>1 DEF Sidecars, History
  <2> QED BY <1>0, <1>1, <1>3, <2>2 DEF Step
<1>4. CASE Finish
  <2>1. PICK v \in Verdicts : comfy.running # NoJob /\ Ends(comfy.running, v)
    BY <1>4 DEF Finish
  <2>2. comfy' \in Sidecars /\ ws' \in Sockets /\ missed' \subseteq Jobs
    BY <2>1, EndsTyped
  <2> QED BY <1>0, <1>1, <1>4, <2>2 DEF Finish
<1>5. CASE Drop
  <2>1. ws' = [ws EXCEPT !.up = FALSE, !.events = {}] /\ missed' = missed \cup ws.events
    BY <1>5 DEF Drop
  <2>2. ws' \in Sockets /\ missed' \subseteq Jobs
    BY <1>0, <2>1 DEF Sockets
  <2> QED BY <1>0, <1>1, <1>5, <2>2 DEF Drop, Fault
<1>6. CASE \E p \in Jobs : Receive(p)
  <2>1. PICK p \in Jobs : Receive(p)
    BY <1>6
  <2>2. ws' = [ws EXCEPT !.events = @ \ {p}]
    BY <2>1 DEF Receive
  <2>3. ws' \in Sockets
    BY <1>0, <2>2 DEF Sockets
  <2>4. resolved' \subseteq Jobs /\ missed' \subseteq Jobs
    BY <1>0, <2>1 DEF Receive
  <2> QED BY <1>0, <1>1, <2>1, <2>3, <2>4 DEF Receive
<1> QED BY <1>2, <1>3, <1>4, <1>5, <1>6 DEF Environment

LEMMA NextTypes ==
    ASSUME TypeOK, SocketInv, \A w \in Workers : WorkerInv(w), [Next]_vars
    PROVE  TypeOK'
<1>1. UNCHANGED vars => TypeOK'
  BY DEF vars, TypeOK
<1> QED BY <1>1, StepTypes, EnvironmentTypes DEF Next, Quiescent


-----------------------------------------------------------------------------
(* The kinds of steps.                                                     *)

GivenUp == {"cancel", "interrupt", "delete", "free"}

Others(w) == \A v \in Workers \ {w} : worker'[v] = worker[v]

\* A worker goes on with its job.
GoesOn(w) ==
    /\ Others(w) /\ Busy(w)
    /\ worker'[w].job = JobOf(w) /\ worker'[w].pc # "idle"
    /\ UNCHANGED <<outcome, lastModel>> /\ (excused => excused')
    /\ worker'[w].pc # "swap" /\ (worker'[w].pc = "submit" <=> At(w, "swap"))
    /\ worker'[w].pc = "submit" => comfy' = freed \/ excused'
    /\ worker'[w].pc = "accept" => At(w, "submit")
    /\ worker'[w].pc \in WaitPcs => worker[w].pc \in Awaiting
    /\ worker'[w].pc \notin GivenUp => worker'[w].why = "none"
    /\ worker'[w].pc = "fetch" => Entry(w) \in Verdicts
    /\ worker'[w].reader <= ws'.conn

\* A job is over.
Ended(w) ==
    /\ Others(w) /\ Busy(w) /\ worker'[w] = Idle
    /\ \E how \in {"completed", "timeout", "failed", "unread"} :
          /\ End(w, how)
          /\ how = "completed" => Entry(w) = "success" /\ UNCHANGED comfy
          /\ how = "unread" => At(w, "baseline") /\ UNCHANGED <<pending, resolved>>

\* The futures follow the waits.
WaitEffect(w) ==
    \/ /\ worker'[w].pc \in WaitPcs <=> worker[w].pc \in WaitPcs
       /\ UNCHANGED <<pending, resolved>>
    \/ /\ worker[w].pc \in WaitPcs /\ worker'[w].pc \notin WaitPcs
       /\ LeaveWait(w)
    \/ /\ At(w, "accept") /\ worker'[w].pc \in WaitPcs
       /\ pending' = pending \cup {JobOf(w)} /\ UNCHANGED resolved
    \/ /\ At(w, "baseline") /\ worker'[w].pc = "idle" /\ outcome'[JobOf(w)] = "unread"
       /\ UNCHANGED <<pending, resolved>>

\* What can happen to the sidecar and to the connection.
Queues(w) ==
    /\ At(w, "submit")
    /\ comfy' = [comfy EXCEPT !.queue = Append(@, JobOf(w))]
    /\ worker'[w].pc = "accept" \/ Ended(w)

PromptEnds == comfy.running # NoJob /\ \E v \in Verdicts : Ends(comfy.running, v)

SidecarEffect ==
    \/ UNCHANGED comfy \/ comfy' = freed
    \/ \E w \in Workers : Queues(w)
    \/ \E i \in DOMAIN comfy.queue : comfy' = [comfy EXCEPT !.queue = without(i)]
    \/ Start \/ Step \/ PromptEnds

Reconnects ==
    /\ ~ws.up /\ ws' = [up |-> TRUE, conn |-> ws.conn + 1, events |-> {}]
    /\ UNCHANGED <<comfy, missed>>

SocketEffect ==
    \/ UNCHANGED <<ws, missed>> \/ Reconnects \/ PromptEnds
    \/ Drop \/ \E p \in Jobs : Receive(p)


\* Every step of a worker is of these kinds.
LEMMA WorkerKinds ==
    ASSUME TypeOK, SocketInv, NEW w \in Workers, WorkerInv(w),
           WorkerStep(w) \/ CheckProgress(w) \/ Stall(w)
    PROVE  /\ GoesOn(w) \/ Ended(w) \/ \E j \in Jobs : Take(w, j)
           /\ WaitEffect(w) /\ SidecarEffect /\ SocketEffect
<1> DEFINE l == worker[w]
           Goes == GoesOn(w) \/ Ended(w) \/ \E j \in Jobs : Take(w, j)
           Effects == SidecarEffect /\ SocketEffect
           Same == UNCHANGED <<pending, resolved>>
           Kept == UNCHANGED <<outcome, lastModel>> /\ (excused => excused')
<1> USE DEF At
<1>0. /\ worker \in [Workers -> Locals] /\ l \in Locals /\ ws \in Sockets
      /\ l.reader \in Nat /\ ws.conn \in Nat /\ l.reader <= ws.conn
      /\ Busy(w) => JobOf(w) \in Jobs
      /\ l.pc \notin GivenUp => l.why = "none"
  <2>1. worker \in [Workers -> Locals] /\ l \in Locals /\ ws \in Sockets /\ MaxFaults \in Nat
    BY Typed
  <2>2. l.reader \in Nat /\ ws.conn \in Nat
    BY <2>1 DEF Locals, Sockets
  <2> QED BY <2>1, <2>2, JobTyped DEF WorkerInv, GivenUp
<1>1. ASSUME NEW pc, Goto(w, pc)
      PROVE  /\ Others(w) /\ worker'[w].pc = pc /\ worker'[w].job = JobOf(w)
             /\ worker'[w].why = l.why /\ worker'[w].reader = l.reader
  BY <1>0, <1>1 DEF Goto, Others, JobOf, Locals
<1>2. ASSUME NEW pc \in Pcs, NEW why \in {"none", "timeout", "comfy_error"}, Busy(w),
             Leaves(w, pc, why)
      PROVE  /\ Others(w) /\ worker'[w].pc = pc /\ worker'[w].job = JobOf(w)
             /\ worker'[w].why = why /\ worker'[w].reader = 0
  <2> DEFINE new == [Idle EXCEPT !.pc = pc, !.job = JobOf(w), !.why = why]
  <2>1. new.pc = pc /\ new.job = JobOf(w) /\ new.why = why /\ new.reader = 0
    BY DEF Idle
  <2>2. worker' = [worker EXCEPT ![w] = new]
    BY <1>2 DEF Leaves
  <2> HIDE DEF new
  <2>3. worker'[w] = new /\ Others(w)
    BY <2>2, LocalMoves DEF Others
  <2> QED BY <2>1, <2>3
<1>3. ASSUME NEW how \in {"timeout", "failed"}, Busy(w), End(w, how)
      PROVE  Goes /\ worker'[w].pc = "idle"
  <2>1. worker'[w] = Idle /\ Others(w)
    BY <1>3, LocalMoves DEF End, Others
  <2> QED BY <1>3, <2>1 DEF Ended, Idle
<1>4. ASSUME NEW pc \in GivenUp, Goto(w, pc), l.pc \notin Preparing, Kept, ws'.conn = ws.conn
      PROVE  Goes /\ worker'[w].pc = pc
  BY <1>0, <1>1, <1>4 DEF GoesOn, Busy, GivenUp, Preparing, Awaiting, WaitPcs
<1>5. ASSUME NEW pc \in {"fetch", "stalled", "poll"}, Leaves(w, pc, "none"), Busy(w), Kept,
             pc = "fetch" => Entry(w) \in Verdicts,
             pc # "fetch" => l.pc \in Awaiting, l.pc \notin Preparing, ws'.conn = ws.conn
      PROVE  Goes /\ worker'[w].pc = pc
  <2>1. /\ Others(w) /\ worker'[w].pc = pc /\ worker'[w].job = JobOf(w)
        /\ worker'[w].why = "none" /\ worker'[w].reader = 0
    BY <1>2, <1>5 DEF Pcs, WaitPcs
  <2> QED BY <1>0, <1>5, <2>1 DEF GoesOn, GivenUp, Preparing, Awaiting, WaitPcs
<1>6. ASSUME Leaves(w, "cancel", "timeout") \/ Leaves(w, "cancel", "comfy_error"), Busy(w), Kept,
             ws'.conn = ws.conn, l.pc \notin Preparing
      PROVE  Goes /\ worker'[w].pc = "cancel"
  <2>1. /\ Others(w) /\ worker'[w].pc = "cancel" /\ worker'[w].job = JobOf(w)
        /\ worker'[w].reader = 0
    BY <1>2, <1>6 DEF Pcs
  <2> QED BY <1>0, <1>6, <2>1 DEF GoesOn, GivenUp, Preparing, Awaiting, WaitPcs
<1>7. ASSUME Others(w), worker'[w].pc \in WaitPcs \cup {"accept"}, worker'[w].job = JobOf(w),
             worker'[w].why = l.why, worker'[w].reader <= ws'.conn,
             worker'[w].pc = "accept" => l.pc = "submit",
             worker'[w].pc \in WaitPcs => l.pc \in Awaiting, Kept
      PROVE  Goes
  <2>1. l.pc \notin GivenUp /\ Busy(w)
    BY <1>7 DEF Awaiting, WaitPcs, GivenUp, Busy
  <2> QED BY <1>0, <1>7, <2>1 DEF GoesOn, GivenUp, Preparing, Awaiting, WaitPcs
<1>8. ASSUME UNCHANGED <<comfy, ws, missed>>
      PROVE  Effects
  BY <1>8 DEF SidecarEffect, SocketEffect
<1>9. ASSUME AfterCancel(w), l.pc \notin Preparing, ws'.conn = ws.conn
      PROVE  Goes /\ worker'[w].pc \in {"free", "idle"}
  <2>1. Kept \/ End(w, "failed")
    BY <1>9 DEF AfterCancel
  <2> QED BY <1>3, <1>4, <1>9, <2>1 DEF AfterCancel, GivenUp, Preparing, Busy
<1> HIDE DEF Goes, Effects, l
<1>14. CASE \E j \in Jobs : Take(w, j)
  <2>1. PICK j \in Jobs : Take(w, j)
    BY <1>14
  <2>2. l.pc = "idle" /\ worker'[w].pc \in {"swap", "submit"} /\ Same
    BY <1>0, <2>1 DEF Take, Locals, l
  <2>3. UNCHANGED <<comfy, ws, missed>>
    BY <2>1 DEF Take
  <2>4. WaitEffect(w)
    BY <2>2 DEF WaitEffect, WaitPcs, l
  <2> QED BY <1>8, <1>14, <2>3, <2>4 DEF Goes, Effects
<1>15. CASE Swap(w)
  <2>1. Busy(w) /\ l.pc = "swap" /\ Same /\ UNCHANGED <<ws, missed>> /\ comfy' \in {comfy, freed}
    BY <1>15 DEF Swap, Busy, l
  <2>2. (Goto(w, "submit") /\ Kept /\ (comfy' = freed \/ excused')) \/ End(w, "failed")
    BY <1>15 DEF Swap
  <2>3. Goto(w, "submit") /\ Kept /\ (comfy' = freed \/ excused') =>
           GoesOn(w) /\ worker'[w].pc = "submit"
    BY <1>0, <1>1, <2>1 DEF GoesOn, GivenUp, Preparing, Awaiting, WaitPcs, l
  <2>4. Goes /\ worker'[w].pc \in {"submit", "idle"}
    BY <1>3, <2>1, <2>2, <2>3 DEF Goes
  <2>5. WaitEffect(w)
    BY <2>1, <2>4 DEF WaitEffect, WaitPcs, l
  <2> QED BY <2>1, <2>4, <2>5 DEF Goes, SidecarEffect, SocketEffect
<1>16. CASE Submit(w)
  <2> DEFINE queued == [comfy EXCEPT !.queue = Append(@, JobOf(w))]
  <2>1. Busy(w) /\ l.pc = "submit" /\ Same /\ UNCHANGED <<ws, missed>>
    BY <1>16 DEF Submit, Busy, l
  <2>2. \/ Goto(w, "accept") /\ Kept /\ comfy' = queued
        \/ End(w, "failed") /\ comfy' \in {comfy, queued}
    BY <1>16 DEF Submit
  <2>3. CASE Goto(w, "accept") /\ Kept /\ comfy' = queued
    <3>1. /\ Others(w) /\ worker'[w].pc = "accept" /\ worker'[w].job = JobOf(w)
          /\ worker'[w].why = l.why /\ worker'[w].reader = l.reader
      BY <1>1, <2>3 DEF l
    <3>2. Goes
      BY <1>0, <1>7, <2>1, <2>3, <3>1 DEF WaitPcs, l
    <3>3. Queues(w)
      BY <2>1, <2>3, <3>1 DEF Queues, l
    <3>4. WaitEffect(w)
      BY <2>1, <3>1 DEF WaitEffect, WaitPcs, l
    <3> QED BY <2>1, <3>2, <3>3, <3>4 DEF Goes, SidecarEffect, SocketEffect
  <2>4. CASE End(w, "failed") /\ comfy' \in {comfy, queued}
    <3>1. Goes /\ worker'[w].pc = "idle"
      BY <1>3, <2>1, <2>4
    <3>2. Ended(w)
      <4>1. worker'[w] = Idle /\ Others(w)
        BY <2>4, LocalMoves DEF End, Others
      <4> QED BY <2>1, <2>4, <4>1 DEF Ended
    <3>3. SidecarEffect
      BY <2>1, <2>4, <3>2 DEF SidecarEffect, Queues, l
    <3>4. WaitEffect(w)
      BY <2>1, <3>1 DEF WaitEffect, WaitPcs, l
    <3> QED BY <2>1, <3>1, <3>3, <3>4 DEF Goes, SocketEffect
  <2> QED BY <2>2, <2>3, <2>4
<1>17. CASE Accept(w)
  <2>1. /\ Busy(w) /\ l.pc = "accept" /\ UNCHANGED <<comfy, ws, missed, resolved>> /\ Kept
    BY <1>17 DEF Accept, Busy, l
  <2>2. CASE Leaves(w, "cancel", "comfy_error") /\ UNCHANGED pending
    <3>1. Goes /\ worker'[w].pc = "cancel"
      BY <1>6, <2>1, <2>2 DEF Preparing, l
    <3>2. WaitEffect(w)
      BY <2>1, <2>2, <3>1 DEF WaitEffect, WaitPcs, l
    <3> QED BY <1>8, <2>1, <3>1, <3>2 DEF Goes, Effects
  <2>3. CASE /\ pending' = pending \cup {JobOf(w)}
             /\ worker' = [worker EXCEPT ![w].pc = IF StallCheck THEN "baseline" ELSE "connect",
                                         ![w].tries = 2]
    <3> DEFINE pc == IF StallCheck THEN "baseline" ELSE "connect"
    <3>1. pc \in WaitPcs /\ worker' = [worker EXCEPT ![w].pc = pc, ![w].tries = 2]
      BY <2>3 DEF WaitPcs
    <3> HIDE DEF pc
    <3>2. /\ Others(w) /\ worker'[w].pc = pc /\ worker'[w].job = JobOf(w)
          /\ worker'[w].why = l.why /\ worker'[w].reader = l.reader
      BY <1>0, <3>1 DEF Others, JobOf, Locals, l
    <3>3. Goes
      BY <1>0, <1>7, <2>1, <3>1, <3>2 DEF Awaiting, WaitPcs, l
    <3>4. WaitEffect(w)
      BY <2>1, <2>3, <3>1, <3>2 DEF WaitEffect, l
    <3> QED BY <1>8, <2>1, <3>3, <3>4 DEF Goes, Effects
  <2> QED BY <1>17, <2>2, <2>3 DEF Accept
<1>18. CASE Baseline(w) \/ CheckProgress(w)
  <2>1. l.pc \in {"baseline", "wait"} /\ Busy(w) /\ UNCHANGED <<comfy, ws, missed>>
    BY <1>18 DEF Baseline, CheckProgress, Busy, l
  <2>2. CASE l.pc = "baseline" /\ End(w, "unread") /\ Same
    <3>1. worker'[w] = Idle /\ Others(w)
      BY <2>2, LocalMoves DEF End, Others
    <3>2. Ended(w)
      BY <2>1, <2>2, <3>1 DEF Ended, l
    <3>3. JobOf(w) \in Jobs /\ outcome \in [Jobs -> Outcomes]
      BY <1>0, <2>1, Typed
    <3>4. outcome'[JobOf(w)] = "unread"
      BY <2>2, <3>3 DEF End
    <3>5. WaitEffect(w)
      BY <2>2, <3>1, <3>4 DEF WaitEffect, Idle, l
    <3> QED BY <1>8, <2>1, <3>2, <3>5 DEF Goes, Effects
  <2>3. CASE l.pc = "wait" /\ Quit(w, "failed")
    <3>1. Goes /\ worker'[w].pc = "idle"
      BY <1>3, <2>1, <2>3 DEF Quit
    <3>2. WaitEffect(w)
      BY <2>1, <2>3, <3>1 DEF WaitEffect, WaitPcs, Quit, l
    <3> QED BY <1>8, <2>1, <3>1, <3>2 DEF Goes, Effects
  <2>4. CASE /\ ~(l.pc = "baseline" /\ End(w, "unread") /\ Same)
             /\ ~(l.pc = "wait" /\ Quit(w, "failed"))
    <3>1. Kept /\ Same
      BY <1>18, <2>4 DEF Baseline, CheckProgress, l
    <3>2. /\ Others(w) /\ worker'[w].pc \in {"connect", "wait"} /\ worker'[w].job = JobOf(w)
          /\ worker'[w].why = l.why /\ worker'[w].reader \in {l.reader, ws.conn}
      BY <1>0, <1>18, <2>4 DEF Baseline, CheckProgress, NotesProgress, Goto, Others, JobOf,
             Locals, l
    <3>3. Goes
      BY <1>0, <1>7, <2>1, <3>1, <3>2 DEF WaitPcs, Awaiting, l
    <3>4. WaitEffect(w)
      BY <2>1, <3>1, <3>2 DEF WaitEffect, WaitPcs, l
    <3> QED BY <1>8, <2>1, <3>3, <3>4 DEF Goes, Effects
  <2> QED BY <2>2, <2>3, <2>4
<1>19. CASE Connect(w)
  <2>1. /\ Busy(w) /\ l.pc = "connect" /\ UNCHANGED <<comfy, missed>> /\ Kept /\ Same
    BY <1>19 DEF Connect, Busy, l
  <2>2. ws' = ws \/ (Reconnects /\ ws'.conn = ws.conn + 1)
    BY <1>19, <2>1 DEF Connect, Reconnects
  <2>3. ws'.conn \in Nat /\ ws'.conn >= ws.conn
    BY <1>0, <2>2
  <2>4. Effects
    BY <2>1, <2>2 DEF Effects, SidecarEffect, SocketEffect
  <2>5. CASE StartsPolling(w)
    <3>1. ws' = ws
      <4>1. worker'[w].pc = "poll"
        BY <1>2, <2>1, <2>5 DEF StartsPolling, Pcs, WaitPcs
      <4>2. ws' # ws => worker' = [worker EXCEPT ![w].pc = "wait", ![w].reader = ws.conn + 1]
        BY <1>19, <2>1 DEF Connect
      <4>3. ws' # ws => worker'[w].pc = "wait"
        BY <1>0, <4>2 DEF Locals
      <4> QED BY <4>1, <4>3
    <3>2. Goes /\ worker'[w].pc = "poll"
      BY <1>5, <2>1, <2>5, <3>1 DEF StartsPolling, Awaiting, Preparing, WaitPcs, l
    <3>3. WaitEffect(w)
      BY <2>1, <3>2 DEF WaitEffect, WaitPcs, l
    <3> QED BY <2>4, <3>2, <3>3 DEF Goes, Effects
  <2>6. CASE ~StartsPolling(w)
    <3>1. /\ Others(w) /\ worker'[w].pc \in {"connect", "wait"} /\ worker'[w].job = JobOf(w)
          /\ worker'[w].why = l.why /\ worker'[w].reader \in {l.reader, ws'.conn}
      BY <1>0, <1>19, <2>6 DEF Connect, Others, JobOf, Locals, l
    <3>2. Goes
      BY <1>0, <1>7, <2>1, <2>3, <3>1 DEF WaitPcs, Awaiting, l
    <3>3. WaitEffect(w)
      BY <2>1, <3>1 DEF WaitEffect, WaitPcs, l
    <3> QED BY <2>4, <3>2, <3>3 DEF Goes, Effects
  <2> QED BY <2>5, <2>6
<1>20. CASE Return(w)
  <2>1. /\ Busy(w) /\ l.pc = "wait" /\ UNCHANGED <<comfy, ws, missed>> /\ Kept
        /\ Leaves(w, "fetch", "none") /\ LeaveWait(w) /\ JobOf(w) \in resolved
    BY <1>20 DEF Return, Busy, l
  <2>2. Entry(w) \in Verdicts
    BY <2>1 DEF SocketInv, Entry
  <2>3. Goes /\ worker'[w].pc = "fetch"
    BY <1>5, <2>1, <2>2 DEF Preparing, l
  <2>4. WaitEffect(w)
    BY <2>1, <2>3 DEF WaitEffect, WaitPcs, l
  <2> QED BY <1>8, <2>1, <2>3, <2>4 DEF Goes, Effects
<1>21. CASE Stall(w)
  <2>1. /\ Busy(w) /\ l.pc \in {"wait", "poll"} /\ UNCHANGED <<comfy, ws, missed>> /\ Kept /\ Same
        /\ Leaves(w, "stalled", "none")
    BY <1>21 DEF Stall, Busy, l
  <2>2. Goes /\ worker'[w].pc = "stalled"
    BY <1>5, <2>1 DEF Awaiting, Preparing, WaitPcs, l
  <2>3. WaitEffect(w)
    BY <2>1, <2>2 DEF WaitEffect, WaitPcs, l
  <2> QED BY <1>8, <2>1, <2>2, <2>3 DEF Goes, Effects
<1>22. CASE RaiseStalled(w) \/ Deadline(w)
  <2>1. /\ Busy(w) /\ l.pc \in {"wait", "poll", "stalled"} /\ UNCHANGED <<comfy, ws, missed>>
        /\ Kept /\ Leaves(w, "cancel", "timeout") /\ LeaveWait(w)
    BY <1>22 DEF RaiseStalled, Deadline, GiveUp, Busy, l
  <2>2. Goes /\ worker'[w].pc = "cancel"
    BY <1>6, <2>1 DEF Preparing, l
  <2>3. WaitEffect(w)
    BY <2>1, <2>2 DEF WaitEffect, WaitPcs, l
  <2> QED BY <1>8, <2>1, <2>2, <2>3 DEF Goes, Effects
<1>23. CASE ReaderDied(w)
  <2>1. /\ Busy(w) /\ l.pc = "wait" /\ UNCHANGED <<comfy, ws, missed>> /\ Kept /\ Same
    BY <1>23 DEF ReaderDied, Busy, l
  <2>2. CASE StartsPolling(w)
    <3>1. Goes /\ worker'[w].pc = "poll"
      BY <1>5, <2>1, <2>2 DEF StartsPolling, Awaiting, Preparing, WaitPcs, l
    <3>2. WaitEffect(w)
      BY <2>1, <3>1 DEF WaitEffect, WaitPcs, l
    <3> QED BY <1>8, <2>1, <3>1, <3>2 DEF Goes, Effects
  <2>3. CASE worker' = [worker EXCEPT ![w].pc = "connect", ![w].tries = 1, ![w].reconnects = 1]
    <3>1. /\ Others(w) /\ worker'[w].pc = "connect" /\ worker'[w].job = JobOf(w)
          /\ worker'[w].why = l.why /\ worker'[w].reader = l.reader
      BY <1>0, <2>3 DEF Others, JobOf, Locals, l
    <3>2. Goes
      BY <1>0, <1>7, <2>1, <3>1 DEF WaitPcs, Awaiting, l
    <3>3. WaitEffect(w)
      BY <2>1, <3>1 DEF WaitEffect, WaitPcs, l
    <3> QED BY <1>8, <2>1, <3>2, <3>3 DEF Goes, Effects
  <2> QED BY <1>23, <2>2, <2>3 DEF ReaderDied
<1>24. CASE Poll(w)
  <2>1. /\ Busy(w) /\ l.pc = "poll" /\ UNCHANGED <<comfy, ws, missed>>
    BY <1>24 DEF Poll, Busy, l
  <2>2. \/ /\ Leaves(w, "fetch", "none") /\ LeaveWait(w) /\ Kept /\ Entry(w) \in Verdicts
        \/ End(w, "failed") /\ LeaveWait(w)
        \/ worker' = [worker EXCEPT ![w].sig = "partial"] /\ Same /\ Kept
    BY <1>24 DEF Poll, Quit, NotesProgress, Verdicts
  <2>3. CASE /\ Leaves(w, "fetch", "none") /\ LeaveWait(w) /\ Kept /\ Entry(w) \in Verdicts
    <3>1. Goes /\ worker'[w].pc = "fetch"
      BY <1>5, <2>1, <2>3 DEF Preparing, l
    <3>2. WaitEffect(w)
      BY <2>1, <2>3, <3>1 DEF WaitEffect, WaitPcs, l
    <3> QED BY <1>8, <2>1, <3>1, <3>2 DEF Goes, Effects
  <2>4. CASE End(w, "failed") /\ LeaveWait(w)
    <3>1. Goes /\ worker'[w].pc = "idle"
      BY <1>3, <2>1, <2>4
    <3>2. WaitEffect(w)
      BY <2>1, <2>4, <3>1 DEF WaitEffect, WaitPcs, l
    <3> QED BY <1>8, <2>1, <3>1, <3>2 DEF Goes, Effects
  <2>5. CASE worker' = [worker EXCEPT ![w].sig = "partial"] /\ Same /\ Kept
    <3>1. /\ Others(w) /\ worker'[w].pc = "poll" /\ worker'[w].job = JobOf(w)
          /\ worker'[w].why = l.why /\ worker'[w].reader = l.reader
      BY <1>0, <2>1, <2>5 DEF Others, JobOf, Locals, l
    <3>2. Goes
      BY <1>0, <1>7, <2>1, <2>5, <3>1 DEF WaitPcs, Awaiting, l
    <3>3. WaitEffect(w)
      BY <2>1, <2>5, <3>1 DEF WaitEffect, WaitPcs, l
    <3> QED BY <1>8, <2>1, <3>2, <3>3 DEF Goes, Effects
  <2> QED BY <2>2, <2>3, <2>4, <2>5
<1>25. CASE Fetch(w)
  <2>1. /\ Busy(w) /\ l.pc = "fetch" /\ UNCHANGED <<comfy, ws, missed>> /\ Same
        /\ (Entry(w) = "success" /\ End(w, "completed")) \/ End(w, "failed")
    BY <1>25 DEF Fetch, Busy, l
  <2>2. worker'[w] = Idle /\ Others(w)
    BY <2>1, LocalMoves DEF End, Others
  <2>3. Ended(w)
    BY <2>1, <2>2 DEF Ended
  <2>4. WaitEffect(w)
    BY <2>1, <2>2 DEF WaitEffect, WaitPcs, Idle, l
  <2> QED BY <1>8, <2>1, <2>3, <2>4 DEF Effects
<1>26. CASE Cancel(w)
  <2>1. /\ Busy(w) /\ l.pc = "cancel" /\ UNCHANGED <<comfy, ws, missed>> /\ Same
        /\ \/ AfterCancel(w)
           \/ (Goto(w, "interrupt") \/ Goto(w, "delete")) /\ Kept
    BY <1>26 DEF Cancel, Busy, l
  <2>2. Goes /\ worker'[w].pc \in {"free", "idle", "interrupt", "delete"}
    BY <1>4, <1>9, <2>1 DEF GivenUp, Preparing, l
  <2>3. WaitEffect(w)
    BY <2>1, <2>2 DEF WaitEffect, WaitPcs, l
  <2> QED BY <1>8, <2>1, <2>2, <2>3 DEF Goes, Effects
<1>27. CASE Interrupt(w)
  <2>1. /\ Busy(w) /\ l.pc = "interrupt" /\ AfterCancel(w) /\ Same
        /\ UNCHANGED <<comfy, ws, missed>> \/ PromptEnds
    BY <1>27 DEF Interrupt, Busy, PromptEnds, Verdicts, l
  <2>2. ws'.conn = ws.conn
    BY <1>0, <2>1 DEF PromptEnds, Ends, Sockets
  <2>3. Goes /\ worker'[w].pc \in {"free", "idle"}
    BY <1>9, <2>1, <2>2 DEF Preparing, l
  <2>4. WaitEffect(w)
    BY <2>1, <2>3 DEF WaitEffect, WaitPcs, l
  <2> QED BY <2>1, <2>3, <2>4 DEF Goes, SidecarEffect, SocketEffect
<1>28. CASE Delete(w)
  <2>1. /\ Busy(w) /\ l.pc = "delete" /\ AfterCancel(w) /\ Same /\ UNCHANGED <<ws, missed>>
        /\ SidecarEffect
    BY <1>28 DEF Delete, Busy, SidecarEffect, l
  <2>2. Goes /\ worker'[w].pc \in {"free", "idle"}
    BY <1>9, <2>1 DEF Preparing, l
  <2>3. WaitEffect(w)
    BY <2>1, <2>2 DEF WaitEffect, WaitPcs, l
  <2> QED BY <2>1, <2>2, <2>3 DEF Goes, SocketEffect
<1>29. CASE Free(w)
  <2>1. /\ Busy(w) /\ l.pc = "free" /\ End(w, "timeout") /\ Same /\ UNCHANGED <<ws, missed>>
        /\ SidecarEffect
    BY <1>29 DEF Free, Busy, SidecarEffect, l
  <2>2. Goes /\ worker'[w].pc = "idle"
    BY <1>3, <2>1
  <2>3. WaitEffect(w)
    BY <2>1, <2>2 DEF WaitEffect, WaitPcs, l
  <2> QED BY <2>1, <2>2, <2>3 DEF Goes, SocketEffect
<1> QED BY <1>14, <1>15, <1>16, <1>17, <1>18, <1>19, <1>20, <1>21, <1>22, <1>23, <1>24, <1>25,
           <1>26, <1>27, <1>28, <1>29 DEF WorkerStep


\* A step of the sidecar, of the connection, or no step.
Quiet ==
    /\ UNCHANGED <<worker, outcome, lastModel, excused, pending>>
    /\ UNCHANGED resolved \/ \E p \in Jobs : Receive(p)

Works(w) == (GoesOn(w) \/ Ended(w) \/ \E j \in Jobs : Take(w, j)) /\ WaitEffect(w)

LEMMA StepKinds ==
    ASSUME TypeOK, SocketInv, \A w \in Workers : WorkerInv(w), [Next]_vars
    PROVE  /\ SidecarEffect /\ SocketEffect
           /\ Quiet \/ \E w \in Workers : Works(w)
<1>1. CASE UNCHANGED vars
  BY <1>1 DEF vars, SidecarEffect, SocketEffect, Quiet
<1>2. CASE Environment
  BY <1>2 DEF Environment, Start, Step, Finish, Drop, Receive, PromptEnds, Ends, SidecarEffect,
         SocketEffect, Quiet
<1>3. ASSUME NEW w \in Workers, WorkerStep(w) \/ CheckProgress(w) \/ Stall(w)
      PROVE  SidecarEffect /\ SocketEffect /\ Works(w)
  BY <1>3, WorkerKinds DEF Works
<1> QED BY <1>1, <1>2, <1>3 DEF Next, Quiescent


-----------------------------------------------------------------------------
(* The sidecar: a prompt is queued once, and a verdict is final.           *)

LEMMA SidecarMoves ==
    ASSUME TypeOK, SidecarInv, SidecarEffect,
           \A w \in Workers : Queues(w) => JobOf(w) \in Jobs /\ Fresh(JobOf(w))
    PROVE  /\ SidecarInv'
           /\ \A p \in Jobs : comfy.history[p] \in Verdicts =>
                 comfy'.history[p] = comfy.history[p]
           /\ \A p \in Jobs : comfy'.history[p] \in Verdicts /\ comfy.history[p] \notin Verdicts =>
                 PromptEnds /\ p = comfy.running
           /\ \A p \in Jobs : Fresh(p) =>
                 Fresh(p)' \/ \E w \in Workers : Queues(w) /\ JobOf(w) = p
<1> DEFINE q == comfy.queue
           run == comfy.running
           past == comfy.history
<1>0. /\ comfy \in Sidecars /\ q \in Seq(Jobs) /\ run \in Jobs \cup {NoJob}
      /\ past \in [Jobs -> History] /\ Queued = Contents(q) /\ NoJob \notin Jobs
      /\ Queued \subseteq Jobs
  <2>1. comfy \in Sidecars /\ NoJob \notin Jobs
    BY Typed, WaitAssumption
  <2>2. q \in Seq(Jobs) /\ run \in Jobs \cup {NoJob} /\ past \in [Jobs -> History]
    BY <2>1 DEF Sidecars
  <2>3. \A i \in DOMAIN q : q[i] \in Jobs
    BY <2>2, ElementOfSeq, LenProperties
  <2> QED BY <2>1, <2>2, <2>3 DEF Queued, Contents
<1>1. (Queued = Contents(comfy.queue))'
  BY DEF Queued, Contents
<1>2. /\ NoRepeat(q) /\ \A p \in Queued : p # run /\ past[p] = "none"
      /\ run # NoJob => past[run] \notin Verdicts
  BY DEF SidecarInv, NoRepeat
<1>3. ASSUME NoRepeat(q)', \A p \in Queued' : p # run' /\ past'[p] = "none",
             run' # NoJob => past'[run'] \notin Verdicts
      PROVE  SidecarInv'
  BY <1>3 DEF SidecarInv, NoRepeat
<1>4. "none" \notin Verdicts /\ "partial" \notin Verdicts
  BY DEF Verdicts
\* The history stays, and the queue gets no other prompt than p.
<1>5. ASSUME past' = past, run' = run \/ run' \in Queued, NEW new,
             Queued' \subseteq Queued \cup {new}
      PROVE  /\ \A p \in Jobs : past'[p] = past[p]
             /\ \A p \in Jobs : Fresh(p) => Fresh(p)' \/ p = new
  BY <1>5 DEF Fresh
<1>11. ASSUME past' = past, run' = run \/ run' \in Queued, Queued' \subseteq Queued
       PROVE  \A p \in Jobs : past'[p] = past[p] /\ (Fresh(p) => Fresh(p)')
  BY <1>11 DEF Fresh
<1> HIDE DEF q, run, past
<1>6. CASE UNCHANGED comfy \/ comfy' = freed
  <2>1. q' = q /\ run' = run /\ past' = past
    BY <1>6, FreedTyped DEF q, run, past
  <2>2. Queued' = Queued
    BY <1>0, <1>1, <2>1 DEF q
  <2>3. SidecarInv'
    BY <1>2, <1>3, <2>1, <2>2
  <2>4. \A p \in Jobs : past'[p] = past[p] /\ (Fresh(p) => Fresh(p)')
    BY <1>11, <2>1, <2>2
  <2> QED BY <2>3, <2>4 DEF past
<1>7. ASSUME NEW w \in Workers, Queues(w)
      PROVE  /\ SidecarInv'
             /\ \A p \in Jobs : past'[p] = past[p]
             /\ \A p \in Jobs : Fresh(p) => Fresh(p)' \/ JobOf(w) = p
  <2> DEFINE j == JobOf(w)
  <2>1. j \in Jobs /\ j \notin Queued /\ j # run /\ past[j] = "none"
    BY <1>7 DEF Fresh, run, past
  <2>2. q' = Append(q, j) /\ run' = run /\ past' = past
    BY <1>0, <1>7 DEF Queues, Sidecars, q, run, past
  <2> HIDE DEF j
  <2>3. Queued' \subseteq Queued \cup {j} /\ NoRepeat(q)'
    <3>1. /\ Contents(Append(q, j)) \subseteq Contents(q) \cup {j}
          /\ NoRepeat(Append(q, j))
      BY <1>0, <1>2, <2>1, Appended
    <3> QED BY <1>0, <1>1, <2>2, <3>1 DEF q, NoRepeat
  <2>4. SidecarInv'
    BY <1>2, <1>3, <2>1, <2>2, <2>3
  <2>5. \A p \in Jobs : past'[p] = past[p] /\ (Fresh(p) => Fresh(p)' \/ p = j)
    BY <1>5, <2>2, <2>3
  <2> QED BY <2>4, <2>5 DEF j
<1>8. CASE \E i \in DOMAIN comfy.queue : comfy' = [comfy EXCEPT !.queue = without(i)]
  <2>1. PICK i \in DOMAIN q : comfy' = [comfy EXCEPT !.queue = without(i)]
    BY <1>8 DEF q
  <2>2. q' = without(i) /\ run' = run /\ past' = past
    BY <1>0, <2>1 DEF Sidecars, q, run, past
  <2>3. Contents(without(i)) \subseteq Contents(q) /\ NoRepeat(without(i))
    BY <1>0, <1>2, Removed DEF without, q
  <2>4. Queued' \subseteq Queued /\ NoRepeat(q)'
    BY <1>0, <1>1, <2>2, <2>3 DEF q, NoRepeat
  <2>5. SidecarInv'
    BY <1>2, <1>3, <2>2, <2>4
  <2>6. \A p \in Jobs : past'[p] = past[p] /\ (Fresh(p) => Fresh(p)')
    BY <1>11, <2>2, <2>4
  <2> QED BY <2>5, <2>6 DEF past
<1>9. CASE Start
  <2>1. q # <<>> /\ run = NoJob
    BY <1>9 DEF Start, q, run
  <2>2. q' = Tail(q) /\ run' = Head(q) /\ past' = past
    BY <1>0, <1>9 DEF Start, Sidecars, q, run, past
  <2>3. /\ Contents(Tail(q)) \subseteq Contents(q) /\ NoRepeat(Tail(q))
        /\ Head(q) \in Contents(q) /\ Head(q) \notin Contents(Tail(q))
    BY <1>0, <1>2, <2>1, Shortened
  <2>4. /\ Queued' \subseteq Queued /\ NoRepeat(q)' /\ Head(q) \in Queued
        /\ Head(q) \notin Queued'
    BY <1>0, <1>1, <2>2, <2>3 DEF q, NoRepeat
  <2>5. SidecarInv'
    BY <1>2, <1>3, <1>4, <2>2, <2>4
  <2>6. \A p \in Jobs : past'[p] = past[p] /\ (Fresh(p) => Fresh(p)')
    BY <1>11, <2>2, <2>4
  <2> QED BY <2>5, <2>6 DEF past
<1>10. CASE Step \/ PromptEnds
  <2>1. run \in Jobs
    BY <1>0, <1>10 DEF Step, PromptEnds, run
  <2>2. /\ q' = q
        /\ \/ run' = run /\ past' = [past EXCEPT ![run] = "partial"]
           \/ PromptEnds /\ run' = NoJob /\ \E v : past' = [past EXCEPT ![run] = v]
    BY <1>0, <1>10 DEF Step, PromptEnds, Ends, Sidecars, q, run, past
  <2>3. \A p \in Jobs \ {run} : past'[p] = past[p]
    BY <1>0, <2>2
  <2>4. Queued' = Queued
    BY <1>0, <1>1, <2>2 DEF q
  <2>5. \A p \in Queued' : p # run' /\ past'[p] = "none"
    BY <1>0, <1>2, <2>2, <2>3, <2>4
  <2>6. run' # NoJob => past'[run'] \notin Verdicts
    BY <1>0, <1>4, <2>1, <2>2
  <2>7. NoRepeat(q)'
    BY <1>2, <2>2 DEF NoRepeat
  <2>8. SidecarInv'
    BY <1>3, <2>5, <2>6, <2>7
  <2>9. \A p \in Jobs : past[p] \in Verdicts => past'[p] = past[p]
    BY <1>2, <1>0, <2>1, <2>3
  <2>10. \A p \in Jobs : past'[p] \in Verdicts /\ past[p] \notin Verdicts =>
            PromptEnds /\ p = run
    BY <1>0, <1>4, <2>1, <2>2, <2>3
  <2>11. \A p \in Jobs : Fresh(p) => Fresh(p)'
    <3>1. \A p \in Jobs : Fresh(p) <=> p \notin Queued /\ run # p /\ past[p] = "none"
      BY DEF Fresh, run, past
    <3>2. \A p \in Jobs : Fresh(p)' <=> p \notin Queued' /\ run' # p /\ past'[p] = "none"
      BY DEF Fresh, run, past
    <3> QED BY <1>0, <2>2, <2>3, <2>4, <3>1, <3>2
  <2> QED BY <2>8, <2>9, <2>10, <2>11 DEF run, past
<1> QED BY <1>6, <1>7, <1>8, <1>9, <1>10 DEF SidecarEffect, past


\* A job that is being submitted is unknown to the sidecar.
LEMMA QueuesFresh ==
    ASSUME IInv, NEW w \in Workers, At(w, "submit")
    PROVE  JobOf(w) \in Jobs /\ Fresh(JobOf(w))
<1>1. Busy(w) /\ WorkerInv(w) /\ worker[w].pc \in Preparing
  BY DEF IInv, At, Busy, Preparing
<1>2. JobOf(w) \in Jobs /\ outcome[JobOf(w)] = "none" /\ JobInv(JobOf(w))
  BY <1>1, JobTyped DEF IInv, WorkerInv
<1>3. \A v \in Workers : JobOf(v) = JobOf(w) => v = w
  BY <1>1 DEF IInv, OneWorkerPerJob
<1> QED BY <1>1, <1>2, <1>3 DEF JobInv


-----------------------------------------------------------------------------
(* The connection: an event that can still come is of a prompt that is     *)
(* over, and none disappears without a trace.                              *)

LEMMA FaultsGrow ==
    ASSUME TypeOK, [Next]_vars
    PROVE  faults' \in Nat /\ faults \in Nat /\ faults' >= faults
<1>1. faults \in Nat
  BY Typed
<1>2. faults' = faults \/ Fault
  BY DEF Next, WorkerStep, Environment, Quiescent, vars, Take, Swap, Submit, Accept, Baseline,
         Connect, Return, ReaderDied, CheckProgress, RaiseStalled, Deadline, Poll, Fetch,
         Cancel, Interrupt, Delete, Free, Stall, Start, Step, Finish, Drop, Receive, NoFault
<1> QED BY <1>1, <1>2 DEF Fault

VerdictsAreFinal ==
    \A p \in Jobs : comfy.history[p] \in Verdicts => comfy'.history[p] = comfy.history[p]

NewVerdicts ==
    \A p \in Jobs : comfy'.history[p] \in Verdicts /\ comfy.history[p] \notin Verdicts =>
        PromptEnds /\ p = comfy.running

Accounted(p) ==
    comfy.history[p] \in Verdicts => p \in missed \cup ws.events \cup resolved

LEMMA EndNoted ==
    ASSUME TypeOK, PromptEnds
    PROVE  LET p == comfy.running IN
           /\ comfy'.history[p] \in Verdicts
           /\ \/ ws.up /\ ws'.up /\ ws'.events = ws.events \cup {p} /\ missed' = missed
              \/ ~ws.up /\ ws' = ws /\ missed' = missed \cup {p}
           /\ ws'.conn = ws.conn
BY Typed DEF PromptEnds, Ends, Sidecars, Sockets

LEMMA SocketMoves ==
    ASSUME TypeOK, SocketInv, SocketEffect, VerdictsAreFinal, [Next]_vars,
           resolved' \subseteq resolved \/ \E p \in Jobs : Receive(p)
    PROVE  SocketInv' /\ ws'.conn >= ws.conn
<1>0. /\ ws \in Sockets /\ ws.conn \in Nat /\ ws.events \subseteq Jobs /\ resolved \subseteq Jobs
      /\ faults \in Nat /\ faults' \in Nat /\ faults' >= faults
  <2>1. ws \in Sockets /\ resolved \subseteq Jobs /\ MaxFaults \in Nat
    BY Typed
  <2> QED BY <2>1, FaultsGrow DEF Sockets
<1>1. /\ ws'.conn >= ws.conn /\ (~ws'.up => ws'.events = {})
      /\ ws'.conn <= faults' + (IF ws'.up THEN 1 ELSE 0)
  <2>0. /\ ~ws.up => ws.events = {}
        /\ ws.conn <= faults + (IF ws.up THEN 1 ELSE 0)
    BY DEF SocketInv
  <2>1. CASE UNCHANGED ws \/ \E p \in Jobs : Receive(p)
    <3>1. ws'.up = ws.up /\ ws'.conn = ws.conn /\ ws'.events \subseteq ws.events
      BY <1>0, <2>1 DEF Receive, Sockets
    <3> QED BY <1>0, <2>0, <3>1
  <2>2. CASE Reconnects
    <3>1. ~ws.up /\ ws'.up /\ ws'.conn = ws.conn + 1
      BY <2>2 DEF Reconnects
    <3> QED BY <1>0, <2>0, <3>1
  <2>3. CASE PromptEnds
    <3>1. /\ ws'.conn = ws.conn /\ ws'.up = ws.up
          /\ ~ws'.up => ws'.events = ws.events
      BY <1>0, <2>3, EndNoted DEF Sockets
    <3> QED BY <1>0, <2>0, <3>1
  <2>4. CASE Drop
    <3>1. ~ws'.up /\ ws'.events = {} /\ ws'.conn = ws.conn /\ faults' = faults + 1
      BY <1>0, <2>4 DEF Drop, Fault, Sockets
    <3> QED BY <1>0, <2>0, <3>1
  <2> QED BY <2>1, <2>2, <2>3, <2>4 DEF SocketEffect
<1>2. ASSUME NEW p \in ws'.events \cup resolved'
      PROVE  comfy'.history[p] \in Verdicts
  <2>1. p \in ws.events \cup resolved \/ (PromptEnds /\ p = comfy.running)
    <3>1. \/ ws'.events \subseteq ws.events
          \/ PromptEnds /\ ws'.events \subseteq ws.events \cup {comfy.running}
      <4>1. CASE UNCHANGED ws
        BY <4>1
      <4>2. CASE Reconnects
        <5>1. ws'.events = {}
          BY <4>2 DEF Reconnects
        <5> QED BY <5>1
      <4>3. CASE PromptEnds
        <5>1. ws'.events \in {ws.events \cup {comfy.running}, ws.events}
          BY <4>3, EndNoted
        <5> QED BY <4>3, <5>1
      <4>4. CASE Drop
        <5>1. ws'.events = {}
          BY <1>0, <4>4 DEF Drop, Sockets
        <5> QED BY <5>1
      <4>5. CASE \E x \in Jobs : Receive(x)
        <5>1. PICK x \in Jobs : Receive(x)
          BY <4>5
        <5>2. ws'.events = ws.events \ {x}
          BY <1>0, <5>1 DEF Receive, Sockets
        <5> QED BY <5>2
      <4> QED BY <4>1, <4>2, <4>3, <4>4, <4>5 DEF SocketEffect
    <3>2. resolved' \subseteq resolved \cup ws.events
      BY DEF Receive
    <3> QED BY <1>2, <3>1, <3>2
  <2>2. CASE p \in ws.events \cup resolved
    BY <1>0, <2>2 DEF SocketInv, VerdictsAreFinal
  <2> QED BY <2>1, <2>2, EndNoted
<1> QED BY <1>1, <1>2 DEF SocketInv

LEMMA AccountedStays ==
    ASSUME TypeOK, SocketInv, SocketEffect, NewVerdicts, NEW p \in Jobs, Accounted(p),
           p \in resolved => p \in resolved'
    PROVE  Accounted(p)'
<1> SUFFICES ASSUME comfy'.history[p] \in Verdicts
             PROVE  p \in missed' \cup ws'.events \cup resolved'
  BY DEF Accounted
<1>0. ws \in Sockets
  BY Typed
<1>1. CASE PromptEnds /\ p = comfy.running
  BY <1>1, EndNoted
<1>2. CASE comfy.history[p] \in Verdicts
  <2>1. p \in missed \cup ws.events \cup resolved
    BY <1>2 DEF Accounted
  <2>2. CASE UNCHANGED <<ws, missed>> \/ PromptEnds
    BY <2>1, <2>2, EndNoted
  <2>3. CASE Reconnects
    BY <2>1, <2>3 DEF Reconnects, SocketInv
  <2>4. CASE Drop
    BY <2>1, <2>4 DEF Drop
  <2>5. CASE \E x \in Jobs : Receive(x)
    <3>1. PICK x \in Jobs : Receive(x)
      BY <2>5
    <3>2. ws'.events = ws.events \ {x}
      BY <1>0, <3>1 DEF Receive, Sockets
    <3> QED BY <2>1, <3>1, <3>2 DEF Receive
  <2> QED BY <2>2, <2>3, <2>4, <2>5 DEF SocketEffect
<1> QED BY <1>1, <1>2 DEF NewVerdicts

-----------------------------------------------------------------------------
(* Jobs and workers.                                                       *)

\* A worker that takes a job.
Takes(w, j) ==
    /\ Others(w) /\ ~Busy(w)
    /\ worker'[w].pc = (IF NeedsSwap(ModelOf[j]) THEN "swap" ELSE "submit")
    /\ worker'[w].job = j /\ worker'[w].why = worker[w].why
    /\ worker'[w].reader = worker[w].reader
    /\ outcome[j] = "none" /\ \A v \in Workers : JobOf(v) # j
    /\ excused' = (excused \/ \E v \in Workers \ {w} : Busy(v))
    /\ UNCHANGED <<comfy, ws, pending, resolved, outcome, lastModel, missed>>

LEMMA Taken ==
    ASSUME TypeOK, NEW w \in Workers, NEW j \in Jobs, Take(w, j)
    PROVE  Takes(w, j)
<1> DEFINE pc == IF NeedsSwap(ModelOf[j]) THEN "swap" ELSE "submit"
<1>1. worker' = [worker EXCEPT ![w].pc = pc, ![w].job = j]
  BY DEF Take
<1> HIDE DEF pc
<1>2. worker \in [Workers -> Locals]
  BY Typed
<1>3. /\ Others(w) /\ worker'[w].pc = pc /\ worker'[w].job = j
      /\ worker'[w].why = worker[w].why /\ worker'[w].reader = worker[w].reader
  BY <1>1, <1>2 DEF Others, Locals
<1> QED BY <1>3 DEF Take, Takes, At, Busy, pc

\* What a job's end does to the books.
LEMMA EndedTyped ==
    ASSUME TypeOK, NEW w \in Workers, Ended(w), WorkerInv(w)
    PROVE  /\ ~Busy(w)' /\ JobOf(w)' = NoJob /\ worker'[w].why = "none" /\ worker'[w].reader = 0
           /\ JobOf(w) \in Jobs /\ outcome'[JobOf(w)] # "none"
           /\ \A j \in Jobs \ {JobOf(w)} : outcome'[j] = outcome[j]
           /\ outcome'[JobOf(w)] = "completed" =>
                 Entry(w) = "success" /\ UNCHANGED comfy /\ lastModel' = ModelOf[JobOf(w)]
           /\ ~excused' => outcome'[JobOf(w)] = "completed" /\ ~excused
           /\ outcome'[JobOf(w)] = "unread" => At(w, "baseline") /\ UNCHANGED <<pending, resolved>>
<1>1. JobOf(w) \in Jobs /\ outcome \in [Jobs -> Outcomes]
  BY Typed, JobTyped DEF Ended
<1>2. PICK how \in {"completed", "timeout", "failed", "unread"} :
         /\ End(w, how)
         /\ how = "completed" => Entry(w) = "success" /\ UNCHANGED comfy
         /\ how = "unread" => At(w, "baseline") /\ UNCHANGED <<pending, resolved>>
  BY DEF Ended
<1>3. outcome'[JobOf(w)] = how /\ \A j \in Jobs \ {JobOf(w)} : outcome'[j] = outcome[j]
  BY <1>1, <1>2 DEF End
<1>4. worker'[w] = Idle
  BY DEF Ended
<1>5. ~Busy(w)' /\ JobOf(w)' = NoJob /\ worker'[w].why = "none" /\ worker'[w].reader = 0
  BY <1>4 DEF Idle, Busy, JobOf
<1>6. /\ how = "completed" => lastModel' = ModelOf[JobOf(w)]
      /\ how # "completed" => excused'
      /\ excused => excused'
  BY <1>2 DEF End
<1> QED BY <1>1, <1>2, <1>3, <1>5, <1>6

\* No job is given to a second worker.
LEMMA JobsStayApart ==
    ASSUME TypeOK, \A w \in Workers : WorkerInv(w), OneWorkerPerJob,
           Quiet \/ \E w \in Workers : Works(w)
    PROVE  OneWorkerPerJob'
<1>1. CASE Quiet
  BY <1>1 DEF Quiet, OneWorkerPerJob, JobOf, Busy
<1>2. ASSUME NEW w \in Workers, Works(w)
      PROVE  OneWorkerPerJob'
  <2>1. SUFFICES ASSUME NEW u \in Workers, NEW v \in Workers, JobOf(u)' = JobOf(v)', Busy(u)'
                 PROVE  u = v
    BY DEF OneWorkerPerJob
  <2>2. CASE GoesOn(w)
    <3>1. \A x \in Workers : JobOf(x)' = JobOf(x) /\ (Busy(x)' <=> Busy(x))
      BY <2>2 DEF GoesOn, Others, JobOf, Busy
    <3> QED BY <2>1, <3>1 DEF OneWorkerPerJob
  <2>3. CASE Ended(w)
    <3>1. \A x \in Workers \ {w} : JobOf(x)' = JobOf(x) /\ (Busy(x)' <=> Busy(x))
      BY <2>3 DEF Ended, Others, JobOf, Busy
    <3>2. ~Busy(w)' /\ JobOf(w)' = NoJob
      BY <2>3, EndedTyped
    <3>3. u # w /\ JobOf(u) # NoJob
      BY <2>1, <3>1, <3>2 DEF WorkerInv
    <3>4. v # w
      BY <2>1, <3>1, <3>2, <3>3
    <3> QED BY <2>1, <3>1, <3>3, <3>4 DEF OneWorkerPerJob
  <2>4. CASE \E j \in Jobs : Take(w, j)
    <3>1. PICK j \in Jobs : Takes(w, j)
      BY <2>4, Taken
    <3>2. \A x \in Workers \ {w} : JobOf(x)' = JobOf(x) /\ (Busy(x)' <=> Busy(x)) /\ JobOf(x) # j
      BY <3>1 DEF Takes, Others, JobOf, Busy
    <3>3. JobOf(w)' = j
      BY <3>1 DEF Takes, JobOf
    <3> QED BY <2>1, <3>2, <3>3 DEF OneWorkerPerJob
  <2> QED BY <1>2, <2>2, <2>3, <2>4 DEF Works
<1> QED BY <1>1, <1>2

\* _pending gains a future when a wait begins and loses it when the wait ends.

\* The workers that do not move keep what they had.
LEMMA OthersStay ==
    ASSUME TypeOK, NEW w \in Workers, Works(w)
    PROVE  \A v \in Workers \ {w} : worker'[v] = worker[v]
BY Taken DEF Works, GoesOn, Ended, Takes, Others

\* _pending gains a future when a wait begins and loses it when the wait ends.
LEMMA FuturesFollow ==
    ASSUME TypeOK, \A w \in Workers : WorkerInv(w), OneWorkerPerJob, FuturesMatchWaits,
           Quiet \/ \E w \in Workers : Works(w)
    PROVE  FuturesMatchWaits'
<1> DEFINE Waits(v, j) == worker[v].pc \in WaitPcs /\ JobOf(v) = j
           Unread(j) == j \in Jobs /\ outcome[j] = "unread"
<1>1. /\ \A j : j \in pending <=> (\E v \in Workers : Waits(v, j)) \/ Unread(j)
      /\ resolved \subseteq pending
  BY DEF FuturesMatchWaits
<1>2. ASSUME \A j : j \in pending' <=> (\E v \in Workers : Waits(v, j)') \/ Unread(j)',
             resolved' \subseteq pending'
      PROVE  FuturesMatchWaits'
  BY <1>2 DEF FuturesMatchWaits
<1>3. CASE Quiet
  <2>1. resolved' \subseteq resolved \cup pending
    BY <1>3 DEF Quiet, Receive
  <2>2. /\ pending' = pending /\ \A v, j : Waits(v, j)' <=> Waits(v, j)
        /\ \A j : Unread(j)' <=> Unread(j)
    BY <1>3 DEF Quiet, JobOf
  <2> HIDE DEF Waits, Unread
  <2> QED BY <1>1, <1>2, <2>1, <2>2
<1>4. ASSUME NEW w \in Workers, Works(w)
      PROVE  FuturesMatchWaits'
  <2>1. \A v \in Workers \ {w} : \A j : Waits(v, j)' <=> Waits(v, j)
    BY <1>4, OthersStay DEF JobOf
  <2>2. worker[w].pc \in WaitPcs =>
           (\A v \in Workers \ {w} : ~Waits(v, JobOf(w))) /\ ~Unread(JobOf(w))
    BY DEF OneWorkerPerJob, WorkerInv, Busy, WaitPcs
  <2>3. (worker[w].pc \in WaitPcs \/ At(w, "accept")) /\ worker'[w].pc \in WaitPcs =>
           JobOf(w)' = JobOf(w)
    <3>1. GoesOn(w) => JobOf(w)' = JobOf(w)
      BY DEF GoesOn, JobOf
    <3>2. Ended(w) => worker'[w].pc \notin WaitPcs
      BY EndedTyped DEF Busy, WaitPcs
    <3>3. (\E j \in Jobs : Take(w, j)) => worker'[w].pc \notin WaitPcs
      BY Taken DEF Takes, WaitPcs
    <3> QED BY <1>4, <3>1, <3>2, <3>3 DEF Works
  <2> DEFINE Leaks == /\ worker[w].pc \in WaitPcs /\ worker'[w].pc \notin WaitPcs
                      /\ UNCHANGED <<pending, resolved>>
                      /\ \A j : Unread(j)' <=> Unread(j) \/ j = JobOf(w)
  <2>4. (\A j : Unread(j)' <=> Unread(j)) \/ Leaks
    <3>1. CASE UNCHANGED outcome
      BY <3>1
    <3>2. CASE Ended(w)
      <4>1. /\ JobOf(w) \in Jobs /\ \A j \in Jobs \ {JobOf(w)} : outcome'[j] = outcome[j]
            /\ outcome'[JobOf(w)] = "unread" => At(w, "baseline") /\ UNCHANGED <<pending, resolved>>
            /\ ~Busy(w)' /\ outcome[JobOf(w)] = "none"
        BY <3>2, EndedTyped DEF WorkerInv, Ended
      <4> QED BY <4>1 DEF At, Busy, WaitPcs
    <3>3. GoesOn(w) \/ (\E j \in Jobs : Take(w, j)) => UNCHANGED outcome
      BY DEF GoesOn, Take
    <3> QED BY <1>4, <3>1, <3>2, <3>3 DEF Works
  <2>5. CASE Leaks
    <3>1. /\ \A j : ~Waits(w, j)' /\ (Waits(w, j) <=> j = JobOf(w))
          /\ \A j : Unread(j)' <=> Unread(j) \/ j = JobOf(w)
          /\ UNCHANGED <<pending, resolved>>
      BY <2>5
    <3> HIDE DEF Waits, Unread, Leaks
    <3>2. \A j : j \in pending' <=> (\E v \in Workers : Waits(v, j)') \/ Unread(j)'
      BY <1>1, <2>1, <3>1
    <3> QED BY <1>1, <1>2, <3>1, <3>2
  <2>6. ASSUME \A j : Unread(j)' <=> Unread(j)
        PROVE  FuturesMatchWaits'
    <3>1. CASE /\ worker'[w].pc \in WaitPcs <=> worker[w].pc \in WaitPcs
               /\ UNCHANGED <<pending, resolved>>
      <4>1. \A j : Waits(w, j)' <=> Waits(w, j)
        BY <2>3, <3>1
      <4> HIDE DEF Waits, Unread
      <4> QED BY <1>1, <1>2, <2>1, <2>6, <3>1, <4>1
    <3>2. CASE /\ worker[w].pc \in WaitPcs /\ worker'[w].pc \notin WaitPcs
               /\ LeaveWait(w)
      <4>1. \A j : ~Waits(w, j)' /\ (Waits(w, j) <=> j = JobOf(w))
        BY <3>2
      <4>2. (\A v \in Workers \ {w} : ~Waits(v, JobOf(w))) /\ ~Unread(JobOf(w))
        BY <2>2, <3>2
      <4>3. pending' = pending \ {JobOf(w)} /\ resolved' = resolved \ {JobOf(w)}
        BY <3>2 DEF LeaveWait
      <4> HIDE DEF Waits, Unread
      <4>4. \A j : j \in pending' <=> (\E v \in Workers : Waits(v, j)') \/ Unread(j)'
        BY <1>1, <2>1, <2>6, <4>1, <4>2, <4>3
      <4> QED BY <1>1, <1>2, <4>3, <4>4
    <3>3. CASE /\ At(w, "accept") /\ worker'[w].pc \in WaitPcs
               /\ pending' = pending \cup {JobOf(w)} /\ UNCHANGED resolved
      <4>1. \A j : Waits(w, j)' <=> j = JobOf(w)
        BY <2>3, <3>3
      <4>2. \A j : ~Waits(w, j)
        BY <3>3 DEF At, WaitPcs
      <4> HIDE DEF Waits, Unread
      <4>3. \A j : j \in pending' <=> (\E v \in Workers : Waits(v, j)') \/ Unread(j)'
        BY <1>1, <2>1, <2>6, <3>3, <4>1, <4>2
      <4> QED BY <1>1, <1>2, <3>3, <4>3
    <3>4. ~(At(w, "baseline") /\ outcome'[JobOf(w)] = "unread")
      <4>1. ASSUME At(w, "baseline")
            PROVE  JobOf(w) \in Jobs /\ ~Unread(JobOf(w))
        BY <2>2, <4>1, JobTyped DEF At, Busy, WaitPcs
      <4>2. ASSUME At(w, "baseline"), outcome'[JobOf(w)] = "unread"
            PROVE  FALSE
        BY <2>6, <4>1, <4>2
      <4> QED BY <4>2
    <3> QED BY <1>4, <3>1, <3>2, <3>3, <3>4 DEF Works, WaitEffect
  <2> QED BY <2>4, <2>5, <2>6
<1> QED BY <1>3, <1>4

-----------------------------------------------------------------------------
(* A step of the whole.                                                    *)

FreshStays ==
    \A p \in Jobs : Fresh(p) => Fresh(p)' \/ \E w \in Workers : Queues(w) /\ JobOf(w) = p

LEMMA StepFacts ==
    ASSUME IInv, [Next]_vars
    PROVE  /\ TypeOK /\ TypeOK' /\ SidecarInv' /\ SocketInv' /\ ws'.conn >= ws.conn
           /\ VerdictsAreFinal /\ NewVerdicts /\ FreshStays /\ SidecarEffect /\ SocketEffect
           /\ Quiet \/ \E w \in Workers : Works(w)
           /\ OneWorkerPerJob' /\ FuturesMatchWaits'
<1>1. /\ TypeOK /\ SidecarInv /\ SocketInv /\ OneWorkerPerJob /\ FuturesMatchWaits
      /\ \A w \in Workers : WorkerInv(w)
  BY DEF IInv
<1>2. TypeOK'
  BY <1>1, NextTypes
<1>3. SidecarEffect /\ SocketEffect /\ (Quiet \/ \E w \in Workers : Works(w))
  BY <1>1, StepKinds
<1>4. \A w \in Workers : Queues(w) => JobOf(w) \in Jobs /\ Fresh(JobOf(w))
  BY QueuesFresh DEF Queues
<1>5. SidecarInv' /\ VerdictsAreFinal /\ NewVerdicts /\ FreshStays
  BY <1>1, <1>3, <1>4, SidecarMoves DEF VerdictsAreFinal, NewVerdicts, FreshStays
<1>6. resolved' \subseteq resolved \/ \E p \in Jobs : Receive(p)
  BY <1>3 DEF Quiet, Works, WaitEffect, LeaveWait
<1>7. SocketInv' /\ ws'.conn >= ws.conn
  BY <1>1, <1>3, <1>5, <1>6, SocketMoves
<1>8. OneWorkerPerJob' /\ FuturesMatchWaits'
  BY <1>1, <1>3, JobsStayApart, FuturesFollow
<1> QED BY <1>1, <1>2, <1>3, <1>5, <1>7, <1>8

\* A job is reported completed on a successful verdict; until its prompt is
\* submitted the sidecar does not know it.
LEMMA JobStep ==
    ASSUME IInv, [Next]_vars, NEW j \in Jobs
    PROVE  JobInv(j)'
<1> USE StepFacts
<1>0. JobInv(j) /\ OneWorkerPerJob /\ \A w \in Workers : WorkerInv(w)
  BY DEF IInv
<1>1. ASSUME NEW w \in Workers, Works(w)
      PROVE  \/ Ended(w) /\ JobOf(w) = j
             \/ outcome'[j] = outcome[j]
  <2>1. GoesOn(w) => outcome' = outcome
    BY DEF GoesOn
  <2>2. (\E i \in Jobs : Take(w, i)) => outcome' = outcome
    BY DEF Take
  <2>3. Ended(w) => JobOf(w) = j \/ outcome'[j] = outcome[j]
    BY <1>0, EndedTyped
  <2> QED BY <1>1, <2>1, <2>2, <2>3 DEF Works
<1>2. ASSUME outcome'[j] = "completed"
      PROVE  comfy'.history[j] = "success"
  <2>1. CASE outcome[j] = "completed"
    BY <1>0, <2>1 DEF JobInv, VerdictsAreFinal, Verdicts
  <2>2. CASE outcome[j] # "completed"
    <3>1. PICK w \in Workers : Ended(w) /\ JobOf(w) = j
      BY <1>1, <1>2, <2>2 DEF Quiet
    <3>2. Entry(w) = "success" /\ UNCHANGED comfy
      BY <1>0, <1>2, <3>1, EndedTyped
    <3> QED BY <3>1, <3>2 DEF Entry
  <2> QED BY <2>1, <2>2
<1>3. ASSUME outcome'[j] = "none", \A w \in Workers : JobOf(w)' = j => worker'[w].pc \in Preparing
      PROVE  Fresh(j)'
  <2>1. ~ \E w \in Workers : Ended(w) /\ JobOf(w) = j
    BY <1>0, <1>3, EndedTyped
  <2>2. outcome[j] = "none"
    BY <1>1, <1>3, <2>1 DEF Quiet
  <2>3. \A w \in Workers : JobOf(w) = j =>
           worker'[w] = worker[w] \/ (GoesOn(w) /\ JobOf(w)' = j) \/ ~Busy(w)
    <3>1. SUFFICES ASSUME NEW w \in Workers, JobOf(w) = j, worker'[w] # worker[w]
                   PROVE  (GoesOn(w) /\ JobOf(w)' = j) \/ ~Busy(w)
      OBVIOUS
    <3>2. Works(w)
      BY <3>1, OthersStay DEF Quiet
    <3> QED BY <2>1, <3>1, <3>2, Taken DEF Works, GoesOn, JobOf, Takes
  <2>4. ASSUME NEW w \in Workers, JobOf(w) = j
        PROVE  worker[w].pc \in Preparing
    <3>1. CASE worker'[w] = worker[w]
      BY <1>3, <2>4, <3>1 DEF JobOf
    <3>2. CASE GoesOn(w) /\ JobOf(w)' = j
      BY <1>3, <3>2 DEF GoesOn, Preparing, At
    <3>3. CASE ~Busy(w)
      BY <3>3 DEF Busy, Preparing
    <3> QED BY <2>3, <2>4, <3>1, <3>2, <3>3
  <2>5. Fresh(j)
    BY <1>0, <2>2, <2>4 DEF JobInv
  <2>6. ASSUME NEW w \in Workers, Queues(w), JobOf(w) = j
        PROVE  FALSE
    <3>1. worker'[w].pc = "accept" /\ worker[w].pc = "submit"
      BY <2>1, <2>6 DEF Queues, At
    <3>2. JobOf(w)' = j
      BY <2>3, <2>6, <3>1 DEF Busy
    <3> QED BY <1>3, <3>1, <3>2 DEF Preparing
  <2> QED BY <2>5, <2>6 DEF FreshStays
<1> QED BY <1>2, <1>3 DEF JobInv

\* What a worker knows stays true under its own steps and under all others.
LEMMA WorkerStays ==
    ASSUME IInv, [Next]_vars, NEW w \in Workers
    PROVE  WorkerInv(w)'
<1> USE StepFacts
<1>0. /\ WorkerInv(w) /\ OneWorkerPerJob /\ \A v \in Workers : WorkerInv(v)
      /\ SocketInv /\ worker[w].reader \in Nat /\ ws.conn \in Nat /\ ws'.conn \in Nat
      /\ Busy(w) => JobOf(w) \in Jobs
  <2>1. worker[w] \in Locals /\ ws \in Sockets /\ MaxFaults \in Nat
    BY Typed
  <2>2. ws' \in Sockets
    BY DEF TypeOK, Sockets
  <2>3. worker[w].reader \in Nat /\ ws.conn \in Nat /\ ws'.conn \in Nat
    BY <2>1, <2>2 DEF Locals, Sockets
  <2> QED BY <2>3, JobTyped DEF IInv
\* The end of the awaited prompt stays accounted for.
<1>1. ASSUME Busy(w), Accounted(JobOf(w)), JobOf(w) \in resolved => JobOf(w) \in resolved'
      PROVE  Accounted(JobOf(w))'
             \/ JobOf(w)' # JobOf(w)
  <2>1. ASSUME NEW p \in Jobs, p = JobOf(w)
        PROVE  Accounted(p)'
    BY <1>0, <1>1, <2>1, AccountedStays
  <2>2. Accounted(JobOf(w))' \/ JobOf(w)' # JobOf(w)
    BY <1>0, <1>1, <2>1 DEF Accounted
  <2> QED BY <2>2
<1>2. CASE worker'[w] = worker[w] /\ ~ \E v \in Workers : Works(v) /\ v = w
  <2>1. JobOf(w)' = JobOf(w) /\ (Busy(w)' <=> Busy(w))
    BY <1>2 DEF JobOf, Busy
  <2>2. Busy(w) => outcome'[JobOf(w)] = "none"
    <3>1. SUFFICES ASSUME Busy(w)
                   PROVE  outcome'[JobOf(w)] = outcome[JobOf(w)]
      BY <1>0 DEF WorkerInv
    <3>2. CASE Quiet
      BY <3>2 DEF Quiet
    <3>3. ASSUME NEW v \in Workers, Works(v), v # w
          PROVE  outcome'[JobOf(w)] = outcome[JobOf(w)]
      <4>1. JobOf(v) # JobOf(w)
        BY <1>0, <3>1, <3>3 DEF OneWorkerPerJob
      <4>2. Ended(v) => outcome'[JobOf(w)] = outcome[JobOf(w)]
        BY <1>0, <3>1, <4>1, EndedTyped
      <4>3. GoesOn(v) => outcome' = outcome
        BY DEF GoesOn
      <4>4. (\E i \in Jobs : Take(v, i)) => outcome' = outcome
        BY DEF Take
      <4> QED BY <3>3, <4>2, <4>3, <4>4 DEF Works
    <3> QED BY <1>2, <3>2, <3>3
  <2>3. Busy(w) /\ JobOf(w) \in resolved => JobOf(w) \in resolved'
    <3>1. SUFFICES ASSUME Busy(w)
                   PROVE  JobOf(w) \in resolved => JobOf(w) \in resolved'
      OBVIOUS
    <3>2. CASE Quiet
      BY <3>2 DEF Quiet, Receive
    <3>3. ASSUME NEW v \in Workers, Works(v), v # w
          PROVE  JobOf(w) \in resolved => JobOf(w) \in resolved'
      <4>1. JobOf(v) # JobOf(w)
        BY <1>0, <3>1, <3>3 DEF OneWorkerPerJob
      <4> QED BY <3>3, <4>1 DEF Works, WaitEffect, LeaveWait
    <3> QED BY <1>2, <3>2, <3>3
  <2>4. Busy(w) /\ Entry(w) \in Verdicts => Entry(w)' = Entry(w)
    BY <1>0, <2>1 DEF VerdictsAreFinal, Entry
  <2>5. worker[w].pc \in Awaiting => Busy(w) /\ Accounted(JobOf(w))
    BY <1>0 DEF WorkerInv, Awaiting, WaitPcs, Busy, Accounted, Entry
  <2>6. worker[w].pc \in Awaiting => Accounted(JobOf(w))'
    BY <1>1, <2>1, <2>3, <2>5
  <2>7. worker[w].pc = "fetch" => Entry(w)' \in Verdicts
    BY <1>0, <2>4 DEF WorkerInv, Busy
  <2>8. worker'[w].reader <= ws'.conn
    BY <1>0, <1>2 DEF WorkerInv
  <2> QED BY <1>0, <1>2, <2>1, <2>2, <2>6, <2>7, <2>8 DEF WorkerInv, Accounted, Entry
<1>3. CASE Works(w)
  <2>1. CASE GoesOn(w)
    <3>1. JobOf(w)' = JobOf(w) /\ Busy(w)' /\ Busy(w) /\ outcome' = outcome
      BY <2>1 DEF GoesOn, JobOf, Busy
    <3>2. worker'[w].pc = "fetch" => Entry(w)' \in Verdicts
      BY <1>0, <2>1, <3>1 DEF GoesOn, VerdictsAreFinal, Entry
    <3>3. ASSUME worker'[w].pc \in Awaiting
          PROVE  Accounted(JobOf(w))'
      <4>1. Accounted(JobOf(w))
        <5>1. CASE worker[w].pc \in Awaiting
          BY <1>0, <5>1 DEF WorkerInv, Accounted, Entry
        <5>2. CASE At(w, "submit")
          BY <5>2, QueuesFresh DEF Fresh, Accounted, Verdicts
        <5> QED BY <2>1, <3>3, <5>1, <5>2 DEF GoesOn, Awaiting
      <4>2. resolved \subseteq resolved'
        BY <1>3, <2>1, <3>3 DEF Works, WaitEffect, GoesOn, Awaiting, At, WaitPcs
      <4> QED BY <1>1, <3>1, <4>1, <4>2
    <3>4. /\ worker'[w].pc \notin GivenUp => worker'[w].why = "none"
          /\ worker'[w].reader <= ws'.conn
      BY <2>1 DEF GoesOn
    <3> QED BY <1>0, <3>1, <3>2, <3>3, <3>4 DEF WorkerInv, Accounted, Entry, GivenUp
  <2>2. CASE Ended(w)
    <3>1. /\ ~Busy(w)' /\ JobOf(w)' = NoJob /\ worker'[w].why = "none" /\ worker'[w].reader = 0
      BY <1>0, <2>2, EndedTyped
    <3>2. 0 <= ws'.conn
      BY <1>0
    <3> QED BY <3>1, <3>2 DEF WorkerInv, Busy, Awaiting, WaitPcs
  <2>3. CASE \E j \in Jobs : Take(w, j)
    <3>1. PICK j \in Jobs : Takes(w, j)
      BY <2>3, Taken
    <3>2. /\ worker'[w].pc \in {"swap", "submit"} /\ JobOf(w)' = j /\ j # NoJob
          /\ outcome'[j] = "none" /\ worker'[w].why = worker[w].why
          /\ worker'[w].reader = worker[w].reader /\ ws'.conn = ws.conn /\ ~Busy(w)
      BY <3>1, WaitAssumption DEF Takes, JobOf
    <3>3. worker'[w].why = "none"
      BY <1>0, <3>2 DEF WorkerInv, Busy
    <3> QED BY <1>0, <3>2, <3>3 DEF WorkerInv, Busy, Awaiting, WaitPcs
  <2> QED BY <1>3, <2>1, <2>2, <2>3 DEF Works
<1>4. worker'[w] = worker[w] \/ Works(w)
  BY OthersStay DEF Quiet
<1> QED BY <1>2, <1>3, <1>4

-----------------------------------------------------------------------------
(* One model at a time.                                                    *)

\* While jobs come one after the other and none failed, a prompt the sidecar
\* has but has not finished belongs to the busy worker.
LEMMA PromptHasWorker ==
    ASSUME IInv, Serial, NEW p \in Jobs, p \in Queued \/ p = comfy.running
    PROVE  \E w \in Workers : JobOf(w) = p /\ worker[w].pc \notin Preparing
<1>1. JobInv(p) /\ SidecarInv /\ NoJob \notin Jobs
  BY WaitAssumption DEF IInv
<1>2. ~Fresh(p) /\ comfy.history[p] # "success"
  BY <1>1 DEF Fresh, SidecarInv, Verdicts
<1>3. outcome[p] = "none"
  BY <1>1, <1>2 DEF JobInv, Serial
<1> QED BY <1>1, <1>2, <1>3 DEF JobInv

\* POST /free keeps at most what was loaded.
LEMMA FreedLoads ==
    ASSUME IInv, Serial
    PROVE  freed.loaded \subseteq comfy.loaded
<1>1. comfy \in Sidecars
  BY Typed DEF IInv
<1>2. CASE comfy.loaded = {} \/ comfy.running = NoJob
  <2>1. freed.loaded = {}
    BY <1>1, <1>2 DEF freed, Sidecars
  <2> QED BY <2>1
<1>3. CASE comfy.loaded # {} /\ comfy.running # NoJob
  <2>1. freed.loaded = {ModelOf[comfy.running]}
    BY <1>1, <1>3 DEF freed, Sidecars
  <2>2. PICK w \in Workers : JobOf(w) = comfy.running /\ worker[w].pc \notin Preparing
    BY <1>1, <1>3, PromptHasWorker DEF Sidecars
  <2>3. comfy.loaded \subseteq {ModelOf[comfy.running]}
    BY <2>2 DEF Serial, Preparing
  <2> QED BY <1>3, <2>1, <2>3
<1> QED BY <1>2, <1>3

\* Only the start of a prompt loads a model.
LEMMA LoadedMoves ==
    ASSUME IInv, Serial, [Next]_vars
    PROVE  comfy'.loaded \subseteq comfy.loaded \/ Start
<1>1. comfy \in Sidecars /\ SidecarEffect
  BY Typed, StepFacts DEF IInv
<1>2. \A w \in Workers : Queues(w) => comfy'.loaded = comfy.loaded
  BY <1>1 DEF Queues, Sidecars
<1>3. (\E i \in DOMAIN comfy.queue : comfy' = [comfy EXCEPT !.queue = without(i)]) =>
         comfy'.loaded = comfy.loaded
  BY <1>1 DEF Sidecars
<1>4. Step \/ PromptEnds => comfy'.loaded = comfy.loaded
  BY <1>1 DEF Step, PromptEnds, Ends, Sidecars
<1>5. comfy' = freed => comfy'.loaded \subseteq comfy.loaded
  BY FreedLoads
<1> QED BY <1>1, <1>2, <1>3, <1>4, <1>5 DEF SidecarEffect

LEMMA SerialStays ==
    ASSUME IInv, [Next]_vars, ~excused'
    PROVE  Serial'
<1> USE StepFacts
<1>0. /\ OneWorkerPerJob /\ \A w \in Workers : WorkerInv(w)
      /\ comfy \in Sidecars /\ lastModel \in Models \cup {NoModel} /\ NoModel \notin Models
  BY Typed, WaitAssumption DEF IInv
<1>1. ~excused
  <2>1. Quiet => ~excused
    BY DEF Quiet
  <2>2. \A w \in Workers : GoesOn(w) => ~excused
    BY DEF GoesOn
  <2>3. \A w \in Workers : Ended(w) => ~excused
    BY <1>0, EndedTyped
  <2>4. \A w \in Workers, j \in Jobs : Take(w, j) => ~excused
    BY DEF Take
  <2> QED BY <2>1, <2>2, <2>3, <2>4 DEF Works
<1>2. Serial
  BY <1>1 DEF IInv
<1>3. CASE Start
  <2> DEFINE p == Head(comfy.queue)
  <2>1. /\ comfy'.loaded = comfy.loaded \cup {ModelOf[p]} /\ p \in Jobs /\ p \in Queued
        /\ UNCHANGED <<worker, outcome, lastModel>>
    <3>1. comfy.queue \in Seq(Jobs) /\ comfy.queue # <<>>
      BY <1>0, <1>3 DEF Start, Sidecars
    <3>2. p \in Jobs /\ p \in Queued
      BY <3>1, Shortened DEF Queued, Contents
    <3> HIDE DEF p
    <3>3. comfy'.loaded = comfy.loaded \cup {ModelOf[p]}
      BY <1>0, <1>3 DEF Start, Sidecars, p
    <3> QED BY <1>3, <3>2, <3>3 DEF Start
  <2> HIDE DEF p
  <2>2. PICK w \in Workers : JobOf(w) = p /\ worker[w].pc \notin Preparing
    BY <1>2, <2>1, PromptHasWorker
  <2>3. comfy'.loaded \subseteq {ModelOf[JobOf(w)]}
    BY <1>2, <2>1, <2>2 DEF Serial, Preparing
  <2>4. \A v \in Workers : v # w => worker[v].pc = "idle"
    BY <1>2, <2>2 DEF Serial, Busy, Preparing
  <2> QED BY <1>2, <2>1, <2>2, <2>3, <2>4 DEF Serial, Busy, JobOf, Preparing
<1>4. CASE Quiet /\ ~Start
  BY <1>2, <1>4, LoadedMoves DEF Serial, Quiet, Busy, JobOf
<1>5. ASSUME NEW w \in Workers, Works(w), ~Start
      PROVE  Serial'
  <2>0. comfy'.loaded \subseteq comfy.loaded /\ \A v \in Workers \ {w} : worker'[v] = worker[v]
    BY <1>2, <1>5, LoadedMoves, OthersStay
  <2>1. CASE GoesOn(w)
    <3>1. Busy(w) /\ JobOf(w)' = JobOf(w) /\ worker'[w].pc \notin {"idle", "swap"}
          /\ UNCHANGED <<outcome, lastModel>>
      BY <2>1 DEF GoesOn, JobOf
    <3>2. \A v \in Workers \ {w} : worker'[v].pc = "idle"
      BY <1>2, <2>0, <3>1 DEF Serial, Busy
    <3>3. comfy'.loaded \subseteq {ModelOf[JobOf(w)]}
      <4>1. CASE At(w, "swap")
        <5>1. comfy' = freed
          BY <2>1, <4>1 DEF GoesOn
        <5>2. comfy.running = NoJob
          <6>1. SUFFICES ASSUME comfy.running # NoJob
                         PROVE  FALSE
            OBVIOUS
          <6>2. PICK v \in Workers : worker[v].pc \notin Preparing
            BY <1>0, <1>2, <6>1, PromptHasWorker DEF Sidecars
          <6>3. v = w
            BY <1>2, <3>1, <6>2 DEF Serial, Busy, Preparing
          <6> QED BY <4>1, <6>2, <6>3 DEF At, Preparing
        <5>3. comfy'.loaded = {}
          BY <5>1, <5>2, FreedTyped
        <5> QED BY <5>3
      <4>2. CASE ~At(w, "swap")
        BY <1>2, <2>0, <3>1, <4>2 DEF Serial, Busy, At
      <4> QED BY <4>1, <4>2
    <3> QED BY <1>2, <3>1, <3>2, <3>3 DEF Serial, Busy
  <2>2. CASE Ended(w)
    <3>1. /\ ~Busy(w)' /\ Busy(w) /\ JobOf(w) \in Jobs
          /\ outcome'[JobOf(w)] = "completed" /\ Entry(w) = "success"
          /\ lastModel' = ModelOf[JobOf(w)]
          /\ \A j \in Jobs \ {JobOf(w)} : outcome'[j] = outcome[j]
      BY <1>0, <2>2, EndedTyped DEF Ended
    <3>2. \A v \in Workers : worker'[v].pc = "idle"
      BY <1>2, <2>0, <3>1 DEF Serial, Busy
    <3>3. worker[w].pc \notin Preparing
      <4>1. ASSUME worker[w].pc \in Preparing
            PROVE  Fresh(JobOf(w))
        <5>1. JobInv(JobOf(w)) /\ outcome[JobOf(w)] = "none"
          BY <1>0, <3>1 DEF IInv, WorkerInv
        <5>2. \A v \in Workers : JobOf(v) = JobOf(w) => v = w
          BY <1>0, <3>1 DEF OneWorkerPerJob
        <5> QED BY <4>1, <5>1, <5>2 DEF JobInv
      <4> QED BY <3>1, <4>1 DEF Fresh, Entry
    <3>4. comfy'.loaded \subseteq {lastModel'}
      BY <1>2, <2>0, <3>1, <3>3 DEF Serial, Preparing
    <3>5. \A j \in Jobs : outcome'[j] \in {"none", "completed"}
      BY <1>2, <3>1 DEF Serial
    <3> QED BY <3>2, <3>4, <3>5 DEF Serial, Busy
  <2>3. CASE \E j \in Jobs : Take(w, j)
    <3>1. PICK j \in Jobs : Takes(w, j)
      BY <2>3, Taken
    <3>2. /\ \A v \in Workers : worker[v].pc = "idle"
          /\ UNCHANGED <<comfy, outcome, lastModel>> /\ JobOf(w)' = j
      BY <3>1 DEF Takes, Busy, JobOf
    <3>3. comfy.loaded \subseteq {lastModel} /\ comfy.loaded \subseteq Models
      BY <1>0, <1>2, <3>2 DEF Serial, Sidecars
    <3>4. \A v \in Workers \ {w} : worker'[v].pc = "idle"
      BY <2>0, <3>2
    <3>5. CASE NeedsSwap(ModelOf[j])
      <4>1. worker'[w].pc = "swap"
        BY <3>1, <3>5 DEF Takes
      <4> QED BY <1>2, <3>2, <3>3, <3>4, <4>1 DEF Serial, Busy
    <3>6. CASE ~NeedsSwap(ModelOf[j])
      <4>1. worker'[w].pc = "submit"
        BY <3>1, <3>6 DEF Takes
      <4>2. comfy.loaded \subseteq {ModelOf[j]}
        BY <1>0, <3>3, <3>6 DEF NeedsSwap
      <4> QED BY <1>2, <3>2, <3>4, <4>1, <4>2 DEF Serial, Busy
    <3> QED BY <3>5, <3>6
  <2> QED BY <1>5, <2>1, <2>2, <2>3 DEF Works
<1> QED BY <1>3, <1>4, <1>5

-----------------------------------------------------------------------------
(* The invariant.                                                          *)

LEMMA InitInv == Init => IInv
<1> SUFFICES ASSUME Init
             PROVE  IInv
  OBVIOUS
<1> USE WaitAssumption DEF Init
<1>1. comfy \in Sidecars
  <2>1. <<>> \in Seq(Jobs) /\ [j \in Jobs |-> "none"] \in [Jobs -> History] /\ {} \in SUBSET Models
    BY EmptySeq DEF History
  <2> QED BY <2>1 DEF Sidecars
<1>2. ws \in Sockets
  <2>1. 0 \in 0..(MaxFaults + 1)
    OBVIOUS
  <2> QED BY <2>1 DEF Sockets
<1>3. worker \in [Workers -> Locals]
  BY IdleTyped
<1>4. TypeOK
  <2>1. outcome \in [Jobs -> Outcomes] /\ faults \in 0..MaxFaults
    BY DEF Outcomes
  <2> QED BY <1>1, <1>2, <1>3, <2>1 DEF TypeOK, Sidecars, Sockets, Locals
<1>5. Queued = {}
  <2>1. comfy.queue = <<>>
    OBVIOUS
  <2>2. DOMAIN comfy.queue = {}
    BY <2>1
  <2> QED BY <2>2 DEF Queued
<1>6. SidecarInv
  BY <1>5 DEF SidecarInv, Queued
<1>7. SocketInv
  BY DEF SocketInv
<1>8. \A j \in Jobs : JobInv(j)
  BY <1>5 DEF JobInv, Fresh
<1>9. \A w \in Workers : worker[w] = Idle /\ JobOf(w) = NoJob /\ ~Busy(w)
  BY DEF JobOf, Busy, Idle
<1>10. \A w \in Workers : WorkerInv(w)
  BY <1>9 DEF WorkerInv, Busy, Awaiting, WaitPcs, Idle
<1>11. OneWorkerPerJob
  BY <1>9 DEF OneWorkerPerJob
<1>12. FuturesMatchWaits
  BY <1>9 DEF FuturesMatchWaits, Busy, WaitPcs
<1>13. Serial
  BY <1>9 DEF Serial, Busy
<1> QED BY <1>4, <1>6, <1>7, <1>8, <1>10, <1>11, <1>12, <1>13 DEF IInv

LEMMA NextInv == IInv /\ [Next]_vars => IInv'
<1> SUFFICES ASSUME IInv, [Next]_vars
             PROVE  IInv'
  OBVIOUS
<1>1. TypeOK' /\ SidecarInv' /\ SocketInv' /\ OneWorkerPerJob' /\ FuturesMatchWaits'
  BY StepFacts
<1>2. \A j \in Jobs : JobInv(j)'
  BY JobStep
<1>3. \A w \in Workers : WorkerInv(w)'
  BY WorkerStays
<1>4. ~excused' => Serial'
  BY SerialStays
<1> QED BY <1>1, <1>2, <1>3, <1>4 DEF IInv

LEMMA Invariant == Spec => []IInv
BY InitInv, NextInv, PTL DEF Spec

-----------------------------------------------------------------------------
(* The theorems.                                                           *)

\* Sidecar, connection and workers keep their types; the connection counter in
\* particular stays within one connection more than there were faults.
THEOREM TypesHold == Spec => []TypeOK
<1>1. IInv => TypeOK
  BY DEF IInv
<1> QED BY <1>1, Invariant, PTL

\* worker.py reports a job completed only if the sidecar's history says success, and
\* fetches outputs only of a prompt that is over, whether the event, the polling or
\* another job's interrupt ended it.
THEOREM VerdictIsTrueHolds == Spec => []VerdictIsTrue
<1>1. IInv => VerdictIsTrue
  BY DEF IInv, JobInv, WorkerInv, VerdictIsTrue, At
<1> QED BY <1>1, Invariant, PTL

\* _pending holds exactly the futures of the waits in progress, for any number of
\* workers that share the adapter: the finally of wait_for_completion leaves none.
THEOREM FuturesMatchWaitsHolds == Spec => []FuturesMatchWaits
<1>1. IInv => FuturesMatchWaits
  BY DEF IInv
<1> QED BY <1>1, Invariant, PTL

\* Without a failed job, overlapping workers or an unverified unload, the swap that
\* worker.py makes when the model changes keeps two models from sharing VRAM.
THEOREM DoubleLoadExplainedHolds == Spec => []DoubleLoadExplained
<1>1. ASSUME IInv
      PROVE  DoubleLoadExplained
  <2>1. SUFFICES ASSUME ~excused
                 PROVE  ~(Cardinality(comfy.loaded) > 1)
    BY DEF DoubleLoadExplained
  <2>2. PICK m : comfy.loaded \subseteq {m}
    BY <1>1, <2>1 DEF IInv, Serial
  <2>3. IsFiniteSet({m}) /\ Cardinality({m}) = 1
    BY FS_Singleton
  <2>4. Cardinality(comfy.loaded) <= 1 /\ IsFiniteSet(comfy.loaded)
    BY <2>2, <2>3, FS_Subset
  <2>5. Cardinality(comfy.loaded) \in Nat
    BY <2>4, FS_CardinalityType
  <2> QED BY <2>4, <2>5
<1> QED BY <1>1, Invariant, PTL

\* The deadline of the websocket loop strikes a prompt that is over only if its event
\* came before the future was registered, was lost with a connection, or is unread.
THEOREM TimeoutMeansMissedHolds == Spec => TimeoutMeansMissed
<1> DEFINE Missed(w) ==
      (At(w, "wait") /\ worker'[w].why = "timeout" /\ Entry(w) \in Verdicts)
         => JobOf(w) \in missed \cup ws.events
<1>1. ASSUME IInv, [Next]_vars, NEW w \in Workers
      PROVE  Missed(w)
  <2>1. SUFFICES ASSUME At(w, "wait"), worker'[w].why = "timeout", Entry(w) \in Verdicts
                 PROVE  JobOf(w) \in missed \cup ws.events
    OBVIOUS
  <2>2. /\ WorkerInv(w) /\ worker[w].why = "none" /\ Busy(w) /\ JobOf(w) \in Jobs
        /\ worker \in [Workers -> Locals] /\ worker[w] \in Locals
    BY <1>1, <2>1, Typed, JobTyped DEF IInv, WorkerInv, At, Busy
  <2>3. JobOf(w) \in missed \cup ws.events \cup resolved
    BY <2>1, <2>2 DEF WorkerInv, At, Awaiting, WaitPcs
  <2>4. ASSUME NEW pc \in Pcs, Leaves(w, pc, "none")
        PROVE  FALSE
    <3> DEFINE new == [Idle EXCEPT !.pc = pc, !.job = JobOf(w), !.why = "none"]
    <3>1. new.why = "none"
      BY DEF Idle
    <3> HIDE DEF new
    <3>2. worker'[w] = new
      BY <1>1, <2>4, LocalMoves DEF Leaves, IInv, new
    <3> QED BY <2>1, <3>1, <3>2
  <2>5. worker'[w] # worker[w]
    BY <2>1, <2>2
  <2>6. WorkerStep(w) \/ CheckProgress(w) \/ Stall(w)
    <3>1. ~UNCHANGED worker
      BY <2>5
    <3>2. \E v \in Workers : WorkerStep(v) \/ CheckProgress(v) \/ Stall(v)
      BY <1>1, <3>1 DEF Next, Quiescent, vars, Environment, Start, Step, Finish, Drop, Receive
    <3>3. PICK v \in Workers : WorkerStep(v) \/ CheckProgress(v) \/ Stall(v)
      BY <3>2
    <3>4. Works(v)
      BY <1>1, <3>3, WorkerKinds DEF IInv, Works
    <3> QED BY <1>1, <2>5, <3>3, <3>4, OthersStay DEF IInv
  <2>7. "fetch" \in Pcs /\ "stalled" \in Pcs /\ "poll" \in Pcs
    BY DEF Pcs, WaitPcs
  <2>8. ~Return(w) /\ ~Stall(w)
    BY <2>4, <2>7 DEF Return, Stall
  <2>9. ~ReaderDied(w)
    <3>1. ~StartsPolling(w)
      BY <2>4, <2>7 DEF StartsPolling
    <3>2. worker' = [worker EXCEPT ![w].pc = "connect", ![w].tries = 1, ![w].reconnects = 1] =>
             worker'[w].why = worker[w].why
      BY <2>2 DEF Locals
    <3> QED BY <2>1, <2>2, <3>1, <3>2 DEF ReaderDied
  <2>10. ~CheckProgress(w)
    <3>1. ~Quit(w, "failed")
      BY <2>1, <2>2, LocalMoves DEF Quit, End, Idle
    <3> QED BY <2>1, <2>2, <3>1 DEF CheckProgress, NotesProgress, Locals
  <2>11. Deadline(w)
    BY <2>1, <2>6, <2>8, <2>9, <2>10 DEF At, WorkerStep, Take, Swap, Submit, Accept, Baseline,
           Connect, RaiseStalled, Poll, Fetch, Cancel, Interrupt, Delete, Free
  <2> QED BY <2>1, <2>3, <2>11 DEF Deadline, At
<1>2. IInv /\ [Next]_vars => [\A w \in Workers : Missed(w)]_vars
  BY <1>1
<1> QED BY <1>2, Invariant, PTL DEF Spec, TimeoutMeansMissed
=============================================================================
