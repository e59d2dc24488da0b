-------------------------- MODULE PreparationProofs --------------------------
(***************************************************************************)
(* What Preparation guarantees for every registry, disk and request.       *)
(*                                                                         *)
(* Validation reads of a registry only the configuration of the requested  *)
(* model, so the worker's second validation repeats the handler's unless   *)
(* that configuration or the LoRA files changed; and a job that passed it  *)
(* failed none of its checks, which are the limits of its model.  What     *)
(* load_registry has checked is what the injectors need to succeed, the    *)
(* graphs they build have no cycle if the templates have none, no step of  *)
(* a pipeline writes over the work another has filled in, the files are    *)
(* those of the model and the LoRAs are chained in order.                  *)
(***************************************************************************)
EXTENDS Preparation, SumTheorems, SequenceTheorems

-----------------------------------------------------------------------------
(* Lists of checks.                                                        *)

Elements(q) == {q[i] : i \in DOMAIN q}

\* Each check has an error code; no check is failed.
Coded(checks) == \A c \in Elements(checks) : c[1] # "ok"
NoneFailed(checks) == \A c \in Elements(checks) : ~c[2]

CheckList(checks) == checks \in Seq(Elements(checks)) /\ Coded(checks)

\* A list of checks gives "ok" only if none of them failed.
LEMMA FirstFailureSound ==
    ASSUME NEW checks, CheckList(checks), FirstFailure(checks) = "ok"
    PROVE  NoneFailed(checks)
<1> DEFINE failed == {i \in DOMAIN checks : checks[i][2]}
<1>1. SUFFICES ASSUME failed # {}
               PROVE  FALSE
  BY DEF NoneFailed, Elements
<1>2. failed \in SUBSET Nat
  BY LenProperties DEF CheckList
<1>3. \E m \in failed : \A n \in failed : m <= n
  BY <1>1, <1>2, LeastNat
<1>4. Min(failed) \in failed
  BY <1>3 DEF Min
<1>5. checks[Min(failed)][1] = "ok"
  BY <1>1 DEF FirstFailure
<1> QED BY <1>4, <1>5 DEF CheckList, Coded, Elements

\* Checks made one after the other.
LEMMA Joined ==
    ASSUME NEW S, NEW T, NEW a \in Seq(S), NEW b \in Seq(T)
    PROVE  /\ a \o b \in Seq(S \cup T)
           /\ Elements(a \o b) = Elements(a) \cup Elements(b)
<1> DEFINE c == a \o b
<1>1. a \in Seq(S \cup T) /\ b \in Seq(S \cup T)
  BY SeqDef
<1>2. /\ c \in Seq(S \cup T) /\ Len(c) = Len(a) + Len(b)
      /\ \A i \in 1..(Len(a) + Len(b)) : c[i] = IF i <= Len(a) THEN a[i] ELSE b[i - Len(a)]
  BY <1>1, ConcatProperties
<1>3. /\ Len(a) \in Nat /\ Len(b) \in Nat /\ DOMAIN a = 1..Len(a) /\ DOMAIN b = 1..Len(b)
      /\ DOMAIN c = 1..(Len(a) + Len(b))
  BY <1>1, <1>2, LenProperties
<1> HIDE DEF c
<1>4. \A i \in DOMAIN a : i \in DOMAIN c /\ c[i] = a[i]
  BY <1>2, <1>3
<1>5. ASSUME NEW i \in DOMAIN b
      PROVE  i + Len(a) \in DOMAIN c /\ c[i + Len(a)] = b[i]
  <2>1. i + Len(a) \in 1..(Len(a) + Len(b)) /\ ~(i + Len(a) <= Len(a)) /\ (i + Len(a)) - Len(a) = i
    BY <1>3, <1>5
  <2> QED BY <1>2, <1>3, <2>1
<1>6. ASSUME NEW i \in DOMAIN c
      PROVE  c[i] \in Elements(a) \cup Elements(b)
  <2>1. CASE i <= Len(a)
    <3>1. i \in DOMAIN a /\ c[i] = a[i]
      BY <1>2, <1>3, <1>6, <2>1
    <3> QED BY <3>1 DEF Elements
  <2>2. CASE ~(i <= Len(a))
    <3>1. i - Len(a) \in DOMAIN b /\ c[i] = b[i - Len(a)]
      BY <1>2, <1>3, <1>6, <2>2
    <3> QED BY <3>1 DEF Elements
  <2> QED BY <2>1, <2>2
<1>7. Elements(c) \subseteq Elements(a) \cup Elements(b)
  BY <1>6 DEF Elements
<1>8. Elements(a) \subseteq Elements(c)
  BY <1>4 DEF Elements
<1>9. Elements(b) \subseteq Elements(c)
  BY <1>5 DEF Elements
<1> QED BY <1>2, <1>7, <1>8, <1>9 DEF c

\* LoRA names that pass are inside the root and on disk.
LEMMA LorasChecked ==
    ASSUME NEW names \in Seq(STRING), NEW loras
    PROVE  LET checks == resolve_loras_for_job(names, loras) IN
           /\ CheckList(checks)
           /\ NoneFailed(checks) => \A l \in Elements(names) : l \notin Outside /\ l \in loras
<1> DEFINE checks == resolve_loras_for_job(names, loras)
<1>1. /\ DOMAIN names = 1..Len(names) /\ Len(names) \in Nat
  BY LenProperties
<1> DEFINE check(i) == IF names[i] \in Outside THEN <<"validation_error", TRUE>>
                       ELSE <<"lora_missing", names[i] \notin loras>>
<1>2. checks = [i \in 1..Len(names) |-> check(i)]
  BY <1>1 DEF resolve_loras_for_job
<1> HIDE DEF checks
<1>3. /\ DOMAIN checks = 1..Len(names)
      /\ \A i \in 1..Len(names) : checks[i] = check(i)
  BY <1>2
<1>4. checks \in Seq(Elements(checks))
  <2>1. \A i \in 1..Len(names) : check(i) \in Elements(checks)
    BY <1>3 DEF Elements
  <2> HIDE DEF check
  <2>2. checks \in [1..Len(names) -> Elements(checks)]
    BY <1>2, <2>1
  <2> QED BY <1>1, <2>2, SeqDef
<1>5. ASSUME NEW i \in 1..Len(names)
      PROVE  check(i)[1] # "ok" /\ (~check(i)[2] => names[i] \notin Outside /\ names[i] \in loras)
  <2>1. CASE names[i] \in Outside
    <3>1. check(i) = <<"validation_error", TRUE>>
      BY <2>1
    <3> HIDE DEF check
    <3> QED BY <3>1
  <2>2. CASE names[i] \notin Outside
    <3>1. check(i) = <<"lora_missing", names[i] \notin loras>>
      BY <2>2
    <3> HIDE DEF check
    <3>2. check(i)[1] = "lora_missing" /\ check(i)[2] = (names[i] \notin loras)
      BY <3>1
    <3> QED BY <2>2, <3>2
  <2> QED BY <2>1, <2>2
<1> HIDE DEF check
<1>6. Coded(checks)
  BY <1>3, <1>5 DEF Coded, Elements
<1>7. ASSUME NoneFailed(checks), NEW i \in DOMAIN names
      PROVE  names[i] \notin Outside /\ names[i] \in loras
  <2>1. ~checks[i][2] /\ checks[i] = check(i)
    BY <1>1, <1>3, <1>7 DEF NoneFailed, Elements
  <2> QED BY <1>1, <1>5, <1>7, <2>1
<1>8. NoneFailed(checks) => \A l \in Elements(names) : l \notin Outside /\ l \in loras
  BY <1>7 DEF Elements
<1> QED BY <1>4, <1>6, <1>8 DEF CheckList, checks

LEMMA ChecksJoin ==
    ASSUME NEW a, NEW b, CheckList(a), CheckList(b)
    PROVE  /\ CheckList(a \o b)
           /\ NoneFailed(a \o b) => NoneFailed(a) /\ NoneFailed(b)
<1>1. /\ a \o b \in Seq(Elements(a) \cup Elements(b))
      /\ Elements(a \o b) = Elements(a) \cup Elements(b)
  <2> DEFINE S == Elements(a)
             T == Elements(b)
  <2>1. a \in Seq(S) /\ b \in Seq(T)
    BY DEF CheckList
  <2> HIDE DEF S, T
  <2>2. a \o b \in Seq(S \cup T) /\ Elements(a \o b) = Elements(a) \cup Elements(b)
    BY ONLY <2>1, Joined
  <2> QED BY <2>2 DEF S, T
<1>2. Coded(a \o b)
  <2>1. (\A c \in Elements(a) : c[1] # "ok") /\ (\A c \in Elements(b) : c[1] # "ok")
    BY DEF CheckList, Coded
  <2>2. \A c \in Elements(a \o b) : c[1] # "ok"
    BY <1>1, <2>1
  <2> QED BY <2>2 DEF Coded
<1>3. CheckList(a \o b)
  BY <1>1, <1>2 DEF CheckList
<1>4. NoneFailed(a \o b) => NoneFailed(a) /\ NoneFailed(b)
  BY <1>1 DEF NoneFailed
<1> QED BY <1>3, <1>4

\* Lists of checks written out.
LEMMA OneCheck ==
    ASSUME NEW c1,
           \A c \in {c1} : c[1] # "ok"
    PROVE  /\ CheckList(<<c1>>)
           /\ NoneFailed(<<c1>>) => \A c \in {c1} : ~c[2]
<1> DEFINE q == <<c1>>
           e == {c1}
<1>1. Elements(q) = e
  BY DEF Elements
<1>2. q \in Seq(e) /\ \A c \in e : c[1] # "ok"
  OBVIOUS
<1> HIDE DEF q, e
<1>3. CheckList(q) /\ (NoneFailed(q) => \A c \in e : ~c[2])
  BY <1>1, <1>2 DEF CheckList, Coded, NoneFailed
<1> QED BY <1>3 DEF q, e

LEMMA ThreeChecks ==
    ASSUME NEW c1, NEW c2, NEW c3,
           \A c \in {c1, c2, c3} : c[1] # "ok"
    PROVE  /\ CheckList(<<c1, c2, c3>>)
           /\ NoneFailed(<<c1, c2, c3>>) => \A c \in {c1, c2, c3} : ~c[2]
<1> DEFINE q == <<c1, c2, c3>>
           e == {c1, c2, c3}
<1>1. Elements(q) = e
  BY DEF Elements
<1>2. q \in Seq(e) /\ \A c \in e : c[1] # "ok"
  OBVIOUS
<1> HIDE DEF q, e
<1>3. CheckList(q) /\ (NoneFailed(q) => \A c \in e : ~c[2])
  BY <1>1, <1>2 DEF CheckList, Coded, NoneFailed
<1> QED BY <1>3 DEF q, e

LEMMA SixChecks ==
    ASSUME NEW c1, NEW c2, NEW c3, NEW c4, NEW c5, NEW c6,
           \A c \in {c1, c2, c3, c4, c5, c6} : c[1] # "ok"
    PROVE  /\ CheckList(<<c1, c2, c3, c4, c5, c6>>)
           /\ NoneFailed(<<c1, c2, c3, c4, c5, c6>>) => \A c \in {c1, c2, c3, c4, c5, c6} : ~c[2]
<1> DEFINE q == <<c1, c2, c3, c4, c5, c6>>
           e == {c1, c2, c3, c4, c5, c6}
<1>1. Elements(q) = e
  BY DEF Elements
<1>2. q \in Seq(e) /\ \A c \in e : c[1] # "ok"
  OBVIOUS
<1> HIDE DEF q, e
<1>3. CheckList(q) /\ (NoneFailed(q) => \A c \in e : ~c[2])
  BY <1>1, <1>2 DEF CheckList, Coded, NoneFailed
<1> QED BY <1>3 DEF q, e

LEMMA EightChecks ==
    ASSUME NEW c1, NEW c2, NEW c3, NEW c4, NEW c5, NEW c6, NEW c7, NEW c8,
           \A c \in {c1, c2, c3, c4, c5, c6, c7, c8} : c[1] # "ok"
    PROVE  /\ CheckList(<<c1, c2, c3, c4, c5, c6, c7, c8>>)
           /\ NoneFailed(<<c1, c2, c3, c4, c5, c6, c7, c8>>) =>
                 \A c \in {c1, c2, c3, c4, c5, c6, c7, c8} : ~c[2]
<1> DEFINE q == <<c1, c2, c3, c4, c5, c6, c7, c8>>
           e == {c1, c2, c3, c4, c5, c6, c7, c8}
<1>1. Elements(q) = e
  BY DEF Elements
<1>2. q \in Seq(e) /\ \A c \in e : c[1] # "ok"
  OBVIOUS
<1> HIDE DEF q, e
<1>3. CheckList(q) /\ (NoneFailed(q) => \A c \in e : ~c[2])
  BY <1>1, <1>2 DEF CheckList, Coded, NoneFailed
<1> QED BY <1>3 DEF q, e

-----------------------------------------------------------------------------
(* What an accepted request satisfies.                                     *)

\* The checks that images and videos share, on the job.
WithinBudget(v, loras) ==
    /\ v.loras \in Seq(STRING)
    /\ ~(v.model.vram + LoraVram * Len(v.loras) > VramBudget)
    /\ \A l \in Elements(v.loras) : l \notin Outside /\ l \in loras

ImagePixels(m) == Given(m.limits.size_max_pixels, 1048576)
VideoPixels(m) == Given(m.limits.size_max_pixels, 1920 * 1080)

ImageObeys(v, loras) ==
    LET m == v.model IN
    /\ v.sampler \in AllowedSamplers(m.family) /\ v.scheduler \in AllowedSchedulers(m.family)
    /\ ~(v.pixels > ImagePixels(m))
    /\ ~(v.n > Given(m.limits.n_max, 1))
    /\ ~(v.steps > Given(m.limits.steps_max, 50))
    /\ v.workflow = m.workflow
    /\ WithinBudget(v, loras)

VideoObeys(r, v, task, loras) ==
    LET m == v.model IN
    /\ ~(r.frames > Given(m.limits.frames_max, 241))
    /\ m.video_gen /\ m.task = task /\ m.family \in VideoFamilies
    /\ v.scheduler \notin Malformed
    /\ ~(v.pixels > VideoPixels(m))
    /\ ~(v.steps > Given(m.limits.steps_max, 50))
    /\ (task = "i2v" => v.init_image)
    /\ (task = "t2v" /\ v.init_image => m.family = "ltxv")
    /\ (task = "t2v" => v.wan_advanced \cap {"encode", "clip_encode"} = {})
    /\ \/ v.workflow = m.workflow
       \/ m.workflow_with_audio # None /\ v.workflow = m.workflow_with_audio
    /\ WithinBudget(v, loras)

\* resolve_and_validate accepts only what obeys the limits of the model in the registry.
LEMMA ImageAccepted ==
    ASSUME NEW r, NEW models, NEW loras, r.loras \in Seq(STRING),
           resolve_and_validate(r, models, loras).code = "ok"
    PROVE  LET v == resolve_and_validate(r, models, loras).job IN
           /\ r.model \in DOMAIN models /\ v.model = models[r.model]
           /\ ImageObeys(v, loras)
<1> DEFINE m == models[r.model]
           v == [model |-> m, pixels |-> r.pixels, n |-> r.n, steps |-> ImageSteps(r, m),
                 sampler |-> ImageSampler(r, m), scheduler |-> ImageScheduler(r, m),
                 seed |-> r.seed, loras |-> r.loras, workflow |-> m.workflow,
                 init_image |-> r.init_image = "good"]
           values == << <<"validation_error", ImageSampler(r, m) \notin AllowedSamplers(m.family)>>,
                <<"validation_error", ImageScheduler(r, m) \notin AllowedSchedulers(m.family)>>,
                <<"validation_error", r.pixels > ImagePixels(m)>>,
                <<"validation_error", r.n > Given(m.limits.n_max, 1)>>,
                <<"validation_error", ImageSteps(r, m) > Given(m.limits.steps_max, 50)>>,
                <<"async_not_enabled", r.mode = "async" /\ ~AsyncEnabled>> >>
           hook == WebhookChecks(r)
           names == resolve_loras_for_job(r.loras, loras)
           vram == VramCheck(m, r.loras)
           init == << <<"validation_error", r.init_image = "bad">> >>
<1>1. CheckList(values) /\
      (NoneFailed(values) =>
         /\ ImageSampler(r, m) \in AllowedSamplers(m.family)
         /\ ImageScheduler(r, m) \in AllowedSchedulers(m.family)
         /\ ~(r.pixels > ImagePixels(m))
         /\ ~(r.n > Given(m.limits.n_max, 1))
         /\ ~(ImageSteps(r, m) > Given(m.limits.steps_max, 50)))
  <2> HIDE DEF m
  <2> DEFINE c1 == <<"validation_error", ImageSampler(r, m) \notin AllowedSamplers(m.family)>>
             c2 == <<"validation_error", ImageScheduler(r, m) \notin AllowedSchedulers(m.family)>>
             c3 == <<"validation_error", r.pixels > ImagePixels(m)>>
             c4 == <<"validation_error", r.n > Given(m.limits.n_max, 1)>>
             c5 == <<"validation_error", ImageSteps(r, m) > Given(m.limits.steps_max, 50)>>
             c6 == <<"async_not_enabled", r.mode = "async" /\ ~AsyncEnabled>>
  <2>1. values = <<c1, c2, c3, c4, c5, c6>>
    OBVIOUS
  <2>2. \A c \in {c1, c2, c3, c4, c5, c6} : c[1] # "ok"
    OBVIOUS
  <2>3. /\ c1[2] = (ImageSampler(r, m) \notin AllowedSamplers(m.family))
        /\ c2[2] = (ImageScheduler(r, m) \notin AllowedSchedulers(m.family))
        /\ c3[2] = (r.pixels > ImagePixels(m))
        /\ c4[2] = (r.n > Given(m.limits.n_max, 1))
        /\ c5[2] = (ImageSteps(r, m) > Given(m.limits.steps_max, 50))
    OBVIOUS
  <2> HIDE DEF values, c1, c2, c3, c4, c5, c6
  <2>4. /\ CheckList(<<c1, c2, c3, c4, c5, c6>>)
        /\ NoneFailed(<<c1, c2, c3, c4, c5, c6>>) => \A c \in {c1, c2, c3, c4, c5, c6} : ~c[2]
    BY <2>2, SixChecks
  <2>5. NoneFailed(values) => ~c1[2] /\ ~c2[2] /\ ~c3[2] /\ ~c4[2] /\ ~c5[2]
    BY <2>1, <2>4
  <2> QED BY <2>1, <2>3, <2>4, <2>5
<1>2. CheckList(hook) /\ CheckList(vram) /\ CheckList(init)
      /\ (NoneFailed(vram) => ~(m.vram + LoraVram * Len(r.loras) > VramBudget))
  <2> HIDE DEF m
  <2> DEFINE c1 == <<"validation_error", r.webhook = "bad">>
             c2 == <<"vram_budget_exceeded", m.vram + LoraVram * Len(r.loras) > VramBudget>>
             c3 == <<"validation_error", r.init_image = "bad">>
  <2>1. hook = <<c1>> /\ vram = <<c2>> /\ init = <<c3>>
    BY DEF WebhookChecks, VramCheck
  <2>2. c1[1] # "ok" /\ c2[1] # "ok" /\ c3[1] # "ok"
    OBVIOUS
  <2>3. c2[2] = (m.vram + LoraVram * Len(r.loras) > VramBudget)
    OBVIOUS
  <2> HIDE DEF hook, vram, init, c1, c2, c3
  <2>4. \A c : c[1] # "ok" => CheckList(<<c>>) /\ (NoneFailed(<<c>>) => ~c[2])
    <3> SUFFICES ASSUME NEW c, c[1] # "ok"
                 PROVE  CheckList(<<c>>) /\ (NoneFailed(<<c>>) => ~c[2])
      OBVIOUS
    <3>1. \A d \in {c} : d[1] # "ok"
      OBVIOUS
    <3> QED BY <3>1, OneCheck
  <2> QED BY <2>1, <2>2, <2>3, <2>4
<1>3. CheckList(names) /\
      (NoneFailed(names) => \A l \in Elements(r.loras) : l \notin Outside /\ l \in loras)
  BY LorasChecked
<1>4. ImageChecks(r, m, loras) = values \o hook \o names \o vram \o init
  BY SMT DEF ImageChecks, ImagePixels
<1> HIDE DEF values, hook, names, vram, init
<1>5. /\ CheckList(values \o hook \o names \o vram \o init)
      /\ NoneFailed(values \o hook \o names \o vram \o init) =>
            NoneFailed(values) /\ NoneFailed(names) /\ NoneFailed(vram)
  <2>1. /\ CheckList(values \o hook)
        /\ NoneFailed(values \o hook) => NoneFailed(values)
    BY <1>1, <1>2, ChecksJoin
  <2>2. /\ CheckList((values \o hook) \o names)
        /\ NoneFailed((values \o hook) \o names) => NoneFailed(values \o hook) /\ NoneFailed(names)
    BY <1>3, <2>1, ChecksJoin
  <2>3. /\ CheckList(values \o hook \o names \o vram)
        /\ NoneFailed(values \o hook \o names \o vram) =>
              NoneFailed(values \o hook \o names) /\ NoneFailed(vram)
    BY <1>2, <2>2, ChecksJoin
  <2>4. /\ CheckList(values \o hook \o names \o vram \o init)
        /\ NoneFailed(values \o hook \o names \o vram \o init) =>
              NoneFailed(values \o hook \o names \o vram)
    BY <1>2, <2>3, ChecksJoin
  <2> QED BY <2>1, <2>2, <2>3, <2>4
<1>6. /\ r.model \in DOMAIN models /\ FirstFailure(ImageChecks(r, m, loras)) = "ok"
      /\ resolve_and_validate(r, models, loras).job = v
  BY DEF resolve_and_validate, Rejected, Accepted
<1>7. NoneFailed(values) /\ NoneFailed(names) /\ NoneFailed(vram)
  BY <1>4, <1>5, <1>6, FirstFailureSound
<1>8. /\ v.model = m /\ v.pixels = r.pixels /\ v.n = r.n /\ v.steps = ImageSteps(r, m)
      /\ v.sampler = ImageSampler(r, m) /\ v.scheduler = ImageScheduler(r, m)
      /\ v.loras = r.loras /\ v.workflow = m.workflow
  OBVIOUS
<1> HIDE DEF v
<1>9. ImageObeys(v, loras)
  BY <1>1, <1>2, <1>3, <1>7, <1>8 DEF ImageObeys, WithinBudget
<1> QED BY <1>6, <1>8, <1>9 DEF m

\* resolve_and_validate_video accepts only what obeys the limits of the model; the
\* model's own LoRAs count too.
LEMMA VideoAccepted ==
    ASSUME NEW r, NEW models, NEW task, NEW loras, r.loras \in Seq(STRING),
           r.model \in DOMAIN models => models[r.model].default_loras \in Seq(STRING),
           resolve_and_validate_video(r, models, task, loras).code = "ok"
    PROVE  LET v == resolve_and_validate_video(r, models, task, loras).job IN
           /\ r.model \in DOMAIN models /\ v.model = models[r.model]
           /\ VideoObeys(r, v, task, loras)
<1> DEFINE m == models[r.model]
           all == VideoLoras(r, m)
           v == [model |-> m, pixels |-> r.pixels, steps |-> VideoSteps(r, m),
                 scheduler |-> VideoScheduler(r, m), seed |-> r.seed,
                 frames |-> IF m.family = "ltxv" THEN normalize_ltxv_num_frames(r.frames)
                            ELSE normalize_wan_num_frames(r.frames),
                 loras |-> all, wan_advanced |-> r.wan_advanced,
                 workflow |-> IF r.generate_audio THEN m.workflow_with_audio ELSE m.workflow,
                 init_image |-> r.init_image = "good"]
           values == << <<"validation_error", ~m.video_gen>>,
                        <<"validation_error", m.task # task>>,
                        <<"validation_error", m.family \notin VideoFamilies>>,
                        <<"validation_error", r.frames > Given(m.limits.frames_max, 241)>>,
                        <<"validation_error", VideoSteps(r, m) > Given(m.limits.steps_max, 50)>>,
                        <<"validation_error", VideoScheduler(r, m) \in Malformed>>,
                        <<"validation_error", r.pixels > VideoPixels(m)>>,
                        <<"async_not_enabled", r.mode = "async" /\ ~AsyncEnabled>> >>
           hook == WebhookChecks(r)
           images == << <<"validation_error", r.init_image = "bad">>,
                        <<"validation_error", task = "i2v" /\ r.init_image # "good">>,
                        <<"validation_error",
                          task = "t2v" /\ r.init_image = "good" /\ m.family # "ltxv">> >>
           asked == resolve_loras_for_job(r.loras, loras)
           own == resolve_loras_for_job(m.default_loras, loras)
           advanced == << <<"validation_error",
                            task = "t2v" /\ r.wan_advanced \cap {"encode", "clip_encode"} # {}>> >>
           vram == VramCheck(m, all)
           audio == << <<"validation_error", r.generate_audio /\ m.workflow_with_audio = None>> >>
           first == values \o hook \o images
           second == asked \o own \o advanced \o vram \o audio
<1>0. /\ r.model \in DOMAIN models
      /\ FirstFailure(VideoRequestChecks(r, m, task)
                        \o VideoResourceChecks(r, m, task, loras)) = "ok"
      /\ resolve_and_validate_video(r, models, task, loras).job = v
  BY DEF resolve_and_validate_video, Rejected, Accepted
<1>1. m.default_loras \in Seq(STRING)
  BY <1>0
<1>2. VideoRequestChecks(r, m, task) = first /\ VideoResourceChecks(r, m, task, loras) = second
  <2>1. VideoRequestChecks(r, m, task) = first
    BY SMT DEF VideoRequestChecks, VideoPixels
  <2>2. VideoResourceChecks(r, m, task, loras) = second
    BY SMT DEF VideoResourceChecks
  <2> QED BY <2>1, <2>2
<1>3. /\ v.model = m /\ v.pixels = r.pixels /\ v.steps = VideoSteps(r, m) /\ v.loras = all
      /\ v.scheduler = VideoScheduler(r, m) /\ v.wan_advanced = r.wan_advanced
      /\ v.init_image = (r.init_image = "good")
      /\ v.workflow = IF r.generate_audio THEN m.workflow_with_audio ELSE m.workflow
  OBVIOUS
<1> HIDE DEF v, m, first, second
<1>4. CheckList(values) /\
      (NoneFailed(values) =>
         /\ m.video_gen /\ m.task = task /\ m.family \in VideoFamilies
         /\ ~(r.frames > Given(m.limits.frames_max, 241))
         /\ ~(VideoSteps(r, m) > Given(m.limits.steps_max, 50))
         /\ VideoScheduler(r, m) \notin Malformed
         /\ ~(r.pixels > VideoPixels(m)))
  <2> DEFINE c1 == <<"validation_error", ~m.video_gen>>
             c2 == <<"validation_error", m.task # task>>
             c3 == <<"validation_error", m.family \notin VideoFamilies>>
             c4 == <<"validation_error", r.frames > Given(m.limits.frames_max, 241)>>
             c5 == <<"validation_error", VideoSteps(r, m) > Given(m.limits.steps_max, 50)>>
             c6 == <<"validation_error", VideoScheduler(r, m) \in Malformed>>
             c7 == <<"validation_error", r.pixels > VideoPixels(m)>>
             c8 == <<"async_not_enabled", r.mode = "async" /\ ~AsyncEnabled>>
  <2>1. values = <<c1, c2, c3, c4, c5, c6, c7, c8>>
    OBVIOUS
  <2>2. \A c \in {c1, c2, c3, c4, c5, c6, c7, c8} : c[1] # "ok"
    OBVIOUS
  <2>3. /\ c1[2] = ~m.video_gen /\ c2[2] = (m.task # task)
        /\ c3[2] = (m.family \notin VideoFamilies)
        /\ c4[2] = (r.frames > Given(m.limits.frames_max, 241))
        /\ c5[2] = (VideoSteps(r, m) > Given(m.limits.steps_max, 50))
        /\ c6[2] = (VideoScheduler(r, m) \in Malformed)
        /\ c7[2] = (r.pixels > VideoPixels(m))
    OBVIOUS
  <2> HIDE DEF values, c1, c2, c3, c4, c5, c6, c7, c8
  <2>4. /\ CheckList(<<c1, c2, c3, c4, c5, c6, c7, c8>>)
        /\ NoneFailed(<<c1, c2, c3, c4, c5, c6, c7, c8>>) =>
              \A c \in {c1, c2, c3, c4, c5, c6, c7, c8} : ~c[2]
    BY <2>2, EightChecks
  <2>5. NoneFailed(values) =>
           ~c1[2] /\ ~c2[2] /\ ~c3[2] /\ ~c4[2] /\ ~c5[2] /\ ~c6[2] /\ ~c7[2]
    BY <2>1, <2>4
  <2> QED BY <2>1, <2>3, <2>4, <2>5
<1>5. CheckList(images) /\
      (NoneFailed(images) =>
         /\ task = "i2v" => r.init_image = "good"
         /\ task = "t2v" /\ r.init_image = "good" => m.family = "ltxv")
  <2> DEFINE c1 == <<"validation_error", r.init_image = "bad">>
             c2 == <<"validation_error", task = "i2v" /\ r.init_image # "good">>
             c3 == <<"validation_error",
                     task = "t2v" /\ r.init_image = "good" /\ m.family # "ltxv">>
  <2>1. images = <<c1, c2, c3>>
    OBVIOUS
  <2>2. \A c \in {c1, c2, c3} : c[1] # "ok"
    OBVIOUS
  <2>3. /\ c2[2] = (task = "i2v" /\ r.init_image # "good")
        /\ c3[2] = (task = "t2v" /\ r.init_image = "good" /\ m.family # "ltxv")
    OBVIOUS
  <2> HIDE DEF images, c1, c2, c3
  <2>4. /\ CheckList(<<c1, c2, c3>>)
        /\ NoneFailed(<<c1, c2, c3>>) => \A c \in {c1, c2, c3} : ~c[2]
    BY <2>2, ThreeChecks
  <2>5. NoneFailed(images) => ~c2[2] /\ ~c3[2]
    BY <2>1, <2>4
  <2> QED BY <2>1, <2>3, <2>4, <2>5
<1>6. /\ CheckList(hook) /\ CheckList(vram) /\ CheckList(audio) /\ CheckList(advanced)
      /\ NoneFailed(vram) => ~(m.vram + LoraVram * Len(all) > VramBudget)
      /\ NoneFailed(advanced) =>
            (task = "t2v" => r.wan_advanced \cap {"encode", "clip_encode"} = {})
      /\ NoneFailed(audio) => ~(r.generate_audio /\ m.workflow_with_audio = None)
  <2> DEFINE c1 == <<"validation_error", r.webhook = "bad">>
             c2 == <<"vram_budget_exceeded", m.vram + LoraVram * Len(all) > VramBudget>>
             c3 == <<"validation_error",
                     task = "t2v" /\ r.wan_advanced \cap {"encode", "clip_encode"} # {}>>
             c4 == <<"validation_error", r.generate_audio /\ m.workflow_with_audio = None>>
  <2> HIDE DEF all
  <2>1. hook = <<c1>> /\ vram = <<c2>> /\ advanced = <<c3>> /\ audio = <<c4>>
    BY DEF WebhookChecks, VramCheck
  <2>2. c1[1] # "ok" /\ c2[1] # "ok" /\ c3[1] # "ok" /\ c4[1] # "ok"
    OBVIOUS
  <2>3. /\ c2[2] = (m.vram + LoraVram * Len(all) > VramBudget)
        /\ c3[2] = (task = "t2v" /\ r.wan_advanced \cap {"encode", "clip_encode"} # {})
        /\ c4[2] = (r.generate_audio /\ m.workflow_with_audio = None)
    OBVIOUS
  <2> HIDE DEF hook, vram, advanced, audio, c1, c2, c3, c4
  <2>4. \A c : c[1] # "ok" => CheckList(<<c>>) /\ (NoneFailed(<<c>>) => ~c[2])
    <3> SUFFICES ASSUME NEW c, c[1] # "ok"
                 PROVE  CheckList(<<c>>) /\ (NoneFailed(<<c>>) => ~c[2])
      OBVIOUS
    <3>1. \A d \in {c} : d[1] # "ok"
      OBVIOUS
    <3> QED BY <3>1, OneCheck
  <2>5. CheckList(hook) /\ CheckList(vram) /\ CheckList(audio) /\ CheckList(advanced)
    BY <2>1, <2>2, <2>4
  <2>6. /\ (NoneFailed(vram) => ~c2[2]) /\ (NoneFailed(advanced) => ~c3[2])
        /\ (NoneFailed(audio) => ~c4[2])
    BY <2>1, <2>2, <2>4
  <2> QED BY <2>3, <2>5, <2>6
<1>7. /\ CheckList(asked) /\ CheckList(own)
      /\ NoneFailed(asked) => \A l \in Elements(r.loras) : l \notin Outside /\ l \in loras
      /\ NoneFailed(own) => \A l \in Elements(m.default_loras) : l \notin Outside /\ l \in loras
  BY <1>1, LorasChecked
<1> HIDE DEF values, hook, images, asked, own, advanced, vram, audio
<1>8. CheckList(first) /\ (NoneFailed(first) => NoneFailed(values) /\ NoneFailed(images))
  <2>1. /\ CheckList(values \o hook)
        /\ NoneFailed(values \o hook) => NoneFailed(values)
    BY <1>4, <1>6, ChecksJoin
  <2>2. /\ CheckList(values \o hook \o images)
        /\ NoneFailed(values \o hook \o images) => NoneFailed(values \o hook) /\ NoneFailed(images)
    BY <1>5, <2>1, ChecksJoin
  <2> QED BY <2>1, <2>2 DEF first
<1>9. CheckList(second) /\ (NoneFailed(second) =>
         /\ NoneFailed(asked) /\ NoneFailed(own) /\ NoneFailed(advanced)
         /\ NoneFailed(vram) /\ NoneFailed(audio))
  <2>1. /\ CheckList(asked \o own)
        /\ NoneFailed(asked \o own) => NoneFailed(asked) /\ NoneFailed(own)
    BY <1>7, ChecksJoin
  <2>2. /\ CheckList(asked \o own \o advanced)
        /\ NoneFailed(asked \o own \o advanced) => NoneFailed(asked \o own) /\ NoneFailed(advanced)
    BY <1>6, <2>1, ChecksJoin
  <2>3. /\ CheckList(asked \o own \o advanced \o vram)
        /\ NoneFailed(asked \o own \o advanced \o vram) =>
              NoneFailed(asked \o own \o advanced) /\ NoneFailed(vram)
    BY <1>6, <2>2, ChecksJoin
  <2>4. /\ CheckList(asked \o own \o advanced \o vram \o audio)
        /\ NoneFailed(asked \o own \o advanced \o vram \o audio) =>
              NoneFailed(asked \o own \o advanced \o vram) /\ NoneFailed(audio)
    BY <1>6, <2>3, ChecksJoin
  <2> QED BY <2>1, <2>2, <2>3, <2>4 DEF second
<1>10. NoneFailed(first) /\ NoneFailed(second)
  <2>1. /\ CheckList(first \o second)
        /\ NoneFailed(first \o second) => NoneFailed(first) /\ NoneFailed(second)
    BY <1>8, <1>9, ChecksJoin
  <2>2. FirstFailure(first \o second) = "ok"
    BY <1>0, <1>2
  <2> QED BY <2>1, <2>2, FirstFailureSound
<1>11. all \in Seq(STRING) /\ \A l \in Elements(all) : l \notin Outside /\ l \in loras
  <2>1. Elements(all) = Elements(m.default_loras) \cup Elements(r.loras)
    BY <1>1, Joined DEF VideoLoras
  <2>2. all \in Seq(STRING)
    BY <1>1, ConcatProperties DEF VideoLoras
  <2> QED BY <1>7, <1>8, <1>9, <1>10, <2>1, <2>2
<1> HIDE DEF all
<1>12. WithinBudget(v, loras)
  BY <1>3, <1>6, <1>9, <1>10, <1>11 DEF WithinBudget
<1>13. VideoObeys(r, v, task, loras)
  BY <1>3, <1>4, <1>5, <1>6, <1>8, <1>9, <1>10, <1>12 DEF VideoObeys
<1> QED BY <1>0, <1>3, <1>13 DEF m


-----------------------------------------------------------------------------
(* Frame counts.                                                           *)

Unit(m) == IF m.family = "ltxv" THEN 8 ELSE 4

\* One more than a multiple of the unit, and less than a unit above what was asked for.
RoundedUp(asked, frames, unit) ==
    frames % unit = 1 /\ asked <= frames /\ frames < asked + unit

LEMMA FrameCountIsNumber ==
    ASSUME NEW n, n \in 5..10000
    PROVE  n \in Int /\ n >= 5
OBVIOUS

LEMMA WanFrames ==
    ASSUME NEW raw \in Int, raw >= 5
    PROVE  RoundedUp(raw, normalize_wan_num_frames(raw), 4)
BY DEF normalize_wan_num_frames, RoundedUp

LEMMA LtxvFrames ==
    ASSUME NEW raw \in Int, raw >= 5
    PROVE  RoundedUp(raw, normalize_ltxv_num_frames(raw), 8)
BY DEF normalize_ltxv_num_frames, RoundedUp

LEMMA VideoFrames ==
    ASSUME NEW r, NEW models, NEW task, NEW loras, r.frames \in Int, r.frames >= 5,
           resolve_and_validate_video(r, models, task, loras).code = "ok"
    PROVE  LET v == resolve_and_validate_video(r, models, task, loras).job
           IN  RoundedUp(r.frames, v.frames, Unit(v.model))
<1> DEFINE m == models[r.model]
           v == resolve_and_validate_video(r, models, task, loras).job
<1>1. /\ v.model = m
      /\ v.frames = IF m.family = "ltxv" THEN normalize_ltxv_num_frames(r.frames)
                    ELSE normalize_wan_num_frames(r.frames)
  BY DEF resolve_and_validate_video, Rejected, Accepted
<1> HIDE DEF v, m
<1>2. RoundedUp(r.frames, v.frames, Unit(v.model))
  <2> PICK n \in Int : n = r.frames /\ n >= 5
    OBVIOUS
  <2>0. /\ RoundedUp(n, normalize_ltxv_num_frames(n), 8)
        /\ RoundedUp(n, normalize_wan_num_frames(n), 4)
    BY WanFrames, LtxvFrames
  <2>1. CASE m.family = "ltxv"
    <3>1. v.frames = normalize_ltxv_num_frames(r.frames) /\ Unit(v.model) = 8
      BY <1>1, <2>1 DEF Unit
    <3> QED BY <2>0, <3>1
  <2>2. CASE m.family # "ltxv"
    <3>1. v.frames = normalize_wan_num_frames(r.frames) /\ Unit(v.model) = 4
      BY <1>1, <2>2 DEF Unit
    <3> QED BY <2>0, <3>1
  <2> QED BY <2>1, <2>2
<1> QED BY <1>2 DEF v

-----------------------------------------------------------------------------
(* The judgement of a request.                                             *)

\* What the handler and the worker find with a version of the registry and LoRA files.
Judgement(r, models, loras) ==
    IF r.kind = "image" THEN resolve_and_validate(r, models, loras)
    ELSE resolve_and_validate_video(r, models, r.task, loras)

LEMMA JudgementIsValidated ==
    ASSUME NEW r
    PROVE  /\ Validated(r, r.task) = Judgement(r, ModelsOf(registry), Disks[disk].loras)
           /\ Validated(r, StoredTask(r)) = Judgement(r, ModelsOf(registry), Disks[disk].loras)
BY DEF Validated, Judgement, StoredTask

\* A request that is accepted names a model of the registry.
LEMMA JudgementNeedsModel ==
    ASSUME NEW r, NEW models, NEW loras, Judgement(r, models, loras).code = "ok"
    PROVE  r.model \in DOMAIN models
BY DEF Judgement, resolve_and_validate, resolve_and_validate_video, Rejected, Accepted

\* Registries that agree on the requested model give the same judgement.
LEMMA JudgementIsLocal ==
    ASSUME NEW r, NEW old, NEW new, NEW loras,
           r.model \in DOMAIN old, r.model \in DOMAIN new, old[r.model] = new[r.model]
    PROVE  Judgement(r, old, loras) = Judgement(r, new, loras)
<1>1. resolve_and_validate(r, old, loras) = resolve_and_validate(r, new, loras)
  BY DEF resolve_and_validate
<1>2. resolve_and_validate_video(r, old, r.task, loras)
         = resolve_and_validate_video(r, new, r.task, loras)
  BY DEF resolve_and_validate_video
<1> QED BY <1>1, <1>2 DEF Judgement

\* Versions that have the same configuration of a model agree on it.
LEMMA SameConfig ==
    ASSUME NEW a, NEW b, NEW name, name \in DOMAIN ModelsOf(a), Config(a, name) = Config(b, name)
    PROVE  name \in DOMAIN ModelsOf(b) /\ ModelsOf(a)[name] = ModelsOf(b)[name]
<1> DEFINE p == ModelsOf(a)
           q == ModelsOf(b)
<1>1. Config(a, name) = {p[n] : n \in DOMAIN p \cap {name}}
      /\ Config(b, name) = {q[n] : n \in DOMAIN q \cap {name}}
  BY DEF Config
<1> HIDE DEF p, q
<1>2. name \in DOMAIN p
  BY DEF p
<1>3. p[name] \in Config(a, name)
  BY <1>1, <1>2
<1>4. PICK n \in DOMAIN q \cap {name} : p[name] = q[n]
  BY <1>1, <1>3
<1>5. name \in DOMAIN q /\ p[name] = q[name]
  BY <1>4
<1> QED BY <1>5 DEF p, q

\* The models of a registry are entries of its file.
LEMMA ModelsAreEntries ==
    ASSUME NEW v \in DOMAIN Disks, NEW n \in DOMAIN ModelsOf(v)
    PROVE  ModelsOf(v)[n] \in Range(Disks[v].yaml)
<1> DEFINE entries == Disks[v].yaml
           names == {m.name : m \in Range(entries)}
           models == [k \in names |-> CHOOSE m \in Range(entries) : m.name = k]
<1>1. ModelsOf(v) = load_registry(Disks[v]).models
  BY DEF ModelsOf, Loaded
<1>2. ModelsOf(v) = <<>> \/ ModelsOf(v) = models
  <2> HIDE DEF models
  <2>1. load_registry(Disks[v]).models = <<>> \/ load_registry(Disks[v]).models = models
    BY DEF load_registry, models
  <2> QED BY <1>1, <2>1
<1> HIDE DEF entries
<1>3. ModelsOf(v) = models /\ n \in names
  BY <1>2
<1>4. models[n] = (CHOOSE m \in Range(entries) : m.name = n)
  BY <1>3
<1>5. \E m \in Range(entries) : m.name = n
  BY <1>3
<1>6. models[n] \in Range(entries)
  BY <1>4, <1>5
<1> QED BY <1>3, <1>6 DEF entries


-----------------------------------------------------------------------------
(* Patches change values only.                                             *)

NodeFields == {"class", "anchors", "inputs", "links", "vals"}

SameWiring(g, h) ==
    /\ DOMAIN h = DOMAIN g
    /\ \A i \in DOMAIN g : /\ DOMAIN h[i] = NodeFields
                           /\ h[i].class = g[i].class
                           /\ h[i].anchors = g[i].anchors
                           /\ h[i].links = g[i].links
                           /\ g[i].inputs = "object" => h[i].inputs = "object"

\* Every node a pipeline writes to has inputs.
Fillable(g) ==
    \A i \in DOMAIN g :
        g[i].anchors # {} \/ g[i].class = "EmptyLatentImage" => g[i].inputs = "object"

LEMMA WiringRefl ==
    ASSUME NEW g, IsGraph(g)
    PROVE  SameWiring(g, g)
BY DEF SameWiring, IsGraph, NodeFields

LEMMA WiringTrans ==
    ASSUME NEW g, NEW h, NEW k, SameWiring(g, h), SameWiring(h, k)
    PROVE  SameWiring(g, k)
BY DEF SameWiring

LEMMA WiringIsGraph ==
    ASSUME NEW g, NEW h, IsGraph(g), SameWiring(g, h)
    PROVE  IsGraph(h)
BY DEF SameWiring, IsGraph, NodeFields

LEMMA WiringAnchors ==
    ASSUME NEW g, NEW h, SameWiring(g, h), NEW a
    PROVE  /\ Owners(h, a) = Owners(g, a)
           /\ HasAnchor(h, a) = HasAnchor(g, a)
           /\ find_anchor(h, a) = find_anchor(g, a)
<1>1. Owners(h, a) = Owners(g, a)
  BY DEF Owners, SameWiring
<1> QED BY <1>1 DEF HasAnchor, find_anchor

LEMMA WiringHasAnchors ==
    ASSUME NEW g, NEW h, SameWiring(g, h), NEW as, HasAnchors(g, as)
    PROVE  HasAnchors(h, as)
BY WiringAnchors DEF HasAnchors

\* The node an anchor stands for.
LEMMA AnchorFound ==
    ASSUME NEW g, IsGraph(g), NEW a, HasAnchor(g, a)
    PROVE  find_anchor(g, a) \in Owners(g, a) /\ find_anchor(g, a) \in DOMAIN g
<1>1. Owners(g, a) \in SUBSET Nat /\ Owners(g, a) # {}
  BY DEF Owners, IsGraph, HasAnchor
<1>2. \E m \in Owners(g, a) : \A n \in Owners(g, a) : m <= n
  BY <1>1, LeastNat
<1>3. find_anchor(g, a) \in Owners(g, a)
  BY <1>2 DEF find_anchor, Min
<1> QED BY <1>3 DEF Owners

LEMMA WiringClassAt ==
    ASSUME NEW g, NEW h, IsGraph(g), SameWiring(g, h), NEW a, HasAnchor(g, a)
    PROVE  ClassAt(h, a) = ClassAt(g, a)
<1>1. find_anchor(h, a) = find_anchor(g, a) /\ find_anchor(g, a) \in DOMAIN g
  BY WiringAnchors, AnchorFound
<1> QED BY <1>1 DEF ClassAt, SameWiring

LEMMA FillableMeans ==
    ASSUME NEW g
    PROVE  Fillable(g) = ~InputsMissing(g)
BY DEF Fillable, InputsMissing

LEMMA WiringFilled ==
    ASSUME NEW g, NEW h, SameWiring(g, h), Fillable(g)
    PROVE  Fillable(h)
BY DEF SameWiring, Fillable

\* Where every anchored node has inputs, the anchors can be filled in.
LEMMA AnchorFilled ==
    ASSUME NEW g, IsGraph(g), Fillable(g), NEW a
    PROVE  /\ HasAnchor(g, a) => CanFill(g, a)
           /\ ~Bare(g, a) /\ ~Unfit(g, a)
<1>1. HasAnchor(g, a) => g[find_anchor(g, a)].inputs = "object"
  BY AnchorFound DEF Fillable, Owners
<1> QED BY <1>1 DEF CanFill, Bare, Unfit

LEMMA AnchorsFilled ==
    ASSUME NEW g, IsGraph(g), Fillable(g), NEW as, HasAnchors(g, as)
    PROVE  CanFillAll(g, as)
BY AnchorFilled DEF HasAnchors, CanFillAll

LEMMA CanFillHas ==
    ASSUME NEW g, NEW as, CanFillAll(g, as)
    PROVE  HasAnchors(g, as)
BY DEF CanFillAll, CanFill, HasAnchors

LEMMA WiringCanFill ==
    ASSUME NEW g, NEW h, IsGraph(g), SameWiring(g, h), NEW a, CanFill(g, a)
    PROVE  CanFill(h, a)
<1>1. /\ HasAnchor(h, a) /\ find_anchor(h, a) = find_anchor(g, a)
      /\ find_anchor(g, a) \in DOMAIN g
  BY WiringAnchors, AnchorFound DEF CanFill
<1> QED BY <1>1 DEF CanFill, SameWiring

LEMMA PatchWiring ==
    ASSUME NEW g, IsGraph(g), NEW i, NEW new
    PROVE  SameWiring(g, Patch(g, i, new))
<1> DEFINE h == Patch(g, i, new)
           vals == Over(new, g[i].vals)
<1>1. h = [g EXCEPT ![i] = [g[i] EXCEPT !.vals = vals]]
  BY DEF Patch
<1> HIDE DEF h, vals
<1>2. DOMAIN h = DOMAIN g
  BY <1>1
<1>3. ASSUME NEW j \in DOMAIN g
      PROVE  /\ DOMAIN h[j] = NodeFields
             /\ h[j].class = g[j].class
             /\ h[j].anchors = g[j].anchors
             /\ h[j].links = g[j].links
             /\ g[j].inputs = "object" => h[j].inputs = "object"
  <2>1. DOMAIN g[j] = NodeFields
    BY DEF IsGraph, NodeFields
  <2>2. CASE j = i
    <3>1. h[j] = [g[j] EXCEPT !.vals = vals]
      BY <1>1, <2>2
    <3> QED BY <2>1, <3>1 DEF NodeFields
  <2>3. CASE j # i
    <3>1. h[j] = g[j]
      BY <1>1, <2>3
    <3> QED BY <2>1, <3>1
  <2> QED BY <2>2, <2>3
<1>4. SameWiring(g, h)
  BY <1>2, <1>3 DEF SameWiring
<1> QED BY <1>4 DEF h

LEMMA PatchAtWiring ==
    ASSUME NEW g, IsGraph(g), NEW a, NEW new
    PROVE  SameWiring(g, PatchAt(g, a, new)) /\ IsGraph(PatchAt(g, a, new))
BY PatchWiring, WiringIsGraph DEF PatchAt

LEMMA PatchIfAnyWiring ==
    ASSUME NEW g, IsGraph(g), NEW a, NEW new
    PROVE  SameWiring(g, PatchIfAny(g, a, new)) /\ IsGraph(PatchIfAny(g, a, new))
BY PatchAtWiring, WiringRefl DEF PatchIfAny

LEMMA PatchAllWiring ==
    ASSUME NEW g, IsGraph(g), NEW nodes, NEW new
    PROVE  SameWiring(g, PatchAll(g, nodes, new)) /\ IsGraph(PatchAll(g, nodes, new))
<1> DEFINE h == PatchAll(g, nodes, new)
           patched(i) == [g[i] EXCEPT !.vals = Over(new, @)]
<1>1. /\ DOMAIN h = DOMAIN g
      /\ \A i \in DOMAIN g : h[i] = IF i \in nodes THEN patched(i) ELSE g[i]
  BY DEF PatchAll
<1>2. ASSUME NEW i \in DOMAIN g
      PROVE  /\ DOMAIN patched(i) = NodeFields
             /\ patched(i).class = g[i].class
             /\ patched(i).anchors = g[i].anchors
             /\ patched(i).links = g[i].links
             /\ patched(i).inputs = g[i].inputs
  <2>1. DOMAIN g[i] = NodeFields
    BY DEF IsGraph, NodeFields
  <2> DEFINE vals == Over(new, g[i].vals)
  <2>2. patched(i) = [g[i] EXCEPT !.vals = vals]
    OBVIOUS
  <2> HIDE DEF vals, patched
  <2> QED BY <2>1, <2>2 DEF NodeFields
<1>3. \A i \in DOMAIN g : DOMAIN g[i] = NodeFields
  BY DEF IsGraph, NodeFields
<1> HIDE DEF h, patched
<1>4. SameWiring(g, h)
  BY <1>1, <1>2, <1>3 DEF SameWiring
<1> QED BY <1>4, WiringIsGraph DEF h

-----------------------------------------------------------------------------
(* Graphs without cycles.                                                  *)

\* Every link leads to a node that is there.
Closed(g) == \A i \in DOMAIN g : Inputs(g, i) \subseteq DOMAIN g

\* Among any nodes there is one that none of them feeds.
Acyclic(g) ==
    \A s \in SUBSET DOMAIN g : s # {} => \E i \in s : Inputs(g, i) \cap s = {}

\* A finite set of numbers has a greatest element.
LEMMA MaxFound ==
    ASSUME NEW S \in SUBSET Nat, IsFiniteSet(S), S # {}
    PROVE  Max(S) \in S /\ \A x \in S : Max(S) >= x
<1> DEFINE HasMax(t) == \E m \in t : \A x \in t : m >= x
           B == {t \in SUBSET S : t # {} /\ ~HasMax(t)}
<1>1. ASSUME B # {}
      PROVE  FALSE
  <2>1. PICK t \in B : \A u \in B : Cardinality(t) <= Cardinality(u)
    <3> HIDE DEF B
    <3>1. B \in SUBSET SUBSET S
      BY DEF B
    <3> QED BY <1>1, <3>1, SmallestSet
  <2>2. PICK x \in t : TRUE
    OBVIOUS
  <2> DEFINE u == t \ {x}
  <2>3. u \in SUBSET S /\ Cardinality(u) = Cardinality(t) - 1 /\ Cardinality(t) \in Nat
    BY <2>2, SubsetSize
  <2>4. u \notin B
    <3>1. ~(Cardinality(t) <= Cardinality(u))
      BY <2>3
    <3> HIDE DEF B, u
    <3> QED BY <2>1, <3>1
  <2>5. u # {}
    <3>1. CASE u = {}
      <4>1. t = {x}
        BY <2>2, <3>1
      <4>2. HasMax(t)
        BY <2>2, <4>1
      <4> QED BY <4>2
    <3> QED BY <3>1
  <2>6. PICK m \in u : \A y \in u : m >= y
    BY <2>3, <2>4, <2>5
  <2>7. m \in Nat /\ x \in Nat /\ t = u \cup {x} /\ t \in SUBSET Nat
    BY <2>2
  <2>8. HasMax(t)
    <3>1. CASE m >= x
      <4>1. m \in t /\ \A y \in t : m >= y
        BY <2>6, <2>7, <3>1
      <4> QED BY <4>1
    <3>2. CASE ~(m >= x)
      <4>1. \A y \in t : x >= y
        BY <2>6, <2>7, <3>2
      <4> QED BY <2>2, <4>1
    <3> QED BY <3>1, <3>2
  <2> QED BY <2>8
<1>2. HasMax(S)
  BY <1>1
<1> QED BY <1>2 DEF Max

\* The nodes left after the k-th removal, as Knotted computes them.
Removals(g, n, left) ==
    left = [k \in 0..n |->
              IF k = 0 THEN DOMAIN g
              ELSE LET rest == left[k - 1] IN {i \in rest : Inputs(g, i) \cap rest # {}}]

\* One removal.
Fed(g, rest) == {i \in rest : Inputs(g, i) \cap rest # {}}

\* What a first m removals leave.
Leaves(g, left, m) ==
    /\ left[0] = DOMAIN g
    /\ \A k \in 1..m : left[k] = Fed(g, left[k - 1])

LEMMA RemovalsExist ==
    ASSUME NEW g, NEW n \in Nat
    PROVE  \E left : Removals(g, n, left)
<1> DEFINE Good == {m \in Nat : \E left \in [0..m -> SUBSET DOMAIN g] : Leaves(g, left, m)}
           Bad == Nat \ Good
<1>1. 0 \in Good
  <2> DEFINE left == [k \in 0..0 |-> DOMAIN g]
  <2>1. left \in [0..0 -> SUBSET DOMAIN g] /\ Leaves(g, left, 0)
    BY DEF Leaves
  <2> HIDE DEF left
  <2> QED BY <2>1
<1>2. ASSUME NEW m \in Good
      PROVE  m + 1 \in Good
  <2>1. PICK old \in [0..m -> SUBSET DOMAIN g] : Leaves(g, old, m)
    OBVIOUS
  <2> DEFINE left == [k \in 0..(m + 1) |-> IF k <= m THEN old[k] ELSE Fed(g, old[m])]
  <2>2. \A k \in 0..(m + 1) : left[k] = IF k <= m THEN old[k] ELSE Fed(g, old[m])
    OBVIOUS
  <2>3. Fed(g, old[m]) \in SUBSET DOMAIN g
    BY DEF Fed
  <2>4. left \in [0..(m + 1) -> SUBSET DOMAIN g]
    <3>1. \A k \in 0..(m + 1) : k <= m => k \in 0..m
      OBVIOUS
    <3> QED BY <2>3, <3>1
  <2> HIDE DEF left
  <2>5. ASSUME NEW k \in 1..(m + 1)
        PROVE  left[k] = Fed(g, left[k - 1])
    <3>1. /\ k \in 0..(m + 1) /\ k - 1 \in 0..(m + 1) /\ k - 1 <= m
          /\ (k <= m => k \in 1..m) /\ (~(k <= m) => k - 1 = m)
      OBVIOUS
    <3>2. left[k - 1] = old[k - 1]
      BY <2>2, <3>1
    <3>3. CASE k <= m
      <4>1. left[k] = old[k] /\ old[k] = Fed(g, old[k - 1])
        BY <2>1, <2>2, <3>1, <3>3 DEF Leaves
      <4> QED BY <3>2, <4>1
    <3>4. CASE ~(k <= m)
      BY <2>2, <3>1, <3>2, <3>4
    <3> QED BY <3>3, <3>4
  <2>6. left[0] = DOMAIN g
    BY <2>1, <2>2 DEF Leaves
  <2>7. Leaves(g, left, m + 1)
    BY <2>5, <2>6 DEF Leaves
  <2> QED BY <2>4, <2>7
<1>3. Good = Nat
  <2> HIDE DEF Good
  <2>1. SUFFICES ASSUME Bad # {}
                 PROVE  FALSE
    BY DEF Good
  <2>2. PICK m \in Bad : \A k \in Bad : m <= k
    BY <2>1, LeastNat
  <2>3. m # 0 /\ m - 1 \in Nat /\ m - 1 \notin Bad
    BY <1>1, <2>2
  <2>4. (m - 1) + 1 \in Good
    BY <1>2, <2>3
  <2> QED BY <2>2, <2>4
<1>4. PICK left \in [0..n -> SUBSET DOMAIN g] : Leaves(g, left, n)
  BY <1>3
<1>5. ASSUME NEW k \in 0..n
      PROVE  left[k] = IF k = 0 THEN DOMAIN g
                       ELSE LET rest == left[k - 1] IN {i \in rest : Inputs(g, i) \cap rest # {}}
  <2>1. k # 0 => k \in 1..n
    OBVIOUS
  <2> QED BY <1>4, <2>1 DEF Leaves, Fed
<1>6. Removals(g, n, left)
  BY <1>5 DEF Removals
<1> QED BY <1>6

LEMMA KnottedUnfolds ==
    ASSUME NEW g, Cardinality(DOMAIN g) \in Nat
    PROVE  \E left : /\ Leaves(g, left, Cardinality(DOMAIN g))
                     /\ Knotted(g) = left[Cardinality(DOMAIN g)]
<1> DEFINE n == Cardinality(DOMAIN g)
           left == CHOOSE f : Removals(g, n, f)
<1>1. Knotted(g) = left[n]
  BY DEF Knotted, Removals
<1>2. Removals(g, n, left)
  BY RemovalsExist
<1> HIDE DEF left
<1>3. Leaves(g, left, n)
  <2>1. left[0] = DOMAIN g
    BY <1>2 DEF Removals
  <2>2. ASSUME NEW k \in 1..n
        PROVE  left[k] = Fed(g, left[k - 1])
    <3>1. k \in 0..n /\ k # 0
      OBVIOUS
    <3> QED BY <1>2, <3>1 DEF Removals, Fed
  <2> QED BY <2>1, <2>2 DEF Leaves
<1> QED BY <1>1, <1>3

\* Removing nodes that nothing feeds takes them all away exactly if there is no cycle.
LEMMA WellFormedIffAcyclic ==
    ASSUME NEW g, IsGraph(g)
    PROVE  WellFormed(g) <=> Closed(g) /\ Acyclic(g)
<1> DEFINE D == DOMAIN g
           n == Cardinality(D)
<1>1. IsFiniteSet(D) /\ n \in Nat
  BY SubsetSize DEF IsGraph
<1>2. PICK left : Leaves(g, left, n) /\ Knotted(g) = left[n]
  BY <1>1, KnottedUnfolds
<1>3. ASSUME Acyclic(g), Knotted(g) # {}
      PROVE  FALSE
  <2> DEFINE Bad == {k \in 0..n : ~(left[k] \in SUBSET D /\ Cardinality(left[k]) <= n - k)}
  <2>1. ASSUME Bad # {}
        PROVE  FALSE
    <3>1. PICK k \in Bad : \A j \in Bad : k <= j
      <4> HIDE DEF Bad
      <4>1. Bad \in SUBSET Nat
        BY DEF Bad
      <4> QED BY <2>1, <4>1, LeastNat
    <3>2. k # 0
      BY <1>1, <1>2 DEF Leaves
    <3>3. k \in 1..n /\ k - 1 \in 0..n /\ k - 1 \notin Bad
      BY <1>1, <3>1, <3>2
    <3> DEFINE rest == left[k - 1]
    <3>4. rest \in SUBSET D /\ Cardinality(rest) <= n - (k - 1)
      BY <3>3
    <3>5. left[k] = Fed(g, rest)
      BY <1>2, <3>3 DEF Leaves
    <3> HIDE DEF rest
    <3>6. IsFiniteSet(rest) /\ Cardinality(rest) \in Nat
      BY <1>1, <3>4, SubsetSize
    <3>7. left[k] \in SUBSET D
      BY <3>4, <3>5 DEF Fed
    <3>8. Cardinality(left[k]) <= n - k
      <4>1. CASE rest = {}
        <5>1. left[k] = {}
          BY <3>5, <4>1 DEF Fed
        <5> QED BY <1>1, <3>3, <5>1, FS_EmptySet
      <4>2. CASE rest # {}
        <5>1. PICK i \in rest : Inputs(g, i) \cap rest = {}
          BY <1>3, <3>4, <4>2 DEF Acyclic
        <5>2. left[k] \in SUBSET (rest \ {i})
          BY <3>5, <5>1 DEF Fed
        <5>3. IsFiniteSet(rest \ {i}) /\ Cardinality(rest \ {i}) = Cardinality(rest) - 1
          BY <3>6, FS_RemoveElement
        <5>4. Cardinality(left[k]) <= Cardinality(rest) - 1 /\ Cardinality(left[k]) \in Nat
          BY <1>1, <3>7, <5>2, <5>3, FS_Subset, FS_CardinalityType
        <5> QED BY <1>1, <3>3, <3>4, <3>6, <5>4
      <4> QED BY <4>1, <4>2
    <3> QED BY <3>1, <3>7, <3>8
  <2>2. n \in 0..n
    BY <1>1
  <2>3. left[n] \in SUBSET D /\ Cardinality(left[n]) <= n - n
    BY <2>1, <2>2
  <2>4. Cardinality(left[n]) = 0
    BY <1>1, <2>3, SubsetSize
  <2> QED BY <1>1, <1>2, <1>3, <2>3, <2>4, SubsetSize
<1>4. ASSUME Knotted(g) = {}, NEW s \in SUBSET D, s # {},
             \A i \in s : Inputs(g, i) \cap s # {}
      PROVE  FALSE
  <2> DEFINE Bad == {k \in 0..n : ~(s \subseteq left[k])}
  <2>1. ASSUME Bad # {}
        PROVE  FALSE
    <3>1. PICK k \in Bad : \A j \in Bad : k <= j
      <4> HIDE DEF Bad
      <4>1. Bad \in SUBSET Nat
        BY DEF Bad
      <4> QED BY <2>1, <4>1, LeastNat
    <3>2. k # 0
      BY <1>2 DEF Leaves
    <3>3. k \in 1..n /\ k - 1 \in 0..n /\ k - 1 \notin Bad
      BY <1>1, <3>1, <3>2
    <3> DEFINE rest == left[k - 1]
    <3>4. s \subseteq rest
      BY <3>3
    <3>5. left[k] = Fed(g, rest)
      BY <1>2, <3>3 DEF Leaves
    <3> HIDE DEF rest
    <3>6. s \subseteq left[k]
      BY <1>4, <3>4, <3>5 DEF Fed
    <3> QED BY <3>1, <3>6
  <2>2. n \in 0..n
    BY <1>1
  <2>3. s \subseteq left[n]
    BY <2>1, <2>2
  <2> QED BY <1>2, <1>4, <2>3
<1>5. Knotted(g) = {} <=> Acyclic(g)
  BY <1>3, <1>4 DEF Acyclic
<1> QED BY <1>5 DEF WellFormed, Closed

-----------------------------------------------------------------------------
(* Nodes spliced into a graph.                                             *)

\* New nodes feed each other in their order and from sources, which are fed by nothing;
\* a node of the graph has no input but its own and new ones.
Spliced(g, h, sources) ==
    /\ DOMAIN g \subseteq DOMAIN h
    /\ sources \subseteq DOMAIN g
    /\ \A i \in sources : Inputs(h, i) = {}
    /\ \A i \in DOMAIN g : Inputs(h, i) \subseteq Inputs(g, i) \cup (DOMAIN h \ DOMAIN g)
    /\ \A i \in DOMAIN h \ DOMAIN g :
          Inputs(h, i) \subseteq sources \cup {j \in DOMAIN h \ DOMAIN g : j < i}

LEMMA SplicedIsAcyclic ==
    ASSUME NEW g, NEW h, IsGraph(h), NEW sources, Spliced(g, h, sources),
           Closed(g), Acyclic(g)
    PROVE  Closed(h) /\ Acyclic(h)
<1> DEFINE new == DOMAIN h \ DOMAIN g
<1>1. Closed(h)
  <2> SUFFICES ASSUME NEW i \in DOMAIN h
               PROVE  Inputs(h, i) \subseteq DOMAIN h
    BY DEF Closed
  <2>1. CASE i \in DOMAIN g
    BY <2>1 DEF Spliced, Closed
  <2>2. CASE i \notin DOMAIN g
    BY <2>2 DEF Spliced
  <2> QED BY <2>1, <2>2
<1>2. ASSUME NEW s \in SUBSET DOMAIN h, s # {}
      PROVE  \E i \in s : Inputs(h, i) \cap s = {}
  <2>1. CASE s \cap sources # {}
    BY <2>1 DEF Spliced
  <2>2. CASE s \cap sources = {} /\ s \cap new # {}
    <3>1. s \cap new \in SUBSET Nat
      BY DEF IsGraph
    <3> DEFINE t == s \cap new
    <3>2. PICK i \in t : \A j \in t : i <= j
      <4> HIDE DEF t
      <4> QED BY <2>2, <3>1, LeastNat DEF t
    <3>3. Inputs(h, i) \subseteq sources \cup {j \in new : j < i}
      BY <3>2 DEF Spliced
    <3>4. \A j \in t : ~(j < i)
      BY <3>1, <3>2
    <3>5. Inputs(h, i) \cap s = {}
      BY <2>2, <3>3, <3>4
    <3> QED BY <3>2, <3>5
  <2>3. CASE s \cap new = {}
    <3>1. s \in SUBSET DOMAIN g
      BY <2>3
    <3>2. PICK i \in s : Inputs(g, i) \cap s = {}
      BY <1>2, <3>1 DEF Acyclic
    <3>3. Inputs(h, i) \subseteq Inputs(g, i) \cup new
      BY <3>1, <3>2 DEF Spliced
    <3> QED BY <2>3, <3>2, <3>3
  <2> QED BY <2>1, <2>2, <2>3
<1> QED BY <1>1, <1>2 DEF Acyclic

\* Patches leave the inputs alone.
LEMMA WiringInputs ==
    ASSUME NEW g, NEW h, SameWiring(g, h)
    PROVE  /\ \A i \in DOMAIN g : Inputs(h, i) = Inputs(g, i)
           /\ Closed(g) /\ Acyclic(g) => Closed(h) /\ Acyclic(h)
           /\ \A sources : FedByNone(g, sources) => FedByNone(h, sources)
<1>1. \A i \in DOMAIN g : Inputs(h, i) = Inputs(g, i) /\ h[i].anchors = g[i].anchors
  BY DEF SameWiring, Inputs
<1>2. DOMAIN h = DOMAIN g
  BY DEF SameWiring
<1>3. Closed(g) => Closed(h)
  BY <1>1, <1>2 DEF Closed
<1>4. Acyclic(g) => Acyclic(h)
  <2> SUFFICES ASSUME Acyclic(g), NEW s \in SUBSET DOMAIN h, s # {}
               PROVE  \E i \in s : Inputs(h, i) \cap s = {}
    BY DEF Acyclic
  <2>1. PICK i \in s : Inputs(g, i) \cap s = {}
    BY <1>2 DEF Acyclic
  <2> QED BY <1>1, <1>2, <2>1
<1>5. \A sources : FedByNone(g, sources) => FedByNone(h, sources)
  BY <1>1, <1>2 DEF FedByNone
<1> QED BY <1>1, <1>3, <1>4, <1>5

\* Removing links makes no cycle.
LEMMA UnpluggedIsAcyclic ==
    ASSUME NEW g, NEW h, DOMAIN h = DOMAIN g, \A i \in DOMAIN g : Inputs(h, i) \subseteq Inputs(g, i),
           Closed(g), Acyclic(g)
    PROVE  Closed(h) /\ Acyclic(h)
<1>1. Closed(h)
  BY DEF Closed
<1>2. ASSUME NEW s \in SUBSET DOMAIN h, s # {}
      PROVE  \E i \in s : Inputs(h, i) \cap s = {}
  <2>1. PICK i \in s : Inputs(g, i) \cap s = {}
    BY <1>2 DEF Acyclic
  <2>2. Inputs(h, i) \subseteq Inputs(g, i)
    BY <2>1
  <2> QED BY <2>1, <2>2
<1> QED BY <1>1, <1>2 DEF Acyclic

\* A chain is a row of new nodes, each fed by its heads or by the one before it.
LEMMA ChainShape ==
    ASSUME NEW g, IsGraph(g), DOMAIN g # {}, NEW class, NEW S, NEW loras \in Seq(S), loras # <<>>,
           NEW heads
    PROVE  LET chain == LoraChain(g, class, loras, heads)
               new == DOMAIN chain
           IN  /\ new \in SUBSET Nat /\ IsFiniteSet(new) /\ new \cap DOMAIN g = {}
               /\ Max(new) \in new
               /\ \A i \in new : /\ DOMAIN chain[i] = NodeFields /\ chain[i].anchors = {}
                                 /\ chain[i].inputs = "object"
                                 /\ Inputs(chain, i) \subseteq {heads[k][1] : k \in DOMAIN heads}
                                                                   \cup {j \in new : j < i}
<1> DEFINE base == Max(DOMAIN g)
           links(i) == [k \in DOMAIN heads |->
                          IF i = base + 1 THEN heads[k]
                          ELSE <<i - 1, IF k = "clip" THEN 1 ELSE 0>>]
           node(i) == [class |-> class, anchors |-> {}, inputs |-> "object", links |-> links(i),
                       vals |-> [lora |-> loras[i - base]]]
           chain == LoraChain(g, class, loras, heads)
           new == (base + 1)..(base + Len(loras))
<1>1. chain = [i \in new |-> node(i)]
  BY DEF LoraChain
<1>2. base \in Nat /\ \A i \in DOMAIN g : i \in Nat /\ base >= i
  BY MaxFound DEF IsGraph
<1>3. Len(loras) \in Nat /\ Len(loras) # 0
  BY EmptySeq, LenProperties
<1> HIDE DEF base, node, chain
<1>4. new \in SUBSET Nat /\ IsFiniteSet(new) /\ new \cap DOMAIN g = {} /\ base + 1 \in new
  <2>1. base + 1 \in Int /\ base + Len(loras) \in Int
    BY <1>2, <1>3
  <2>2. IsFiniteSet(new)
    BY <2>1, FS_Interval
  <2>3. \A i \in new : i \in Nat /\ i > base
    BY <1>2, <1>3
  <2>4. new \cap DOMAIN g = {}
    BY <1>2, <2>3
  <2>5. base + 1 \in new
    BY <1>2, <1>3
  <2> QED BY <2>2, <2>3, <2>4, <2>5
<1>5. Max(new) \in new
  <2> HIDE DEF new
  <2> QED BY <1>4, MaxFound
<1>6. ASSUME NEW i \in new
      PROVE  /\ DOMAIN node(i) = NodeFields /\ node(i).anchors = {} /\ node(i).inputs = "object"
             /\ {l[1] : l \in Range(node(i).links)} \subseteq {heads[k][1] : k \in DOMAIN heads}
                                                              \cup {j \in new : j < i}
  <2>1. /\ DOMAIN node(i) = NodeFields /\ node(i).anchors = {} /\ node(i).links = links(i)
        /\ node(i).inputs = "object"
    BY DEF node, NodeFields
  <2>2. CASE i = base + 1
    <3>1. \A k \in DOMAIN heads : links(i)[k] = heads[k]
      BY <2>2
    <3>2. DOMAIN links(i) = DOMAIN heads
      OBVIOUS
    <3> HIDE DEF links
    <3> QED BY <2>1, <3>1, <3>2 DEF Range
  <2>3. CASE i # base + 1
    <3>1. \A k \in DOMAIN heads : links(i)[k][1] = i - 1
      BY <2>3
    <3>2. DOMAIN links(i) = DOMAIN heads
      OBVIOUS
    <3>3. i - 1 \in new /\ i - 1 < i
      BY <1>2, <1>3, <2>3
    <3> HIDE DEF links, new
    <3> QED BY <2>1, <3>1, <3>2, <3>3 DEF Range
  <2> QED BY <2>2, <2>3
<1> HIDE DEF new
<1>7. DOMAIN chain = new /\ \A i \in new : chain[i] = node(i)
  BY <1>1
<1>8. ASSUME NEW i \in new
      PROVE  /\ DOMAIN chain[i] = NodeFields /\ chain[i].anchors = {}
             /\ chain[i].inputs = "object"
             /\ Inputs(chain, i) \subseteq {heads[k][1] : k \in DOMAIN heads}
                                              \cup {j \in new : j < i}
  BY <1>6, <1>7 DEF Inputs
<1> QED BY <1>4, <1>5, <1>7, <1>8 DEF chain

\* The graph of a template, and graphs in which the LoRA chains can be spliced.
Fit(g, sources) == Closed(g) /\ Acyclic(g) /\ FedByNone(g, sources)

\* An injector that raises nothing returns a graph, and one that is fit or can be filled
\* in if the one it got could.
Sound(g, sources, r) ==
    r.err = "none" => /\ IsGraph(r.graph)
                      /\ Fillable(g) => Fillable(r.graph)
                      /\ Fit(g, sources) => Fit(r.graph, sources)

LEMMA WiringIsSound ==
    ASSUME NEW g, NEW h, IsGraph(g), SameWiring(g, h), NEW sources
    PROVE  /\ IsGraph(h)
           /\ Fillable(g) => Fillable(h)
           /\ Fit(g, sources) => Fit(h, sources)
BY WiringIsGraph, WiringFilled, WiringInputs DEF Fit

\* New nodes have no anchors; the others keep theirs and, if they are sources, no inputs.
LEMMA SplicedIsFit ==
    ASSUME NEW g, NEW h, IsGraph(h), NEW nodes, Spliced(g, h, nodes), NEW sources,
           \A i \in DOMAIN g : /\ h[i].anchors = g[i].anchors
                               /\ Inputs(g, i) = {} /\ g[i].anchors \cap sources # {}
                                     => Inputs(h, i) = {},
           \A i \in DOMAIN h \ DOMAIN g : h[i].anchors = {},
           Fit(g, sources)
    PROVE  Fit(h, sources)
<1>1. Closed(h) /\ Acyclic(h)
  BY SplicedIsAcyclic DEF Fit
<1>2. ASSUME NEW i \in DOMAIN h, h[i].anchors \cap sources # {}
      PROVE  Inputs(h, i) = {} /\ h[i].anchors \cap {"WAN_SHIFT", "WAN_SHIFT_LOW"} = {}
  <2>1. i \in DOMAIN g /\ h[i].anchors = g[i].anchors
    BY <1>2
  <2> QED BY <1>2, <2>1 DEF Fit, FedByNone
<1> QED BY <1>1, <1>2 DEF Fit, FedByNone

LEMMA SplicedIsFillable ==
    ASSUME NEW g, NEW h, Fillable(g),
           \A i \in DOMAIN g : /\ h[i].class = g[i].class /\ h[i].anchors = g[i].anchors
                               /\ h[i].inputs = g[i].inputs,
           \A i \in DOMAIN h \ DOMAIN g : h[i].inputs = "object"
    PROVE  Fillable(h)
BY DEF Fillable

LEMMA RewriteShape ==
    ASSUME NEW g, NEW from, NEW to, NEW skip, \A i \in DOMAIN g : DOMAIN g[i] = NodeFields
    PROVE  LET h == rewrite_inputs(g, from, to, skip) IN
           /\ DOMAIN h = DOMAIN g
           /\ \A i \in DOMAIN g :
                 /\ DOMAIN h[i] = NodeFields /\ h[i].anchors = g[i].anchors
                 /\ h[i].class = g[i].class /\ h[i].inputs = g[i].inputs
                 /\ i \in skip => Inputs(h, i) = Inputs(g, i)
                 /\ Inputs(h, i) \subseteq Inputs(g, i) \cup {to[1]}
                 /\ Inputs(g, i) = {} => Inputs(h, i) = {}
<1> DEFINE links(i) == [k \in DOMAIN g[i].links |->
                          IF g[i].links[k] = from THEN to ELSE g[i].links[k]]
           h == rewrite_inputs(g, from, to, skip)
<1>1. h = [i \in DOMAIN g |-> IF i \in skip THEN g[i] ELSE [g[i] EXCEPT !.links = links(i)]]
  BY DEF rewrite_inputs
<1> HIDE DEF h
<1>2. ASSUME NEW i \in DOMAIN g
      PROVE  /\ DOMAIN h[i] = NodeFields /\ h[i].anchors = g[i].anchors
             /\ h[i].class = g[i].class /\ h[i].inputs = g[i].inputs
             /\ i \in skip => Inputs(h, i) = Inputs(g, i)
             /\ Inputs(h, i) \subseteq Inputs(g, i) \cup {to[1]}
             /\ Inputs(g, i) = {} => Inputs(h, i) = {}
  <2>1. CASE i \in skip
    <3>1. h[i] = g[i]
      BY <1>1, <2>1
    <3> QED BY <3>1 DEF Inputs
  <2>2. CASE i \notin skip
    <3>1. h[i] = [g[i] EXCEPT !.links = links(i)]
      BY <1>1, <2>2
    <3>2. DOMAIN links(i) = DOMAIN g[i].links
      OBVIOUS
    <3>3. \A k \in DOMAIN g[i].links : links(i)[k] \in {to, g[i].links[k]}
      OBVIOUS
    <3> HIDE DEF links
    <3>4. /\ DOMAIN h[i] = NodeFields /\ h[i].anchors = g[i].anchors /\ h[i].links = links(i)
          /\ h[i].class = g[i].class /\ h[i].inputs = g[i].inputs
      BY <3>1 DEF NodeFields
    <3>5. Inputs(h, i) = {links(i)[k][1] : k \in DOMAIN g[i].links}
      BY <3>2, <3>4 DEF Inputs, Range
    <3>6. Inputs(g, i) = {g[i].links[k][1] : k \in DOMAIN g[i].links}
      BY DEF Inputs, Range
    <3>7. Inputs(h, i) \subseteq Inputs(g, i) \cup {to[1]}
      BY <3>3, <3>5, <3>6
    <3>8. Inputs(g, i) = {} => Inputs(h, i) = {}
      BY <3>5, <3>6
    <3> QED BY <2>2, <3>4, <3>7, <3>8
  <2> QED BY <2>1, <2>2
<1>3. DOMAIN h = DOMAIN g
  BY <1>1
<1> QED BY <1>2, <1>3 DEF h

\* Two graphs side by side.
LEMMA OverShape ==
    ASSUME NEW g, NEW chain, DOMAIN g \cap DOMAIN chain = {}
    PROVE  LET h == Over(g, chain) IN
           /\ DOMAIN h = DOMAIN g \cup DOMAIN chain
           /\ \A i \in DOMAIN g : h[i] = g[i] /\ Inputs(h, i) = Inputs(g, i)
           /\ \A i \in DOMAIN chain : h[i] = chain[i] /\ Inputs(h, i) = Inputs(chain, i)
<1> DEFINE h == Over(g, chain)
<1>1. /\ DOMAIN h = DOMAIN g \cup DOMAIN chain
      /\ \A i \in DOMAIN g : h[i] = g[i]
      /\ \A i \in DOMAIN chain : h[i] = chain[i]
  BY DEF Over
<1> HIDE DEF h
<1>2. /\ \A i \in DOMAIN g : Inputs(h, i) = Inputs(g, i)
      /\ \A i \in DOMAIN chain : Inputs(h, i) = Inputs(chain, i)
  BY <1>1 DEF Inputs
<1> QED BY <1>1, <1>2 DEF h

\* inject_loras: the consumers of the sources are fed by the end of the chain.
LEMMA LorasAreSpliced ==
    ASSUME NEW g, IsGraph(g), NEW S, NEW loras \in Seq(S)
    PROVE  Sound(g, {"MODEL_SOURCE", "CLIP_SOURCE"}, inject_loras(g, loras))
<1> DEFINE sources == {"MODEL_SOURCE", "CLIP_SOURCE"}
           ms == find_anchor(g, "MODEL_SOURCE")
           cs == find_anchor(g, "CLIP_SOURCE")
           model == <<ms, infer_output_slot(g, ms, 0)>>
           clip == <<cs, infer_output_slot(g, cs, 1)>>
           heads == [model |-> model, clip |-> clip]
           chain == LoraChain(g, "LoraLoader", loras, heads)
           new == DOMAIN chain
           h == Over(g, chain)
           g1 == rewrite_inputs(h, model, <<Max(new), 0>>, new)
           g2 == rewrite_inputs(g1, clip, <<Max(new), 1>>, new)
           r == inject_loras(g, loras)
<1>1. r = IF loras = <<>> THEN Ok(g)
          ELSE IF ~HasAnchors(g, sources) THEN Raise("workflow") ELSE Ok(g2)
  BY DEF inject_loras
<1>2. CASE loras = <<>>
  BY <1>1, <1>2 DEF Sound, Ok
<1>3. CASE loras # <<>> /\ ~HasAnchors(g, sources)
  BY <1>1, <1>3 DEF Sound, Raise
<1>4. CASE loras # <<>> /\ HasAnchors(g, sources)
  <2>1. r = Ok(g2)
    <3> HIDE DEF r, g2
    <3> QED BY <1>1, <1>4
  <2>2. /\ ms \in DOMAIN g /\ g[ms].anchors \cap sources # {}
        /\ cs \in DOMAIN g /\ g[cs].anchors \cap sources # {}
    BY <1>4, AnchorFound DEF HasAnchors, Owners
  <2>3. {heads[k][1] : k \in DOMAIN heads} = {ms, cs}
    <3>1. model[1] = ms /\ clip[1] = cs
      OBVIOUS
    <3> HIDE DEF model, clip
    <3> QED BY <3>1
  <2> HIDE DEF heads, model, clip
  <2>4. /\ new \in SUBSET Nat /\ IsFiniteSet(new) /\ new \cap DOMAIN g = {}
        /\ Max(new) \in new
        /\ \A i \in new : /\ DOMAIN chain[i] = NodeFields /\ chain[i].anchors = {}
                          /\ chain[i].inputs = "object"
                          /\ Inputs(chain, i) \subseteq {ms, cs} \cup {j \in new : j < i}
    BY <1>4, <2>2, <2>3, ChainShape
  <2> HIDE DEF chain, ms, cs
  <2>5. /\ DOMAIN h = DOMAIN g \cup new
        /\ \A i \in DOMAIN g : h[i] = g[i] /\ Inputs(h, i) = Inputs(g, i)
        /\ \A i \in new : h[i] = chain[i] /\ Inputs(h, i) = Inputs(chain, i)
    <3>1. DOMAIN g \cap DOMAIN chain = {}
      BY <2>4
    <3> HIDE DEF g1, g2, r
    <3> QED BY ONLY <3>1, OverShape
  <2>6. \A i \in DOMAIN h : DOMAIN h[i] = NodeFields
    BY <2>4, <2>5 DEF IsGraph, NodeFields
  <2> HIDE DEF new
  <2> DEFINE to1 == <<Max(new), 0>>
             to2 == <<Max(new), 1>>
  <2>7. to1[1] = Max(new) /\ to2[1] = Max(new)
    OBVIOUS
  <2> HIDE DEF h, to1, to2
  <2>8. /\ DOMAIN g1 = DOMAIN h
        /\ \A i \in DOMAIN h :
              /\ DOMAIN g1[i] = NodeFields /\ g1[i].anchors = h[i].anchors
              /\ g1[i].class = h[i].class /\ g1[i].inputs = h[i].inputs
              /\ i \in new => Inputs(g1, i) = Inputs(h, i)
              /\ Inputs(g1, i) \subseteq Inputs(h, i) \cup {Max(new)}
              /\ Inputs(h, i) = {} => Inputs(g1, i) = {}
    <3>1. g1 = rewrite_inputs(h, model, to1, new)
      BY DEF to1
    <3> HIDE DEF g1
    <3> QED BY <2>6, <2>7, <3>1, RewriteShape
  <2> HIDE DEF g1
  <2>9. /\ DOMAIN g2 = DOMAIN h
        /\ \A i \in DOMAIN h :
              /\ DOMAIN g2[i] = NodeFields /\ g2[i].anchors = g1[i].anchors
              /\ g2[i].class = g1[i].class /\ g2[i].inputs = g1[i].inputs
              /\ i \in new => Inputs(g2, i) = Inputs(g1, i)
              /\ Inputs(g2, i) \subseteq Inputs(g1, i) \cup {Max(new)}
              /\ Inputs(g1, i) = {} => Inputs(g2, i) = {}
    <3>1. g2 = rewrite_inputs(g1, clip, to2, new)
      BY DEF to2
    <3> HIDE DEF g2
    <3> QED BY <2>7, <2>8, <3>1, RewriteShape
  <2> HIDE DEF g2
  <2>10. IsGraph(g2)
    <3>1. DOMAIN g \subseteq Nat /\ IsFiniteSet(DOMAIN g) /\ DOMAIN g2 = DOMAIN g \cup new
      BY <2>5, <2>9 DEF IsGraph
    <3>2. IsFiniteSet(DOMAIN g \cup new)
      BY ONLY <2>4, <3>1, FS_Union
    <3>3. IsFiniteSet(DOMAIN g2) /\ DOMAIN g2 \subseteq Nat
      BY <2>4, <3>1, <3>2
    <3> QED BY <2>5, <2>9, <3>1, <3>3 DEF IsGraph, NodeFields
  <2>11. DOMAIN g2 \ DOMAIN g = new
    BY <2>4, <2>5, <2>9
  <2>12. ASSUME NEW i \in DOMAIN g
         PROVE  /\ g2[i].anchors = g[i].anchors
                /\ Inputs(g2, i) \subseteq Inputs(g, i) \cup new
                /\ Inputs(g, i) = {} => Inputs(g2, i) = {}
    BY <2>4, <2>5, <2>8, <2>9
  <2>13. ASSUME NEW i \in new
         PROVE  g2[i].anchors = {} /\ Inputs(g2, i) \subseteq {ms, cs} \cup {j \in new : j < i}
    BY <2>4, <2>5, <2>8, <2>9
  <2>14. ASSUME Fit(g, sources)
         PROVE  Fit(g2, sources)
    <3>1. Inputs(g, ms) = {} /\ Inputs(g, cs) = {}
      BY <2>2, <2>14 DEF Fit, FedByNone
    <3>2. Spliced(g, g2, {ms, cs})
      BY <2>2, <2>5, <2>9, <2>11, <2>12, <2>13, <3>1 DEF Spliced
    <3> HIDE DEF sources
    <3> QED BY <2>10, <2>11, <2>12, <2>13, <2>14, <3>2, SplicedIsFit
  <2>15. Fillable(g) => Fillable(g2)
    <3>1. \A i \in DOMAIN g : /\ g2[i].class = g[i].class /\ g2[i].anchors = g[i].anchors
                              /\ g2[i].inputs = g[i].inputs
      BY <2>5, <2>8, <2>9
    <3>2. \A i \in new : g2[i].inputs = "object"
      BY <2>4, <2>5, <2>8, <2>9
    <3> QED BY <2>11, <3>1, <3>2, SplicedIsFillable
  <2> HIDE DEF r
  <2> QED BY <2>1, <2>10, <2>14, <2>15 DEF Sound, Ok, r
<1> QED BY <1>2, <1>3, <1>4

\* The lists of LoRAs that the injectors cut from the request's.
LEMMA FirstNIsSeq ==
    ASSUME NEW S, NEW s \in Seq(S), s # <<>>
    PROVE  FirstN(s, WAN_MAX_LORAS) \in Seq(S) /\ FirstN(s, WAN_MAX_LORAS) # <<>>
<1> DEFINE T == {5, Len(s)}
           n == Min(T)
<1>1. Len(s) \in Nat /\ Len(s) >= 1
  BY EmptySeq, LenProperties
<1>2. n \in T /\ \A x \in T : n <= x
  <2>1. T \in SUBSET Nat /\ T # {}
    BY <1>1
  <2> HIDE DEF T
  <2>2. \E x \in T : \A y \in T : x <= y
    BY <2>1, LeastNat
  <2> QED BY <2>2 DEF Min
<1>3. n \in 1..Len(s)
  BY <1>1, <1>2
<1>4. FirstN(s, WAN_MAX_LORAS) = SubSeq(s, 1, n)
  BY DEF FirstN, WAN_MAX_LORAS
<1> HIDE DEF n
<1>5. SubSeq(s, 1, n) \in Seq(S) /\ Len(SubSeq(s, 1, n)) = n
  BY <1>1, <1>3, SubSeqProperties
<1> QED BY <1>3, <1>4, <1>5, EmptySeq

LEMMA PathLorasAreSeqs ==
    ASSUME NEW S, NEW s \in Seq(S)
    PROVE  HighLoras(s) \in Seq(S) /\ LowLoras(s) \in Seq(S)
<1>1. Len(s) \in Nat /\ DOMAIN s = 1..Len(s) /\ \A i \in 1..Len(s) : s[i] \in S
  BY LenProperties
<1>2. CASE Len(s) >= 2
  <2>1. s[1] \in S /\ s[2] \in S
    BY <1>1, <1>2
  <2>2. <<s[1]>> \in Seq(S) /\ <<s[2]>> \in Seq(S)
    BY <2>1
  <2>3. SubSeq(s, 3, Len(s)) \in Seq(S)
    BY <1>1, <1>2, SubSeqProperties
  <2>4. <<s[1]>> \o SubSeq(s, 3, Len(s)) \in Seq(S)
    BY <2>2, <2>3, ConcatProperties
  <2> QED BY <1>2, <2>2, <2>4 DEF HighLoras, LowLoras
<1>3. CASE ~(Len(s) >= 2)
  BY <1>3, EmptySeq DEF HighLoras, LowLoras
<1> QED BY <1>2, <1>3

WanSources == {"WAN_MODEL", "WAN_MODEL_LOW"}

\* inject_wan_core_loras_between: the chain feeds the shift node.
LEMMA CoreLorasAreSpliced ==
    ASSUME NEW g, IsGraph(g), NEW S, NEW loras \in Seq(S), NEW model \in WanSources,
           NEW shift \in {"WAN_SHIFT", "WAN_SHIFT_LOW"}
    PROVE  Sound(g, WanSources, inject_wan_core_loras_between(g, loras, model, shift))
<1> DEFINE ms == find_anchor(g, model)
           s == find_anchor(g, shift)
           heads == [k \in {"model"} |-> <<ms, 0>>]
           first == FirstN(loras, WAN_MAX_LORAS)
           chain == LoraChain(g, "LoraLoaderModelOnly", first, heads)
           new == DOMAIN chain
           k == Over(g, chain)
           end == [x \in {"model"} |-> <<Max(new), 0>>]
           h == [k EXCEPT ![s].links = Over(end, @)]
           r == inject_wan_core_loras_between(g, loras, model, shift)
<1>1. r = IF loras = <<>> THEN Ok(g)
          ELSE IF ~HasAnchors(g, {model, shift}) THEN Raise("workflow")
          ELSE IF Bare(g, shift) THEN Ok(k) ELSE Ok(h)
  <2> DEFINE start == [model |-> <<ms, 0>>]
             tail == [model |-> <<Max(new), 0>>]
  <2>1. start = heads /\ tail = end
    OBVIOUS
  <2> HIDE DEF start, tail
  <2> QED BY <2>1 DEF inject_wan_core_loras_between, start, tail
<1>2. CASE loras = <<>>
  BY <1>1, <1>2 DEF Sound, Ok
<1>3. CASE loras # <<>> /\ ~HasAnchors(g, {model, shift})
  BY <1>1, <1>3 DEF Sound, Raise
<1>4. CASE loras # <<>> /\ HasAnchors(g, {model, shift})
  <2>1. r = Ok(k) \/ r = Ok(h)
    <3> HIDE DEF r, h, k
    <3> QED BY <1>1, <1>4
  <2>2. /\ ms \in DOMAIN g /\ model \in g[ms].anchors
        /\ s \in DOMAIN g /\ shift \in g[s].anchors
    BY <1>4, AnchorFound DEF HasAnchors, Owners
  <2>3. {heads[x][1] : x \in DOMAIN heads} = {ms}
    OBVIOUS
  <2>4. first \in Seq(S) /\ first # <<>>
    BY <1>4, FirstNIsSeq
  <2> HIDE DEF heads, first
  <2>5. /\ new \in SUBSET Nat /\ IsFiniteSet(new) /\ new \cap DOMAIN g = {}
        /\ Max(new) \in new
        /\ \A i \in new : /\ DOMAIN chain[i] = NodeFields /\ chain[i].anchors = {}
                          /\ chain[i].inputs = "object"
                          /\ Inputs(chain, i) \subseteq {ms} \cup {j \in new : j < i}
    <3>1. DOMAIN g # {}
      BY <2>2
    <3> HIDE DEF ms
    <3>2. /\ new \in SUBSET Nat /\ IsFiniteSet(new) /\ new \cap DOMAIN g = {}
          /\ Max(new) \in new
          /\ \A i \in new : /\ DOMAIN chain[i] = NodeFields /\ chain[i].anchors = {}
                            /\ chain[i].inputs = "object"
                            /\ Inputs(chain, i) \subseteq {heads[x][1] : x \in DOMAIN heads}
                                                              \cup {j \in new : j < i}
      BY ONLY IsGraph(g), <2>4, <3>1, ChainShape
    <3> HIDE DEF chain, new
    <3> QED BY ONLY <2>3, <3>2
  <2> HIDE DEF chain, ms, s
  <2>6. /\ DOMAIN k = DOMAIN g \cup new
        /\ \A i \in DOMAIN g : k[i] = g[i] /\ Inputs(k, i) = Inputs(g, i)
        /\ \A i \in new : k[i] = chain[i] /\ Inputs(k, i) = Inputs(chain, i)
    <3>1. DOMAIN g \cap DOMAIN chain = {}
      BY <2>5
    <3> HIDE DEF h, r
    <3> QED BY ONLY <3>1, OverShape
  <2>7. \A i \in DOMAIN k : DOMAIN k[i] = NodeFields
    BY <2>5, <2>6 DEF IsGraph, NodeFields
  <2> HIDE DEF new, k
  <2> DEFINE links == Over(end, k[s].links)
  <2>8. Range(links) \subseteq Range(k[s].links) \cup {<<Max(new), 0>>}
    <3>1. \A x \in DOMAIN links : links[x] \in Range(k[s].links) \cup {<<Max(new), 0>>}
      BY DEF Over, Range
    <3> HIDE DEF links
    <3> QED BY <3>1 DEF Range
  <2>9. h = [k EXCEPT ![s] = [k[s] EXCEPT !.links = links]]
    OBVIOUS
  <2> HIDE DEF links, h
  <2>10. DOMAIN h = DOMAIN k /\ \A i \in DOMAIN k : i # s => h[i] = k[i]
    BY <2>9
  <2>11. /\ DOMAIN h[s] = NodeFields /\ h[s].anchors = k[s].anchors /\ h[s].links = links
         /\ h[s].class = k[s].class /\ h[s].inputs = k[s].inputs
    <3>1. h[s] = [k[s] EXCEPT !.links = links]
      BY <2>2, <2>6, <2>9
    <3> QED BY <2>2, <2>6, <2>7, <3>1 DEF NodeFields
  <2>12. \A i \in DOMAIN k : i # s => Inputs(h, i) = Inputs(k, i)
    BY <2>10 DEF Inputs
  <2>13. Inputs(h, s) \subseteq Inputs(k, s) \cup {Max(new)}
    <3>1. \A l \in Range(links) : l \in Range(k[s].links) \/ l[1] = Max(new)
      BY <2>8
    <3> QED BY <2>11, <3>1 DEF Inputs
  <2>14. IsGraph(h) /\ IsGraph(k)
    <3>1. /\ DOMAIN g \subseteq Nat /\ IsFiniteSet(DOMAIN g) /\ DOMAIN h = DOMAIN g \cup new
          /\ DOMAIN k = DOMAIN g \cup new
      BY <2>6, <2>10 DEF IsGraph
    <3>2. IsFiniteSet(DOMAIN g \cup new)
      BY ONLY <2>5, <3>1, FS_Union
    <3>3. /\ IsFiniteSet(DOMAIN h) /\ DOMAIN h \subseteq Nat
          /\ IsFiniteSet(DOMAIN k) /\ DOMAIN k \subseteq Nat
      BY <2>5, <3>1, <3>2
    <3> QED BY <2>7, <2>10, <2>11, <3>3 DEF IsGraph, NodeFields
  <2>15. DOMAIN h \ DOMAIN g = new
    BY <2>5, <2>6, <2>10
  <2>16. ASSUME NEW i \in DOMAIN g
         PROVE  /\ h[i].anchors = g[i].anchors
                /\ Inputs(h, i) \subseteq Inputs(g, i) \cup new
                /\ i # s => Inputs(h, i) = Inputs(g, i)
    BY <2>5, <2>6, <2>10, <2>11, <2>12, <2>13
  <2>17. ASSUME NEW i \in new
         PROVE  h[i].anchors = {} /\ Inputs(h, i) \subseteq {ms} \cup {j \in new : j < i}
    <3>1. i # s /\ i \in DOMAIN k
      BY <2>2, <2>5, <2>6
    <3> QED BY <2>5, <2>6, <2>10, <2>12, <3>1
  <2>18. ASSUME Fit(g, WanSources)
         PROVE  Fit(h, WanSources)
    <3>1. Inputs(g, ms) = {} /\ \A i \in DOMAIN g : g[i].anchors \cap WanSources # {} => i # s
      BY <2>2, <2>18 DEF Fit, FedByNone
    <3>2. ms # s
      BY <2>2, <3>1
    <3>3. Spliced(g, h, {ms})
      BY <2>2, <2>6, <2>10, <2>15, <2>16, <2>17, <3>1, <3>2 DEF Spliced
    <3>4. \A i \in DOMAIN g : /\ h[i].anchors = g[i].anchors
                              /\ Inputs(g, i) = {} /\ g[i].anchors \cap WanSources # {}
                                    => Inputs(h, i) = {}
      BY <2>16, <3>1
    <3> QED BY <2>14, <2>15, <2>17, <2>18, <3>3, <3>4, SplicedIsFit
  <2>19. Fit(g, WanSources) => Fit(k, WanSources)
    <3> SUFFICES ASSUME Fit(g, WanSources)
                 PROVE  Fit(k, WanSources)
      OBVIOUS
    <3>1. Inputs(g, ms) = {}
      BY <2>2 DEF Fit, FedByNone
    <3>2. DOMAIN k \ DOMAIN g = new
      BY <2>5, <2>6
    <3>3. /\ \A i \in DOMAIN g : k[i].anchors = g[i].anchors /\ Inputs(k, i) = Inputs(g, i)
          /\ \A i \in new : /\ k[i].anchors = {}
                            /\ Inputs(k, i) \subseteq {ms} \cup {j \in new : j < i}
      BY <2>5, <2>6
    <3>4. Spliced(g, k, {ms})
      BY <2>2, <2>6, <3>1, <3>2, <3>3 DEF Spliced
    <3> QED BY <2>14, <3>2, <3>3, <3>4, SplicedIsFit
  <2>20. Fillable(g) => Fillable(k) /\ Fillable(h)
    <3>1. \A i \in DOMAIN g : /\ k[i].class = g[i].class /\ k[i].anchors = g[i].anchors
                              /\ k[i].inputs = g[i].inputs
      BY <2>6
    <3>2. DOMAIN k \ DOMAIN g = new /\ \A i \in new : k[i].inputs = "object"
      BY <2>5, <2>6
    <3>3. \A i \in DOMAIN k : /\ h[i].class = k[i].class /\ h[i].anchors = k[i].anchors
                              /\ h[i].inputs = k[i].inputs
      BY <2>10, <2>11
    <3>4. Fillable(g) => Fillable(k)
      BY <3>1, <3>2, SplicedIsFillable
    <3>5. Fillable(k) => Fillable(h)
      BY <2>10, <3>3, SplicedIsFillable
    <3> QED BY <3>4, <3>5
  <2> HIDE DEF r
  <2> QED BY <2>1, <2>14, <2>18, <2>19, <2>20 DEF Sound, Ok, r
<1> QED BY <1>2, <1>3, <1>4

LEMMA SoundTrans ==
    ASSUME NEW g, NEW sources, NEW r, NEW q, r.err = "none", Sound(g, sources, r),
           Sound(r.graph, sources, q)
    PROVE  Sound(g, sources, q)
BY DEF Sound

LEMMA AllCoreLorasAreSpliced ==
    ASSUME NEW g, IsGraph(g), NEW S, NEW loras \in Seq(S)
    PROVE  Sound(g, WanSources, inject_wan_core_loras(g, loras))
<1> DEFINE high == HighLoras(loras)
           low == LowLoras(loras)
           first == inject_wan_core_loras_between(g, high, "WAN_MODEL", "WAN_SHIFT")
           second == inject_wan_core_loras_between(first.graph, low, "WAN_MODEL_LOW",
                                                   "WAN_SHIFT_LOW")
           only == inject_wan_core_loras_between(g, loras, "WAN_MODEL", "WAN_SHIFT")
           r == inject_wan_core_loras(g, loras)
<1>1. high \in Seq(S) /\ low \in Seq(S)
  BY PathLorasAreSeqs
<1>2. r = IF ~IsDual(g) THEN only
          ELSE IF first.err = "none" THEN second ELSE first
  BY DEF inject_wan_core_loras, Then
<1> HIDE DEF high, low
<1>3. Sound(g, WanSources, only) /\ Sound(g, WanSources, first)
  BY <1>1, CoreLorasAreSpliced DEF WanSources
<1>4. ASSUME first.err = "none"
      PROVE  Sound(g, WanSources, second)
  <2>1. IsGraph(first.graph)
    BY <1>3, <1>4 DEF Sound
  <2>2. Sound(first.graph, WanSources, second)
    BY <1>1, <2>1, CoreLorasAreSpliced DEF WanSources
  <2> QED BY <1>3, <1>4, <2>2, SoundTrans
<1> HIDE DEF only, first, second, r
<1>5. Sound(g, WanSources, r)
  BY <1>2, <1>3, <1>4
<1> QED BY <1>5 DEF r

-----------------------------------------------------------------------------
(* What load_registry has checked of an entry.                             *)

\* A list of checks given as a function.
LEMMA ChecksOfFunction ==
    ASSUME NEW n \in Nat, NEW q, q = [i \in 1..n |-> q[i]], \A i \in 1..n : q[i][1] # "ok"
    PROVE  CheckList(q) /\ (NoneFailed(q) => \A i \in 1..n : ~q[i][2])
<1>1. \A i \in 1..n : q[i] \in Elements(q)
  BY DEF Elements
<1>2. q \in [1..n -> Elements(q)]
  BY <1>1
<1>3. q \in Seq(Elements(q))
  BY <1>2, SeqDef
<1>4. Elements(q) = {q[i] : i \in 1..n}
  BY DEF Elements
<1>5. Coded(q)
  BY <1>4 DEF Coded
<1>6. NoneFailed(q) => \A i \in 1..n : ~q[i][2]
  BY <1>1 DEF NoneFailed
<1> QED BY <1>3, <1>5, <1>6 DEF CheckList

LEMMA EntryChecksPassed ==
    ASSUME NEW before, NEW m
    PROVE  /\ CheckList(EntryChecks(before, m))
           /\ NoneFailed(EntryChecks(before, m)) => m.prediction # "vpred"
<1> DEFINE q == EntryChecks(before, m)
           image == m.family \notin VideoFamilies
           b1 == m.name \in before
           b2 == m.backend # "comfyui"
           b3 == m.prediction \notin {"eps", "vpred"}
           b4 == m.family \notin Families
           b5 == m.prediction = "vpred"
           b6 == image /\ m.sampler \notin AllowedSamplers(m.family) \cup {None}
           b7 == image /\ m.scheduler \notin AllowedSchedulers(m.family) \cup {None}
<1>1. q = << <<"duplicate_name", b1>>, <<"unknown_backend", b2>>, <<"unknown_prediction", b3>>,
             <<"unknown_family", b4>>, <<"vpred_deferred", b5>>, <<"unknown_sampler", b6>>,
             <<"unknown_scheduler", b7>> >>
  BY DEF EntryChecks
<1> HIDE DEF q, b1, b2, b3, b4, b5, b6, b7
<1>2. q = [i \in 1..7 |-> q[i]] /\ q[5][2] = b5 /\ \A i \in 1..7 : q[i][1] # "ok"
  BY <1>1
<1>3. CheckList(q) /\ (NoneFailed(q) => \A i \in 1..7 : ~q[i][2])
  BY <1>2, ChecksOfFunction
<1>4. NoneFailed(q) => ~b5
  BY <1>2, <1>3
<1> QED BY <1>3, <1>4 DEF q, b5

LEMMA VideoChecksPassed ==
    ASSUME NEW m
    PROVE  /\ CheckList(VideoChecks(m))
           /\ NoneFailed(VideoChecks(m)) /\ m.family = "wan22" =>
                 /\ m.task \in VideoTasks
                 /\ m.assets.wan_t5_encoder # None /\ m.assets.vae # None
           /\ NoneFailed(VideoChecks(m)) /\ m.family = "ltxv" =>
                 m.assets.ltxv_text_encoder # None
<1> DEFINE q == VideoChecks(m)
           wan == m.family = "wan22"
           ltxv == m.family = "ltxv"
           b1 == wan /\ m.task \notin VideoTasks
           b2 == wan /\ m.assets.wan_t5_encoder = None
           b3 == wan /\ m.task = "i2v" /\ m.assets.wan_clip_vision = None
           b4 == wan /\ m.assets.vae = None
           b5 == ltxv /\ m.task \notin VideoTasks
           b6 == ltxv /\ m.assets.ltxv_text_encoder = None
<1>1. q = << <<"wan22_video_task", b1>>, <<"wan22_t5_missing", b2>>, <<"wan22_clip_missing", b3>>,
             <<"wan22_vae_missing", b4>>, <<"ltxv_video_task", b5>>,
             <<"ltxv_text_encoder_missing", b6>> >>
  BY DEF VideoChecks
<1> HIDE DEF q, b1, b2, b3, b4, b5, b6
<1>2. /\ q = [i \in 1..6 |-> q[i]] /\ \A i \in 1..6 : q[i][1] # "ok"
      /\ q[1][2] = b1 /\ q[2][2] = b2 /\ q[4][2] = b4 /\ q[6][2] = b6
  BY <1>1
<1>3. CheckList(q) /\ (NoneFailed(q) => \A i \in 1..6 : ~q[i][2])
  BY <1>2, ChecksOfFunction
<1>4. NoneFailed(q) => ~b1 /\ ~b2 /\ ~b4 /\ ~b6
  BY <1>2, <1>3
<1> QED BY <1>3, <1>4 DEF q, b1, b2, b4, b6

LEMMA AssetChecksPassed ==
    ASSUME NEW files, NEW m
    PROVE  CheckList(AssetChecks(files, m))
<1> DEFINE q == AssetChecks(files, m)
           failed(i) == Absent(files, m, m.assets[AssetFields[i]])
<1>1. DOMAIN AssetFields = 1..8
  BY DEF AssetFields
<1>2. q = [i \in 1..8 |-> <<"asset_missing", failed(i)>>]
  BY <1>1 DEF AssetChecks
<1> HIDE DEF q, failed
<1>3. q = [i \in 1..8 |-> q[i]] /\ \A i \in 1..8 : q[i][1] # "ok"
  BY <1>2
<1> QED BY <1>3, ChecksOfFunction DEF q

LEMMA MmaudioChecksPassed ==
    ASSUME NEW files, NEW m, DOMAIN m.mmaudio = Range(MmaudioFields)
    PROVE  /\ CheckList(MmaudioChecks(files, m))
           /\ NoneFailed(MmaudioChecks(files, m)) /\ m.workflow_with_audio # None =>
                 None \notin Range(m.mmaudio)
<1> DEFINE q == MmaudioChecks(files, m)
           file(i) == m.mmaudio[MmaudioFields[(i + 1) \div 2]]
           named(i) == <<"mmaudio_config_incomplete",
                         m.workflow_with_audio # None /\ file(i) = None>>
           there(i) == <<"mmaudio_asset_missing",
                         m.workflow_with_audio # None /\ Absent(files, m, file(i))>>
<1>1. 2 * Len(MmaudioFields) = 8
  BY DEF MmaudioFields
<1>2. q = [i \in 1..8 |-> IF i % 2 = 1 THEN named(i) ELSE there(i)]
  BY <1>1 DEF MmaudioChecks
<1>3. \A i \in 1..8 : /\ named(i)[1] # "ok" /\ there(i)[1] # "ok"
                      /\ named(i)[2] = (m.workflow_with_audio # None /\ file(i) = None)
  OBVIOUS
<1> HIDE DEF q, named, there
<1>4. q = [i \in 1..8 |-> q[i]] /\ \A i \in 1..8 : q[i][1] # "ok"
  BY <1>2, <1>3
<1>5. CheckList(q) /\ (NoneFailed(q) => \A i \in 1..8 : ~q[i][2])
  BY <1>4, ChecksOfFunction
<1>6. ASSUME NoneFailed(q), m.workflow_with_audio # None
      PROVE  None \notin Range(m.mmaudio)
  <2>1. q[1] = named(1) /\ q[3] = named(3) /\ q[5] = named(5) /\ q[7] = named(7)
    BY <1>2
  <2>2. ~named(1)[2] /\ ~named(3)[2] /\ ~named(5)[2] /\ ~named(7)[2]
    BY <1>5, <1>6, <2>1
  <2>3. file(1) # None /\ file(3) # None /\ file(5) # None /\ file(7) # None
    BY <1>6, <2>2 DEF named
  <2>4. /\ file(1) = m.mmaudio["vae"] /\ file(3) = m.mmaudio["synchformer"]
        /\ file(5) = m.mmaudio["clip"] /\ file(7) = m.mmaudio["diffusion"]
    BY DEF MmaudioFields
  <2>5. Range(MmaudioFields) = {"vae", "synchformer", "clip", "diffusion"}
    BY DEF Range, MmaudioFields
  <2> HIDE DEF file
  <2>6. \A f \in DOMAIN m.mmaudio : m.mmaudio[f] # None
    BY <2>3, <2>4, <2>5
  <2> QED BY <2>6 DEF Range
<1> QED BY <1>5, <1>6 DEF q

\* What load_registry has made sure of when it accepts an entry.
Checked(templates, m) ==
    /\ m.prediction # "vpred"
    /\ m.workflow \in DOMAIN templates
    /\ HasAnchors(templates[m.workflow], RequiredAnchors(m.family, m.task))
    /\ validate_anchors(templates[m.workflow], RequiredAnchors(m.family, m.task))
    /\ m.family = "ltxv" => m.assets.ltxv_text_encoder # None
    /\ m.family = "wan22" =>
          /\ m.task \in VideoTasks
          /\ m.assets.wan_t5_encoder # None /\ m.assets.vae # None
          /\ HasAnchor(templates[m.workflow], "WAN_MODEL_LOW") => m.assets.wan_unet_low # None
    /\ m.workflow_with_audio # None =>
          /\ m.workflow_with_audio \in DOMAIN templates
          /\ HasAnchors(templates[m.workflow_with_audio],
                        required_anchors_for_wan22_audio_task(m.task))
          /\ validate_anchors(templates[m.workflow_with_audio],
                              required_anchors_for_wan22_audio_task(m.task))
          /\ None \notin Range(m.mmaudio)

LEMMA AnchorsValidated ==
    ASSUME NEW g, NEW required, validate_anchors(g, required)
    PROVE  HasAnchors(g, required)
<1> SUFFICES ASSUME NEW a \in required, Owners(g, a) = {}
             PROVE  FALSE
  BY DEF HasAnchors, HasAnchor
<1>1. Cardinality(Owners(g, a)) = 1
  BY DEF validate_anchors
<1> QED BY <1>1, FS_EmptySet

LEMMA WorkflowChecksPassed ==
    ASSUME NEW templates, NEW m
    PROVE  /\ CheckList(WorkflowChecks(templates, m))
           /\ NoneFailed(WorkflowChecks(templates, m)) =>
                 /\ m.workflow \in DOMAIN templates
                 /\ HasAnchors(templates[m.workflow], RequiredAnchors(m.family, m.task))
                 /\ validate_anchors(templates[m.workflow], RequiredAnchors(m.family, m.task))
                 /\ m.family = "wan22" /\ HasAnchor(templates[m.workflow], "WAN_MODEL_LOW") =>
                       m.assets.wan_unet_low # None
                 /\ m.workflow_with_audio # None =>
                       /\ m.workflow_with_audio \in DOMAIN templates
                       /\ HasAnchors(templates[m.workflow_with_audio],
                                     required_anchors_for_wan22_audio_task(m.task))
                       /\ validate_anchors(templates[m.workflow_with_audio],
                                           required_anchors_for_wan22_audio_task(m.task))
<1> DEFINE q == WorkflowChecks(templates, m)
           wf == m.workflow
           audio == m.workflow_with_audio
           found == wf \in DOMAIN templates
           foundAudio == audio \in DOMAIN templates
           Low(path) == HasAnchor(templates[path], "WAN_MODEL_LOW")
           wan == m.family = "wan22"
           b1 == ~found
           b2 == found /\ ~validate_anchors(templates[wf], RequiredAnchors(m.family, m.task))
           b3 == found /\ wan /\ Low(wf) /\ m.assets.wan_unet_low = None
           b4 == found /\ wan /\ ~Low(wf) /\ m.assets.wan_unet_low # None
           b5 == audio # None /\ ~foundAudio
           b6 == foundAudio /\ \/ m.task \notin VideoTasks
                               \/ ~validate_anchors(templates[audio],
                                      required_anchors_for_wan22_audio_task(m.task))
           b7 == found /\ foundAudio /\ wan /\ Low(wf) # Low(audio)
           b8 == m.vram > VramBudget
<1>1. q = << <<"workflow_missing", b1>>, <<"anchors_missing", b2>>,
             <<"wan22_wan_unet_low_missing", b3>>, <<"wan22_wan_unet_low_unused", b4>>,
             <<"workflow_audio_missing", b5>>, <<"anchors_audio_missing", b6>>,
             <<"wan22_audio_low_mismatch", b7>>, <<"vram_over_budget", b8>> >>
  BY DEF WorkflowChecks
<1> HIDE DEF q, b1, b2, b3, b4, b5, b6, b7, b8
<1>2. /\ q = [i \in 1..8 |-> q[i]] /\ \A i \in 1..8 : q[i][1] # "ok"
      /\ q[1][2] = b1 /\ q[2][2] = b2 /\ q[3][2] = b3 /\ q[5][2] = b5 /\ q[6][2] = b6
  BY <1>1
<1>3. CheckList(q) /\ (NoneFailed(q) => \A i \in 1..8 : ~q[i][2])
  BY <1>2, ChecksOfFunction
<1>4. NoneFailed(q) => ~b1 /\ ~b2 /\ ~b3 /\ ~b5 /\ ~b6
  BY <1>2, <1>3
<1>5. ASSUME NoneFailed(q)
      PROVE  /\ found /\ validate_anchors(templates[wf], RequiredAnchors(m.family, m.task))
             /\ wan /\ Low(wf) => m.assets.wan_unet_low # None
             /\ audio # None =>
                   foundAudio /\ validate_anchors(templates[audio],
                                     required_anchors_for_wan22_audio_task(m.task))
  BY <1>4, <1>5 DEF b1, b2, b3, b5, b6
<1> QED BY <1>3, <1>5, AnchorsValidated DEF q

LEMMA EntryAccepted ==
    ASSUME NEW version, NEW before, NEW m, DOMAIN m.mmaudio = Range(MmaudioFields),
           EntryStage(version, before, m) = "ok"
    PROVE  Checked(version.templates, m)
<1> DEFINE entry == EntryChecks(before, m)
           video == VideoChecks(m)
           assets == AssetChecks(version.files, m)
           mmaudio == MmaudioChecks(version.files, m)
           workflow == WorkflowChecks(version.templates, m)
<1>1. /\ CheckList(entry) /\ CheckList(video) /\ CheckList(assets) /\ CheckList(mmaudio)
      /\ CheckList(workflow)
  BY EntryChecksPassed, VideoChecksPassed, AssetChecksPassed, MmaudioChecksPassed,
     WorkflowChecksPassed
<1>2. FirstFailure(entry \o video \o assets \o mmaudio \o workflow) = "ok"
  BY DEF EntryStage
<1>3. NoneFailed(entry) /\ NoneFailed(video) /\ NoneFailed(mmaudio) /\ NoneFailed(workflow)
  <2> HIDE DEF entry, video, assets, mmaudio, workflow
  <2>1. /\ CheckList(entry \o video)
        /\ NoneFailed(entry \o video) => NoneFailed(entry) /\ NoneFailed(video)
    BY <1>1, ChecksJoin
  <2>2. /\ CheckList(entry \o video \o assets)
        /\ NoneFailed(entry \o video \o assets) => NoneFailed(entry \o video)
    BY <1>1, <2>1, ChecksJoin
  <2>3. /\ CheckList(entry \o video \o assets \o mmaudio)
        /\ NoneFailed(entry \o video \o assets \o mmaudio) =>
              NoneFailed(entry \o video \o assets) /\ NoneFailed(mmaudio)
    BY <1>1, <2>2, ChecksJoin
  <2>4. /\ CheckList(entry \o video \o assets \o mmaudio \o workflow)
        /\ NoneFailed(entry \o video \o assets \o mmaudio \o workflow) =>
              NoneFailed(entry \o video \o assets \o mmaudio) /\ NoneFailed(workflow)
    BY <1>1, <2>3, ChecksJoin
  <2> QED BY <1>2, <2>1, <2>2, <2>3, <2>4, FirstFailureSound
<1>4. m.prediction # "vpred"
  BY <1>3, EntryChecksPassed
<1>5. m.family = "wan22" =>
         /\ m.task \in VideoTasks
         /\ m.assets.wan_t5_encoder # None /\ m.assets.vae # None
  BY <1>3, VideoChecksPassed
<1>6. m.workflow_with_audio # None => None \notin Range(m.mmaudio)
  BY <1>3, MmaudioChecksPassed
<1>7. m.family = "ltxv" => m.assets.ltxv_text_encoder # None
  BY <1>3, VideoChecksPassed
<1> HIDE DEF workflow
<1> QED BY <1>3, <1>4, <1>5, <1>6, <1>7, WorkflowChecksPassed DEF Checked, workflow

\* Every model of a registry that was accepted has passed the checks.
LEMMA ModelsAreChecked ==
    ASSUME PreparationAssumption, NEW v \in DOMAIN Disks, Loaded[v].stage = "ok",
           NEW n \in DOMAIN ModelsOf(v)
    PROVE  Checked(Disks[v].templates, ModelsOf(v)[n])
<1> DEFINE entries == Disks[v].yaml
           Stage(i) == EntryStage(Disks[v], {entries[k].name : k \in 1..(i - 1)}, entries[i])
           bad == {i \in DOMAIN entries : Stage(i) # "ok"}
<1>1. ModelsOf(v)[n] \in Range(entries) /\ entries \in Seq(Range(entries))
  BY ModelsAreEntries DEF PreparationAssumption
<1>2. PICK i \in DOMAIN entries : ModelsOf(v)[n] = entries[i]
  BY <1>1 DEF Range
<1>3. DOMAIN (ModelsOf(v)[n]).mmaudio = Range(MmaudioFields)
  BY <1>1 DEF PreparationAssumption
<1>4. load_registry(Disks[v]).stage = "ok"
  BY DEF Loaded
<1>5. bad = {} \/ Stage(Min(bad)) = "ok"
  <2> HIDE DEF Stage
  <2> QED BY <1>4 DEF load_registry, Stage
<1>6. bad = {}
  <2> SUFFICES ASSUME bad # {}
               PROVE  FALSE
    OBVIOUS
  <2>1. bad \in SUBSET Nat
    BY <1>1, LenProperties
  <2>2. \E k \in bad : \A j \in bad : k <= j
    BY <2>1, LeastNat
  <2>3. Min(bad) \in bad
    BY <2>2 DEF Min
  <2> QED BY <1>5, <2>3
<1>7. EntryStage(Disks[v], {entries[k].name : k \in 1..(i - 1)}, ModelsOf(v)[n]) = "ok"
  BY <1>2, <1>6
<1> QED BY <1>3, <1>7, EntryAccepted

-----------------------------------------------------------------------------
(* What the pipelines build from a template.                               *)

\* What is skipped when something was raised before.
LEMMA SoundAfter ==
    ASSUME NEW g, NEW sources, NEW r, Sound(g, sources, r),
           NEW q, r.err = "none" => Sound(r.graph, sources, q)
    PROVE  Sound(g, sources, IF r.err = "none" THEN q ELSE r)
<1>1. CASE r.err = "none"
  <2>1. Sound(g, sources, q)
    BY <1>1 DEF Sound
  <2> QED BY <1>1, <2>1
<1>2. CASE r.err # "none"
  BY <1>2
<1> QED BY <1>1, <1>2

\* An injector that patches values leaves the wiring, or raises.
Rewired(g, r) == r.err = "none" => SameWiring(g, r.graph) /\ IsGraph(r.graph)

LEMMA RewiredIsSound ==
    ASSUME NEW g, IsGraph(g), NEW r, Rewired(g, r), NEW sources
    PROVE  Sound(g, sources, r)
BY WiringIsSound DEF Rewired, Sound

LEMMA RewiredAfter ==
    ASSUME NEW g, NEW r, Rewired(g, r), NEW q, r.err = "none" => Rewired(r.graph, q)
    PROVE  Rewired(g, IF r.err = "none" THEN q ELSE r)
<1>1. CASE r.err = "none"
  <2>1. Rewired(g, q)
    BY <1>1, WiringTrans DEF Rewired
  <2> QED BY <1>1, <2>1
<1>2. CASE r.err # "none"
  BY <1>2
<1> QED BY <1>1, <1>2

LEMMA PatchesOrRaises ==
    ASSUME NEW g, IsGraph(g), NEW r, Rewired(g, r), NEW a, NEW new
    PROVE  LET q == IF r.err = "none" THEN PatchOrRaise(r.graph, a, new) ELSE r IN
           Rewired(g, q) /\ (r.err = "none" /\ CanFill(g, a) => q.err = "none")
<1> DEFINE p == PatchOrRaise(r.graph, a, new)
<1>1. ASSUME r.err = "none"
      PROVE  Rewired(r.graph, p) /\ (CanFill(g, a) => p.err = "none")
  <2>1. SameWiring(g, r.graph) /\ IsGraph(r.graph)
    BY <1>1 DEF Rewired
  <2>2. SameWiring(r.graph, PatchAt(r.graph, a, new)) /\ IsGraph(PatchAt(r.graph, a, new))
    BY <2>1, PatchAtWiring
  <2>3. CanFill(g, a) => CanFill(r.graph, a)
    BY <2>1, WiringCanFill
  <2> QED BY <2>2, <2>3 DEF Rewired, PatchOrRaise, Ok, Raise
<1> HIDE DEF p
<1>2. Rewired(g, IF r.err = "none" THEN p ELSE r)
  BY <1>1, RewiredAfter
<1> QED BY <1>1, <1>2 DEF p

LEMMA ModelSourceInjected ==
    ASSUME NEW g, IsGraph(g), NEW m
    PROVE  LET r == inject_model_source(g, m) IN
           /\ Rewired(g, r)
           /\ CanFillAll(g, {"MODEL_SOURCE", "CLIP_SOURCE"}) /\ ~SourceUnsupported(g, m)
                 => r.err = "none"
<1> DEFINE clip == ClipVals(ClassAt(g, "CLIP_SOURCE"), m)
           model == [f \in {ModelField[ClassAt(g, "MODEL_SOURCE")]} |-> m.assets.checkpoint]
           vae == [vae_name |-> m.assets.vae]
           s1 == PatchAt(g, "MODEL_SOURCE", model)
           s2 == PatchAt(s1, "CLIP_SOURCE", clip)
           vaes == {i \in OfClass(s2, "VAELoader") : "vae_name" \in DOMAIN s2[i].vals}
           s3 == IF m.assets.vae = None THEN s2 ELSE PatchAll(s2, vaes, vae)
           r == inject_model_source(g, m)
<1>1. r = IF ~CanFillAll(g, {"MODEL_SOURCE", "CLIP_SOURCE"}) THEN Raise("workflow")
          ELSE IF SourceUnsupported(g, m) THEN Raise("workflow") ELSE Ok(s3)
  BY DEF inject_model_source, SourceUnsupported
<1> HIDE DEF clip, model, vae
<1>2. SameWiring(g, s1) /\ IsGraph(s1)
  BY PatchAtWiring
<1> HIDE DEF s1
<1>3. SameWiring(s1, s2) /\ IsGraph(s2)
  BY <1>2, PatchAtWiring
<1> HIDE DEF s2, vaes
<1>4. SameWiring(s2, s3) /\ IsGraph(s3)
  BY <1>3, PatchAllWiring, WiringRefl
<1> HIDE DEF s3
<1>5. SameWiring(g, s3)
  BY <1>2, <1>3, <1>4, WiringTrans
<1> HIDE DEF r
<1>6. Rewired(g, r)
  BY <1>1, <1>4, <1>5 DEF Rewired, Ok, Raise
<1>7. CanFillAll(g, {"MODEL_SOURCE", "CLIP_SOURCE"}) /\ ~SourceUnsupported(g, m)
         => r.err = "none"
  BY <1>1 DEF Ok
<1> QED BY <1>6, <1>7 DEF r

ImageSources == {"MODEL_SOURCE", "CLIP_SOURCE"}

\* The images pipeline.
LEMMA ImageIsBuilt ==
    ASSUME NEW g, IsGraph(g), NEW v, NEW S, v.loras \in Seq(S), NEW seed
    PROVE  LET r == BuildImage(g, v, seed) IN
           /\ Sound(g, ImageSources, r)
           /\ (HasAnchors(g, ImageAnchors) /\ Fillable(g) /\ v.model.prediction # "vpred"
                 /\ ~SourceUnsupported(g, v.model)) => r.err = "none"
<1> DEFINE m == v.model
           latents == {i \in DOMAIN g : g[i].class = "EmptyLatentImage"}
           p == PatchAt(g, "POSITIVE_PROMPT", [text |-> "prompt"])
           g1 == PatchAt(p, "NEGATIVE_PROMPT", [text |-> "negative"])
           sampling == [seed |-> seed, steps |-> v.steps, sampler_name |-> v.sampler,
                        scheduler |-> v.scheduler]
           g2 == PatchAt(g1, "KSAMPLER", sampling)
           size == [pixels |-> v.pixels, batch_size |-> v.n]
           g3 == IF latents = {} THEN g2 ELSE Patch(g2, Min(latents), size)
           sourced == inject_model_source(g3, m)
           checked == Then(sourced, LAMBDA h : inject_vpred(h, m))
           chained == inject_loras(checked.graph, v.loras)
           blocked == \/ ~CanFillAll(g, {"POSITIVE_PROMPT", "NEGATIVE_PROMPT", "KSAMPLER"})
                      \/ latents # {} /\ g[Min(latents)].inputs # "object"
           ready == /\ HasAnchors(g, ImageAnchors) /\ Fillable(g) /\ m.prediction # "vpred"
                    /\ ~SourceUnsupported(g, m)
           r == BuildImage(g, v, seed)
<1>1. r = IF blocked THEN Raise("key") ELSE IF checked.err = "none" THEN chained ELSE checked
  BY DEF BuildImage, Then
<1>2. ready => ~blocked /\ CanFillAll(g, ImageSources) /\ HasAnchors(g, ImageSources)
  <2>1. ASSUME latents # {}
        PROVE  Min(latents) \in latents
    <3>1. latents \in SUBSET Nat
      BY DEF IsGraph
    <3>2. \E i \in latents : \A k \in latents : i <= k
      BY <2>1, <3>1, LeastNat
    <3> QED BY <3>2 DEF Min
  <2>2. Fillable(g) => ~(latents # {} /\ g[Min(latents)].inputs # "object")
    BY <2>1 DEF Fillable
  <2>3. ready => /\ HasAnchors(g, {"POSITIVE_PROMPT", "NEGATIVE_PROMPT", "KSAMPLER"})
                 /\ HasAnchors(g, ImageSources) /\ Fillable(g)
    BY DEF HasAnchors, ImageAnchors, ImageSources
  <2> HIDE DEF ready, latents
  <2> QED BY <2>2, <2>3, AnchorsFilled
<1>3. IsGraph(g3) /\ SameWiring(g, g3)
  <2> HIDE DEF sampling, size, latents
  <2>1. SameWiring(g, p) /\ IsGraph(p)
    BY PatchAtWiring
  <2> HIDE DEF p
  <2>2. SameWiring(p, g1) /\ IsGraph(g1)
    BY <2>1, PatchAtWiring
  <2> HIDE DEF g1
  <2>3. SameWiring(g1, g2) /\ IsGraph(g2)
    BY <2>2, PatchAtWiring
  <2> HIDE DEF g2
  <2>4. SameWiring(g2, g3) /\ IsGraph(g3)
    BY <2>3, PatchWiring, WiringIsGraph, WiringRefl
  <2> HIDE DEF g3
  <2>5. SameWiring(g, g2)
    BY <2>1, <2>2, <2>3, WiringTrans
  <2> QED BY <2>4, <2>5, WiringTrans
<1> HIDE DEF g3
<1>4. ready => CanFillAll(g3, ImageSources) /\ ~SourceUnsupported(g3, m)
  <2>1. ready => CanFillAll(g3, ImageSources)
    BY <1>2, <1>3, WiringCanFill DEF CanFillAll
  <2>2. ready => /\ ClassAt(g3, "MODEL_SOURCE") = ClassAt(g, "MODEL_SOURCE")
                 /\ ClassAt(g3, "CLIP_SOURCE") = ClassAt(g, "CLIP_SOURCE")
    BY <1>2, <1>3, WiringClassAt DEF HasAnchors, ImageSources
  <2> QED BY <2>1, <2>2 DEF SourceUnsupported
<1>5. Rewired(g3, sourced) /\ (ready => sourced.err = "none")
  BY <1>3, <1>4, ModelSourceInjected DEF ImageSources
<1> HIDE DEF sourced
<1>6. /\ checked = IF sourced.err = "none" THEN inject_vpred(sourced.graph, m) ELSE sourced
      /\ sourced.err = "none" => Rewired(sourced.graph, inject_vpred(sourced.graph, m))
      /\ ready => inject_vpred(sourced.graph, m).err = "none"
  BY <1>5, WiringRefl DEF Then, inject_vpred, Rewired, Ok, Raise
<1> HIDE DEF checked
<1>7. Rewired(g3, checked) /\ (ready => checked.err = "none")
  BY <1>5, <1>6, RewiredAfter
<1>8. Rewired(g, checked)
  BY <1>3, <1>7, WiringTrans DEF Rewired
<1>9. checked.err = "none" => Sound(checked.graph, ImageSources, chained)
  BY <1>8, LorasAreSpliced DEF Rewired, ImageSources
<1>10. checked.err = "none" /\ ready => chained.err = "none"
  <2>1. checked.err = "none" /\ ready => HasAnchors(checked.graph, ImageSources)
    BY <1>2, <1>8, WiringHasAnchors DEF Rewired
  <2> QED BY <2>1 DEF inject_loras, Ok, ImageSources
<1> HIDE DEF chained
<1>11. Sound(g, ImageSources, IF checked.err = "none" THEN chained ELSE checked)
  BY <1>8, <1>9, RewiredIsSound, SoundAfter
<1> HIDE DEF ready, blocked, r, m
<1>12. Sound(g, ImageSources, r)
  <2>1. Sound(g, ImageSources, Raise("key"))
    BY DEF Sound, Raise
  <2> QED BY <1>1, <1>11, <2>1
<1>13. ready => r.err = "none"
  BY <1>1, <1>2, <1>7, <1>10
<1> QED BY <1>12, <1>13 DEF ready, r, m

LEMMA LtxvWeightsWiring ==
    ASSUME NEW g, IsGraph(g), NEW m
    PROVE  LET r == inject_ltxv_weights(g, m) IN
           /\ Rewired(g, r)
           /\ CanFillAll(g, {"LTXV_CHECKPOINT", "LTXV_TEXT_ENCODER"}) => r.err = "none"
<1> DEFINE files == inject_ltxv_weights(g, m)
           ckpt == [ckpt_name |-> m.assets.checkpoint]
           encoder == [text_encoder |-> m.assets.ltxv_text_encoder]
           audio == [ckpt_name |-> LTXV_AUDIO_VAE]
           g1 == PatchAt(g, "LTXV_CHECKPOINT", ckpt)
           g2 == PatchAt(g1, "LTXV_TEXT_ENCODER", ckpt)
           g3 == IF m.assets.ltxv_text_encoder = None THEN g2
                 ELSE PatchAt(g2, "LTXV_TEXT_ENCODER", encoder)
           nodes == OfClass(g3, "LTXVAudioVAELoader")
           g4 == PatchAll(g3, nodes, audio)
<1>1. files = IF ~CanFillAll(g, {"LTXV_CHECKPOINT", "LTXV_TEXT_ENCODER"})
              THEN Raise("workflow") ELSE Ok(g4)
  BY DEF inject_ltxv_weights
<1> HIDE DEF ckpt, encoder, audio
<1>2. SameWiring(g, g1) /\ IsGraph(g1)
  BY PatchAtWiring
<1> HIDE DEF g1
<1>3. SameWiring(g1, g2) /\ IsGraph(g2)
  BY <1>2, PatchAtWiring
<1> HIDE DEF g2
<1>4. SameWiring(g2, g3) /\ IsGraph(g3)
  BY <1>3, PatchAtWiring, WiringRefl
<1> HIDE DEF g3, nodes
<1>5. SameWiring(g3, g4) /\ IsGraph(g4)
  BY <1>4, PatchAllWiring
<1> HIDE DEF g4
<1>6. SameWiring(g, g2)
  BY <1>2, <1>3, WiringTrans
<1>7. SameWiring(g, g4)
  BY <1>4, <1>5, <1>6, WiringTrans
<1> DEFINE there == CanFillAll(g, {"LTXV_CHECKPOINT", "LTXV_TEXT_ENCODER"})
<1> HIDE DEF files, there
<1>8. Rewired(g, files)
  BY <1>1, <1>5, <1>7 DEF Rewired, Ok, Raise
<1>9. there => files.err = "none"
  BY <1>1 DEF Ok, there
<1> QED BY <1>8, <1>9 DEF files, there

\* _run_ltxv_pipeline.
LEMMA LtxvIsBuilt ==
    ASSUME NEW g, IsGraph(g), NEW v, NEW seed
    PROVE  LET r == BuildLtxv(g, v, seed) IN
           Rewired(g, r) /\ (HasAnchors(g, LtxvAnchors) /\ Fillable(g) => r.err = "none")
<1> DEFINE m == v.model
           Prompts(h) == IF ~CanFillAll(h, {"LTXV_POSITIVE", "LTXV_NEGATIVE"}) THEN Raise("key")
                         ELSE Ok(PatchAt(PatchAt(h, "LTXV_POSITIVE", [text |-> "prompt"]),
                                         "LTXV_NEGATIVE", [text |-> "negative"]))
           files == inject_ltxv_weights(g, m)
           weights == Then(files, inject_ltxv_video_vae)
           prompts == Then(weights, Prompts)
           seeded == Then(prompts, LAMBDA h : inject_ltxv_seed(h, seed))
           framed == Then(seeded, LAMBDA h : inject_ltxv_frames(h, v.frames))
           Rate(h) == IF Unfit(h, "LTXV_OUTPUT") THEN Raise("key")
                      ELSE Ok(PatchIfAny(h, "LTXV_OUTPUT", [frame_rate |-> "fps"]))
           rated == Rate(framed.graph)
           ready == HasAnchors(g, LtxvAnchors) /\ Fillable(g)
           r == BuildLtxv(g, v, seed)
<1>1. r = IF framed.err = "none" THEN rated ELSE framed
  BY DEF BuildLtxv, Then
<1>2. ready => /\ CanFillAll(g, {"LTXV_CHECKPOINT", "LTXV_TEXT_ENCODER"})
               /\ CanFillAll(g, {"LTXV_POSITIVE", "LTXV_NEGATIVE"})
               /\ CanFill(g, "LTXV_VIDEO_VAE") /\ CanFill(g, "LTXV_SEED")
               /\ CanFill(g, "LTXV_FRAMES") /\ Fillable(g)
  <2>1. ready => CanFillAll(g, LtxvAnchors)
    BY AnchorsFilled
  <2> QED BY <2>1 DEF CanFillAll, LtxvAnchors
<1> HIDE DEF ready
<1>3. Rewired(g, files) /\ (ready => files.err = "none")
  BY <1>2, LtxvWeightsWiring
<1> HIDE DEF files
<1>4. Rewired(g, weights) /\ (ready => weights.err = "none")
  <2> DEFINE vae == [vae_name |-> LTXV_VIDEO_VAE]
  <2>1. weights = IF files.err = "none" THEN PatchOrRaise(files.graph, "LTXV_VIDEO_VAE", vae)
                  ELSE files
    BY DEF Then, inject_ltxv_video_vae
  <2> HIDE DEF weights, vae
  <2> QED BY <1>2, <1>3, <2>1, PatchesOrRaises
<1> HIDE DEF weights
<1>5. Rewired(g, prompts) /\ (ready => prompts.err = "none")
  <2> DEFINE h == weights.graph
             positive == [text |-> "prompt"]
             negative == [text |-> "negative"]
             p == PatchAt(h, "LTXV_POSITIVE", positive)
             n == PatchAt(p, "LTXV_NEGATIVE", negative)
             q == IF ~CanFillAll(h, {"LTXV_POSITIVE", "LTXV_NEGATIVE"}) THEN Raise("key")
                  ELSE Ok(n)
  <2>1. prompts = IF weights.err = "none" THEN q ELSE weights
    BY DEF Then
  <2> HIDE DEF prompts, Prompts, positive, negative
  <2>2. ASSUME weights.err = "none"
        PROVE  Rewired(h, q) /\ (ready => q.err = "none")
    <3>1. SameWiring(g, h) /\ IsGraph(h)
      BY <1>4, <2>2 DEF Rewired
    <3>2. ready => CanFillAll(h, {"LTXV_POSITIVE", "LTXV_NEGATIVE"})
      BY <1>2, <3>1, WiringCanFill DEF CanFillAll
    <3> HIDE DEF h
    <3>3. SameWiring(h, p) /\ IsGraph(p)
      BY <3>1, PatchAtWiring
    <3> HIDE DEF p
    <3>4. SameWiring(p, n) /\ IsGraph(n)
      BY <3>3, PatchAtWiring
    <3> HIDE DEF n
    <3>5. SameWiring(h, n)
      BY <3>3, <3>4, WiringTrans
    <3> QED BY <3>2, <3>4, <3>5 DEF Rewired, Ok, Raise
  <2> HIDE DEF q
  <2>3. Rewired(g, prompts)
    BY <1>4, <2>1, <2>2, RewiredAfter DEF h
  <2> QED BY <1>4, <2>1, <2>2, <2>3
<1> HIDE DEF prompts, Prompts
<1>6. Rewired(g, seeded) /\ (ready => seeded.err = "none")
  <2> DEFINE value == [seed |-> seed % SeedLimit]
  <2>1. seeded = IF prompts.err = "none" THEN PatchOrRaise(prompts.graph, "LTXV_SEED", value)
                 ELSE prompts
    BY DEF Then, inject_ltxv_seed
  <2> HIDE DEF seeded, value
  <2> QED BY <1>2, <1>5, <2>1, PatchesOrRaises
<1> HIDE DEF seeded
<1>7. Rewired(g, framed) /\ (ready => framed.err = "none")
  <2> DEFINE value == [value |-> v.frames]
  <2>1. framed = IF seeded.err = "none" THEN PatchOrRaise(seeded.graph, "LTXV_FRAMES", value)
                 ELSE seeded
    BY DEF Then, inject_ltxv_frames
  <2> HIDE DEF framed, value
  <2> QED BY <1>2, <1>6, <2>1, PatchesOrRaises
<1> HIDE DEF framed
<1>8. framed.err = "none" => Rewired(framed.graph, rated) /\ (ready => rated.err = "none")
  <2> DEFINE rate == [frame_rate |-> "fps"]
             h == PatchIfAny(framed.graph, "LTXV_OUTPUT", rate)
  <2>1. rated = IF Unfit(framed.graph, "LTXV_OUTPUT") THEN Raise("key") ELSE Ok(h)
    OBVIOUS
  <2> HIDE DEF rate, rated, Rate
  <2>2. framed.err = "none" => SameWiring(framed.graph, h) /\ IsGraph(h)
    BY <1>7, PatchIfAnyWiring DEF Rewired
  <2>3. framed.err = "none" /\ ready => ~Unfit(framed.graph, "LTXV_OUTPUT")
    BY <1>2, <1>7, WiringFilled, AnchorFilled DEF Rewired
  <2> HIDE DEF h
  <2> QED BY <2>1, <2>2, <2>3 DEF Rewired, Ok, Raise
<1> HIDE DEF rated, Rate
<1>9. Rewired(g, IF framed.err = "none" THEN rated ELSE framed)
  BY <1>7, <1>8, RewiredAfter
<1> HIDE DEF r
<1>10. Rewired(g, r) /\ (ready => r.err = "none")
  BY <1>1, <1>7, <1>8, <1>9
<1> QED BY <1>10 DEF ready, r

\* The nodes of the template are still there, under their anchors; there may be more.
Keeps(g, h) ==
    \A i \in DOMAIN g : i \in DOMAIN h /\ DOMAIN h[i] = NodeFields /\ h[i].anchors = g[i].anchors

Kept(g, r) == r.err = "none" /\ Keeps(g, r.graph)

LEMMA KeepsTrans ==
    ASSUME NEW g, NEW h, NEW k, Keeps(g, h), Keeps(h, k)
    PROVE  Keeps(g, k)
BY DEF Keeps

LEMMA WiringKeeps ==
    ASSUME NEW g, NEW h, SameWiring(g, h)
    PROVE  Keeps(g, h)
BY DEF Keeps, SameWiring

LEMMA KeepsAnchors ==
    ASSUME NEW g, NEW h, Keeps(g, h), NEW as, HasAnchors(g, as)
    PROVE  HasAnchors(h, as)
<1> SUFFICES ASSUME NEW a \in as
             PROVE  Owners(h, a) # {}
  BY DEF HasAnchors, HasAnchor
<1>1. PICK i \in DOMAIN g : a \in g[i].anchors
  BY DEF HasAnchors, HasAnchor, Owners
<1>2. i \in Owners(h, a)
  BY <1>1 DEF Keeps, Owners
<1> QED BY <1>2

\* Nodes put beside those of the graph.
LEMMA OverKeeps ==
    ASSUME NEW g, NEW h, Keeps(g, h), NEW chain, NEW s, NEW links
    PROVE  Keeps(g, [Over(h, chain) EXCEPT ![s].links = Over(links, @)])
<1> DEFINE k == Over(h, chain)
           new == Over(links, k[s].links)
           e == [k EXCEPT ![s] = [k[s] EXCEPT !.links = new]]
<1>1. [Over(h, chain) EXCEPT ![s].links = Over(links, @)] = e
  OBVIOUS
<1>2. ASSUME NEW i \in DOMAIN h
      PROVE  i \in DOMAIN k /\ k[i] = h[i]
  BY DEF Over
<1> HIDE DEF k, new
<1>3. ASSUME NEW i \in DOMAIN g
      PROVE  i \in DOMAIN e /\ DOMAIN e[i] = NodeFields /\ e[i].anchors = g[i].anchors
  <2>1. i \in DOMAIN k /\ DOMAIN k[i] = NodeFields /\ k[i].anchors = g[i].anchors
    BY <1>2 DEF Keeps
  <2>2. i \in DOMAIN e /\ e[i] = IF i = s THEN [k[i] EXCEPT !.links = new] ELSE k[i]
    BY <2>1
  <2> DEFINE n == [k[i] EXCEPT !.links = new]
  <2>3. DOMAIN n = DOMAIN k[i] /\ n.anchors = k[i].anchors
    BY <2>1 DEF NodeFields
  <2> HIDE DEF n, e
  <2> QED BY <2>1, <2>2, <2>3 DEF n
<1> QED BY <1>1, <1>3 DEF Keeps

LEMMA CoreLorasInjected ==
    ASSUME NEW g, NEW h, Keeps(g, h), NEW loras, NEW model, NEW shift,
           HasAnchors(g, {model, shift})
    PROVE  Kept(g, inject_wan_core_loras_between(h, loras, model, shift))
<1> DEFINE chain == LoraChain(h, "LoraLoaderModelOnly", FirstN(loras, WAN_MAX_LORAS),
                              [x \in {"model"} |-> <<find_anchor(h, model), 0>>])
           links == [x \in {"model"} |-> <<Max(DOMAIN chain), 0>>]
           s == find_anchor(h, shift)
           k == Over(h, chain)
           e == [Over(h, chain) EXCEPT ![s].links = Over(links, @)]
           r == inject_wan_core_loras_between(h, loras, model, shift)
<1>1. HasAnchors(h, {model, shift})
  BY KeepsAnchors
<1>2. r = Ok(h) \/ r = Ok(k) \/ r = Ok(e)
  <2>1. r = IF loras = <<>> THEN Ok(h)
            ELSE IF ~HasAnchors(h, {model, shift}) THEN Raise("workflow")
            ELSE IF Bare(h, shift) THEN Ok(k) ELSE Ok(e)
    BY DEF inject_wan_core_loras_between
  <2> HIDE DEF e, r, k
  <2> QED BY <1>1, <2>1
<1> HIDE DEF chain, links, s
<1>3. Keeps(g, e) /\ Keeps(g, k)
  <2>1. Keeps(g, e)
    BY OverKeeps
  <2>2. Keeps(g, k)
    BY DEF Keeps, Over
  <2> QED BY <2>1, <2>2
<1> HIDE DEF e, k, r
<1> QED BY <1>2, <1>3 DEF Kept, Ok, r

LEMMA AllCoreLorasInjected ==
    ASSUME NEW g, NEW h, Keeps(g, h), NEW loras, HasAnchors(g, WanAnchors)
    PROVE  Kept(g, inject_wan_core_loras(h, loras))
<1> DEFINE high == HighLoras(loras)
           low == LowLoras(loras)
           first == inject_wan_core_loras_between(h, high, "WAN_MODEL", "WAN_SHIFT")
           second == inject_wan_core_loras_between(first.graph, low, "WAN_MODEL_LOW",
                                                   "WAN_SHIFT_LOW")
           only == inject_wan_core_loras_between(h, loras, "WAN_MODEL", "WAN_SHIFT")
           r == inject_wan_core_loras(h, loras)
<1>1. /\ HasAnchors(g, {"WAN_MODEL", "WAN_SHIFT"})
      /\ HasAnchors(g, {"WAN_MODEL_LOW", "WAN_SHIFT_LOW"})
  BY DEF HasAnchors, WanAnchors
<1>2. IsDual(h)
  BY <1>1, KeepsAnchors DEF IsDual
<1>3. r = Then(first, LAMBDA k : inject_wan_core_loras_between(k, low, "WAN_MODEL_LOW",
                                                               "WAN_SHIFT_LOW"))
  BY <1>2 DEF inject_wan_core_loras
<1> HIDE DEF high, low
<1>4. Kept(g, first)
  BY <1>1, CoreLorasInjected
<1>5. r = second
  BY <1>3, <1>4 DEF Then, Kept
<1> HIDE DEF first
<1>6. Kept(g, second)
  BY <1>1, <1>4, CoreLorasInjected DEF Kept
<1> HIDE DEF r, second
<1> QED BY <1>5, <1>6 DEF r

\* The advanced options look for anchors that every WAN template has.
LEMMA AdvancedPatched ==
    ASSUME NEW g, NEW h, Keeps(g, h), HasAnchors(g, WanAnchors), IsGraph(h), Fillable(h),
           NEW adv, NEW task
    PROVE  Kept(g, apply_wan_advanced_patches(h, adv, task))
<1> DEFINE groups == (adv \cap DOMAIN AdvancedGroups)
                        \ (IF task = "i2v" THEN {} ELSE {"encode", "clip_encode"})
           reached == {x \in groups : /\ HasAnchor(h, AdvancedGroups[x])
                                      /\ Knows(ClassAt(h, AdvancedGroups[x]), x)}
           vals(i) == Over([x \in {y \in reached : find_anchor(h, AdvancedGroups[y]) = i}
                               |-> "requested"], h[i].vals)
           e == [i \in DOMAIN h |-> [h[i] EXCEPT !.vals = vals(i)]]
           r == apply_wan_advanced_patches(h, adv, task)
<1>1. HasAnchors(h, WanAnchors)
  BY KeepsAnchors
<1>2. \A x \in MustHaveAnchor : HasAnchor(h, AdvancedGroups[x])
  BY <1>1 DEF HasAnchors, WanAnchors, MustHaveAnchor, AdvancedGroups
<1>3. r = IF \/ \E x \in groups \cap MustHaveAnchor : ~HasAnchor(h, AdvancedGroups[x])
             \/ \E x \in reached : Bare(h, AdvancedGroups[x])
          THEN Raise("workflow") ELSE Ok(e)
  BY DEF apply_wan_advanced_patches
<1>4. r = Ok(e)
  <2>1. \A x \in reached : ~Bare(h, AdvancedGroups[x])
    BY AnchorFilled
  <2> HIDE DEF groups, reached, r, e
  <2> QED BY <1>2, <1>3, <2>1
<1> HIDE DEF vals
<1>5. Keeps(g, e)
  <2> SUFFICES ASSUME NEW i \in DOMAIN g
               PROVE  i \in DOMAIN e /\ DOMAIN e[i] = NodeFields /\ e[i].anchors = g[i].anchors
    BY DEF Keeps
  <2>1. i \in DOMAIN h /\ DOMAIN h[i] = NodeFields /\ h[i].anchors = g[i].anchors
    BY DEF Keeps
  <2>2. i \in DOMAIN e /\ e[i] = [h[i] EXCEPT !.vals = vals(i)]
    BY <2>1
  <2> HIDE DEF e
  <2> QED BY <2>1, <2>2 DEF NodeFields
<1> HIDE DEF e, r
<1> QED BY <1>4, <1>5 DEF Kept, Ok, r

\* What a WAN template and the files of its model need for the worker to fill it.
WanReady(g, m) ==
    /\ HasAnchors(g, WanAnchors) /\ Fillable(g)
    /\ m.assets.vae # None /\ m.assets.wan_t5_encoder # None /\ m.assets.wan_unet_low # None
    /\ HasAnchor(g, "MMAUDIO_FEATURE_UTILS") =>
          None \notin Range(m.mmaudio) /\ HasAnchor(g, "MMAUDIO_DIFFUSION")

LEMMA WanUnetWiring ==
    ASSUME NEW g, IsGraph(g), NEW a, NEW file
    PROVE  SameWiring(g, WanUnet(g, a, file)) /\ IsGraph(WanUnet(g, a, file))
BY PatchAtWiring DEF WanUnet

LEMMA VideoWeightsInjected ==
    ASSUME NEW g, IsGraph(g), NEW m
    PROVE  LET r == inject_video_weights(g, m) IN
           Rewired(g, r) /\ (WanReady(g, m) => r.err = "none")
<1> DEFINE low == HasAnchor(g, "WAN_MODEL_LOW")
           vae == VaeVals(ClassAt(g, "WAN_VAE"), m)
           t5 == [f \in {WanField(ClassAt(g, "WAN_T5"), "CLIPLoader", "clip_name",
                                  "model_name")} |-> m.assets.wan_t5_encoder]
           clip == [clip_name |-> m.assets.wan_clip_vision]
           g1 == WanUnet(g, "WAN_MODEL", m.assets.checkpoint)
           g2 == IF low THEN WanUnet(g1, "WAN_MODEL_LOW", m.assets.wan_unet_low) ELSE g1
           g3 == PatchAt(g2, "WAN_VAE", vae)
           g4 == PatchAt(g3, "WAN_T5", t5)
           g5 == IF m.assets.wan_clip_vision = None THEN g4
                 ELSE PatchIfAny(g4, "WAN_CLIP_VISION", clip)
           r == inject_video_weights(g, m)
           missing == \/ ~CanFillAll(g, {"WAN_MODEL", "WAN_VAE", "WAN_T5"})
                      \/ Bare(g, "WAN_MODEL_LOW") \/ Bare(g, "WAN_CLIP_VISION")
                      \/ HasAnchor(g, "WAN_MODEL_LOW") /\ m.assets.wan_unet_low = None
                      \/ None \in {m.assets.vae, m.assets.wan_t5_encoder}
<1>1. r = IF missing THEN Raise("workflow") ELSE Ok(g5)
  BY DEF inject_video_weights
<1>2. WanReady(g, m) => ~missing
  <2>1. WanReady(g, m) => CanFillAll(g, {"WAN_MODEL", "WAN_VAE", "WAN_T5"})
    <3>1. WanReady(g, m) => HasAnchors(g, {"WAN_MODEL", "WAN_VAE", "WAN_T5"})
      BY DEF WanReady, HasAnchors, WanAnchors
    <3> QED BY <3>1, AnchorsFilled DEF WanReady
  <2>2. WanReady(g, m) => ~Bare(g, "WAN_MODEL_LOW") /\ ~Bare(g, "WAN_CLIP_VISION")
    BY AnchorFilled DEF WanReady
  <2> QED BY <2>1, <2>2 DEF WanReady
<1> HIDE DEF missing, vae, t5, clip, low
<1>3. SameWiring(g, g1) /\ IsGraph(g1)
  BY WanUnetWiring
<1> HIDE DEF g1
<1>4. SameWiring(g1, g2) /\ IsGraph(g2)
  BY <1>3, WanUnetWiring, WiringRefl
<1> HIDE DEF g2
<1>5. SameWiring(g2, g3) /\ IsGraph(g3)
  BY <1>4, PatchAtWiring
<1> HIDE DEF g3
<1>6. SameWiring(g3, g4) /\ IsGraph(g4)
  BY <1>5, PatchAtWiring
<1> HIDE DEF g4
<1>7. SameWiring(g4, g5) /\ IsGraph(g5)
  BY <1>6, PatchIfAnyWiring, WiringRefl
<1> HIDE DEF g5
<1>8. SameWiring(g, g3)
  BY <1>3, <1>4, <1>5, WiringTrans
<1>9. SameWiring(g, g5)
  BY <1>6, <1>7, <1>8, WiringTrans
<1> HIDE DEF r
<1>10. Rewired(g, r) /\ (WanReady(g, m) => r.err = "none")
  BY <1>1, <1>2, <1>7, <1>9 DEF Rewired, Ok, Raise
<1> QED BY <1>10 DEF r

LEMMA MmaudioWeightsInjected ==
    ASSUME NEW h, IsGraph(h), NEW m
    PROVE  LET r == inject_mmaudio_weights(h, m) IN
           /\ Rewired(h, r)
           /\ Fillable(h) /\ (HasAnchor(h, "MMAUDIO_FEATURE_UTILS") =>
                  None \notin Range(m.mmaudio) /\ HasAnchor(h, "MMAUDIO_DIFFUSION"))
                 => r.err = "none"
<1> DEFINE utils == [vae_model |-> m.mmaudio.vae, clip_model |-> m.mmaudio.clip,
                     synchformer_model |-> m.mmaudio.synchformer]
           model == [mmaudio_model |-> m.mmaudio.diffusion]
           h1 == PatchAt(h, "MMAUDIO_FEATURE_UTILS", utils)
           h2 == PatchAt(h1, "MMAUDIO_DIFFUSION", model)
           r == inject_mmaudio_weights(h, m)
<1>1. r = IF ~HasAnchor(h, "MMAUDIO_FEATURE_UTILS") THEN Ok(h)
          ELSE IF \/ None \in Range(m.mmaudio)
                  \/ ~CanFillAll(h, {"MMAUDIO_FEATURE_UTILS", "MMAUDIO_DIFFUSION"})
          THEN Raise("workflow") ELSE Ok(h2)
  BY DEF inject_mmaudio_weights
<1> HIDE DEF utils, model
<1>2. SameWiring(h, h1) /\ IsGraph(h1)
  BY PatchAtWiring
<1> HIDE DEF h1
<1>3. SameWiring(h1, h2) /\ IsGraph(h2)
  BY <1>2, PatchAtWiring
<1> HIDE DEF h2
<1>4. SameWiring(h, h2) /\ SameWiring(h, h)
  BY <1>2, <1>3, WiringTrans, WiringRefl
<1> HIDE DEF r
<1>5. Rewired(h, r)
  BY <1>1, <1>3, <1>4 DEF Rewired, Ok, Raise
<1>6. Fillable(h) /\ (HasAnchor(h, "MMAUDIO_FEATURE_UTILS") =>
          None \notin Range(m.mmaudio) /\ HasAnchor(h, "MMAUDIO_DIFFUSION"))
         => r.err = "none"
  <2>1. Fillable(h) => (HasAnchor(h, "MMAUDIO_FEATURE_UTILS") => CanFill(h, "MMAUDIO_FEATURE_UTILS"))
                         /\ (HasAnchor(h, "MMAUDIO_DIFFUSION") => CanFill(h, "MMAUDIO_DIFFUSION"))
    BY AnchorFilled
  <2> QED BY <1>1, <2>1 DEF Ok, CanFillAll
<1> QED BY <1>5, <1>6 DEF r

LEMMA AdvancedWiring ==
    ASSUME NEW h, IsGraph(h), NEW adv, NEW task
    PROVE  Rewired(h, apply_wan_advanced_patches(h, adv, task))
<1> DEFINE groups == (adv \cap DOMAIN AdvancedGroups)
                        \ (IF task = "i2v" THEN {} ELSE {"encode", "clip_encode"})
           reached == {x \in groups : /\ HasAnchor(h, AdvancedGroups[x])
                                      /\ Knows(ClassAt(h, AdvancedGroups[x]), x)}
           vals(i) == Over([x \in {y \in reached : find_anchor(h, AdvancedGroups[y]) = i}
                               |-> "requested"], h[i].vals)
           e == [i \in DOMAIN h |-> [h[i] EXCEPT !.vals = vals(i)]]
           r == apply_wan_advanced_patches(h, adv, task)
           missing == \/ \E x \in groups \cap MustHaveAnchor : ~HasAnchor(h, AdvancedGroups[x])
                      \/ \E x \in reached : Bare(h, AdvancedGroups[x])
<1>1. r = IF missing THEN Raise("workflow") ELSE Ok(e)
  BY DEF apply_wan_advanced_patches
<1> HIDE DEF vals, missing, r
<1>2. ASSUME NEW i \in DOMAIN h
      PROVE  /\ DOMAIN e[i] = NodeFields /\ e[i].class = h[i].class
             /\ e[i].anchors = h[i].anchors /\ e[i].links = h[i].links
             /\ e[i].inputs = h[i].inputs
  <2>1. DOMAIN h[i] = NodeFields /\ e[i] = [h[i] EXCEPT !.vals = vals(i)]
    BY DEF IsGraph, NodeFields
  <2> HIDE DEF e
  <2> QED BY <2>1 DEF NodeFields
<1>3. DOMAIN e = DOMAIN h
  OBVIOUS
<1> HIDE DEF e
<1>4. SameWiring(h, e)
  BY <1>2, <1>3 DEF SameWiring
<1>5. Rewired(h, r)
  BY <1>1, <1>4, WiringIsGraph DEF Rewired, Ok, Raise
<1> QED BY <1>5 DEF r

\* inject_wan_lora_multi patches one node and may unplug it.
LEMMA Unplugged ==
    ASSUME NEW g, IsGraph(g), NEW multi, NEW sources
    PROVE  LET h == disconnect_loader_lora(g, multi) IN
           /\ IsGraph(h)
           /\ Fillable(g) => Fillable(h)
           /\ Fit(g, sources) => Fit(h, sources)
<1> DEFINE links(i) == [k \in DOMAIN g[i].links \ {"lora"} |-> g[i].links[k]]
           h == disconnect_loader_lora(g, multi)
<1>1. h = [i \in DOMAIN g |->
             IF g[i].class = "WanVideoModelLoader" /\ "lora" \in DOMAIN g[i].links
                /\ g[i].links["lora"][1] = multi
             THEN [g[i] EXCEPT !.links = links(i)] ELSE g[i]]
  BY DEF disconnect_loader_lora
<1> HIDE DEF h
<1>2. DOMAIN h = DOMAIN g
      /\ \A i \in DOMAIN g : h[i] = [g[i] EXCEPT !.links = links(i)] \/ h[i] = g[i]
  BY <1>1
<1>3. ASSUME NEW i \in DOMAIN g
      PROVE  /\ DOMAIN h[i] = NodeFields /\ h[i].anchors = g[i].anchors
             /\ h[i].class = g[i].class /\ h[i].inputs = g[i].inputs
             /\ Inputs(h, i) \subseteq Inputs(g, i)
  <2>1. DOMAIN g[i] = NodeFields
    BY DEF IsGraph, NodeFields
  <2>2. Range(links(i)) \subseteq Range(g[i].links)
    <3>1. \A k \in DOMAIN links(i) : links(i)[k] \in Range(g[i].links)
      BY DEF Range
    <3> HIDE DEF links
    <3> QED BY <3>1 DEF Range
  <2> HIDE DEF links
  <2>3. CASE h[i] = [g[i] EXCEPT !.links = links(i)]
    <3>1. /\ DOMAIN h[i] = NodeFields /\ h[i].anchors = g[i].anchors /\ h[i].links = links(i)
          /\ h[i].class = g[i].class /\ h[i].inputs = g[i].inputs
      BY <2>1, <2>3 DEF NodeFields
    <3> QED BY <2>2, <3>1 DEF Inputs
  <2>4. CASE h[i] = g[i]
    BY <2>1, <2>4 DEF Inputs
  <2> QED BY <1>2, <2>3, <2>4
<1>4. IsGraph(h)
  BY <1>2, <1>3 DEF IsGraph, NodeFields
<1>5. ASSUME Fit(g, sources)
      PROVE  Fit(h, sources)
  <2>1. Closed(h) /\ Acyclic(h)
    BY <1>2, <1>3, <1>5, UnpluggedIsAcyclic DEF Fit
  <2>2. FedByNone(h, sources)
    <3> SUFFICES ASSUME NEW i \in DOMAIN h, h[i].anchors \cap sources # {}
                 PROVE  Inputs(h, i) = {} /\ h[i].anchors \cap {"WAN_SHIFT", "WAN_SHIFT_LOW"} = {}
      BY DEF FedByNone
    <3>1. h[i].anchors = g[i].anchors /\ Inputs(h, i) \subseteq Inputs(g, i)
      BY <1>2, <1>3
    <3> QED BY <1>2, <1>5, <3>1 DEF Fit, FedByNone
  <2> QED BY <2>1, <2>2 DEF Fit
<1>6. Fillable(g) => Fillable(h)
  BY <1>2, <1>3, SplicedIsFillable
<1> QED BY <1>4, <1>5, <1>6 DEF h

LEMMA LoraMultiIsSound ==
    ASSUME NEW g, IsGraph(g), NEW loras, NEW adv, NEW sources
    PROVE  Sound(g, sources, inject_wan_lora_multi(g, loras, adv))
<1> DEFINE multi == find_anchor(g, "WAN_LORA_MULTI")
           new == Over([slots |-> FirstN(loras, WAN_MAX_LORAS)],
                       IF "lora" \in adv THEN [options |-> "requested"] ELSE <<>>)
           g1 == Patch(g, multi, new)
           g2 == disconnect_loader_lora(g1, multi)
           r == inject_wan_lora_multi(g, loras, adv)
<1>1. r = IF ~HasAnchor(g, "WAN_LORA_MULTI")
          THEN IF loras # <<>> THEN Raise("workflow") ELSE Ok(g)
          ELSE IF Bare(g, "WAN_LORA_MULTI") THEN Raise("workflow")
          ELSE Ok(IF loras = <<>> THEN g2 ELSE g1)
  BY DEF inject_wan_lora_multi
<1> HIDE DEF new, multi
<1>2. IsGraph(g1) /\ (Fillable(g) => Fillable(g1)) /\ (Fit(g, sources) => Fit(g1, sources))
  BY PatchWiring, WiringIsSound
<1> HIDE DEF g1
<1>3. IsGraph(g2) /\ (Fillable(g) => Fillable(g2)) /\ (Fit(g, sources) => Fit(g2, sources))
  BY <1>2, Unplugged
<1> HIDE DEF g2, r
<1>4. Sound(g, sources, r)
  BY <1>1, <1>2, <1>3 DEF Sound, Ok, Raise
<1> QED BY <1>4 DEF r

\* Weights, LoRAs and advanced options of a WAN graph.
WanPathSources(g) == IF IsCore(g) THEN WanSources ELSE {}

LEMMA WanWeightsInjected ==
    ASSUME NEW g, IsGraph(g), NEW v, NEW S, v.loras \in Seq(S), NEW task
    PROVE  LET r == WanWeights(g, v, task) IN
           /\ Sound(g, WanPathSources(g), r)
           /\ IsCore(g) /\ WanReady(g, v.model) => Kept(g, r)
<1> DEFINE m == v.model
           files == inject_video_weights(g, m)
           audio == inject_mmaudio_weights(files.graph, m)
           weights == Then(files, LAMBDA h : inject_mmaudio_weights(h, m))
           chained == IF IsCore(g) THEN inject_wan_core_loras(weights.graph, v.loras)
                      ELSE inject_wan_lora_multi(weights.graph, v.loras, v.wan_advanced)
           loras == Then(weights, LAMBDA h :
                        IF IsCore(g) THEN inject_wan_core_loras(h, v.loras)
                        ELSE inject_wan_lora_multi(h, v.loras, v.wan_advanced))
           patched == apply_wan_advanced_patches(loras.graph, v.wan_advanced, task)
           r == WanWeights(g, v, task)
           sources == WanPathSources(g)
           ready == IsCore(g) /\ WanReady(g, m)
<1>1. /\ weights = IF files.err = "none" THEN audio ELSE files
      /\ loras = IF weights.err = "none" THEN chained ELSE weights
      /\ r = IF loras.err = "none" THEN patched ELSE loras
  BY DEF WanWeights, Then
<1>2. ready => HasAnchors(g, WanAnchors)
  BY DEF WanReady
<1>3. Rewired(g, files) /\ (ready => files.err = "none")
  BY VideoWeightsInjected
<1> HIDE DEF files
<1>4. Rewired(g, weights) /\ (ready => weights.err = "none")
  <2>1. ASSUME files.err = "none"
        PROVE  Rewired(files.graph, audio) /\ (ready => audio.err = "none")
    <3>1. SameWiring(g, files.graph) /\ IsGraph(files.graph)
      BY <1>3, <2>1 DEF Rewired
    <3>2. ready => (HasAnchor(files.graph, "MMAUDIO_FEATURE_UTILS") =>
                       None \notin Range(m.mmaudio)
                         /\ HasAnchor(files.graph, "MMAUDIO_DIFFUSION"))
      BY <3>1, WiringAnchors DEF WanReady
    <3>3. ready => Fillable(files.graph)
      BY <3>1, WiringFilled DEF WanReady
    <3> HIDE DEF ready
    <3> QED BY <3>1, <3>2, <3>3, MmaudioWeightsInjected
  <2> HIDE DEF audio, weights, ready
  <2> QED BY <1>1, <1>3, <2>1, RewiredAfter
<1> HIDE DEF weights, audio
<1>5. Sound(g, sources, loras) /\ (ready => Kept(g, loras))
  <2>1. ASSUME weights.err = "none"
        PROVE  Sound(weights.graph, sources, chained)
    <3>1. IsGraph(weights.graph)
      BY <1>4, <2>1 DEF Rewired
    <3>2. CASE IsCore(g)
      BY <3>1, <3>2, AllCoreLorasAreSpliced DEF WanPathSources
    <3>3. CASE ~IsCore(g)
      BY <3>1, <3>3, LoraMultiIsSound
    <3> QED BY <3>2, <3>3
  <2>2. ASSUME ready
        PROVE  Kept(g, chained)
    <3>1. SameWiring(g, weights.graph)
      BY <1>4, <2>2 DEF Rewired
    <3> QED BY <1>2, <2>2, <3>1, WiringKeeps, AllCoreLorasInjected
  <2> HIDE DEF chained, loras, ready, sources
  <2>3. Sound(g, sources, IF weights.err = "none" THEN chained ELSE weights)
    BY <1>4, <2>1, RewiredIsSound, SoundAfter
  <2> QED BY <1>1, <1>4, <2>2, <2>3
<1> HIDE DEF loras, chained
<1>6. Sound(g, sources, r) /\ (ready => Kept(g, r))
  <2>1. ASSUME loras.err = "none"
        PROVE  Sound(loras.graph, sources, patched)
    <3>1. IsGraph(loras.graph)
      BY <1>5, <2>1 DEF Sound
    <3> QED BY <3>1, AdvancedWiring, RewiredIsSound
  <2>2. ASSUME ready
        PROVE  Kept(g, patched)
    <3>1. Keeps(g, loras.graph) /\ loras.err = "none"
      BY <1>5, <2>2 DEF Kept
    <3>2. IsGraph(loras.graph) /\ Fillable(loras.graph)
      BY <1>5, <2>2, <3>1 DEF Sound, WanReady
    <3> QED BY <1>2, <2>2, <3>1, <3>2, AdvancedPatched
  <2> HIDE DEF r, patched, ready, sources
  <2>3. Sound(g, sources, IF loras.err = "none" THEN patched ELSE loras)
    BY <1>5, <2>1, SoundAfter
  <2> QED BY <1>1, <1>5, <2>2, <2>3 DEF Kept
<1> HIDE DEF r
<1> QED BY <1>6 DEF r

\* The prompts, the dimensions and the samplers are values.
LEMMA WanSamplerWiring ==
    ASSUME NEW g, IsGraph(g), NEW v, NEW seed
    PROVE  SameWiring(g, WanSampler(g, v, seed)) /\ IsGraph(WanSampler(g, v, seed))
<1> DEFINE plan == [noise_seed |-> seed, steps |-> v.steps, scheduler |-> CoreScheduler(v.scheduler)]
           half == half_steps(v.steps)
           until == Over([end_at_step |-> half], plan)
           since == Over([start_at_step |-> half], plan)
           shift == [shift |-> "shift"]
           single == [seed |-> seed, steps |-> v.steps, scheduler |-> v.scheduler]
           first == PatchAt(g, "WAN_SAMPLER", until)
           shifted == PatchIfAny(first, "WAN_SHIFT", shift)
           second == PatchIfAny(shifted, "WAN_NAG_SAMPLER", since)
           one == PatchAt(g, "WAN_SAMPLER", single)
           r == WanSampler(g, v, seed)
<1>1. r = second \/ r = one
  BY DEF WanSampler
<1> HIDE DEF plan, half, until, since, shift, single
<1>2. SameWiring(g, first) /\ IsGraph(first)
  BY PatchAtWiring
<1> HIDE DEF first
<1>3. SameWiring(first, shifted) /\ IsGraph(shifted)
  BY <1>2, PatchIfAnyWiring
<1> HIDE DEF shifted
<1>4. SameWiring(shifted, second) /\ IsGraph(second)
  BY <1>3, PatchIfAnyWiring
<1> HIDE DEF second
<1>5. SameWiring(g, shifted)
  BY <1>2, <1>3, WiringTrans
<1>6. SameWiring(g, second)
  BY <1>4, <1>5, WiringTrans
<1>7. SameWiring(g, one) /\ IsGraph(one)
  BY PatchAtWiring
<1> HIDE DEF one, r
<1>8. SameWiring(g, r) /\ IsGraph(r)
  BY <1>1, <1>4, <1>6, <1>7
<1> QED BY <1>8 DEF r

LEMMA WanPromptsWiring ==
    ASSUME NEW g, IsGraph(g)
    PROVE  SameWiring(g, WanPrompts(g)) /\ IsGraph(WanPrompts(g))
<1> DEFINE both == [positive_prompt |-> "prompt", negative_prompt |-> "negative"]
           p == [text |-> "prompt"]
           n == [text |-> "negative"]
           old == PatchAt(g, "WAN_PROMPTS", both)
           g1 == PatchAt(g, "WAN_POSITIVE", p)
           g2 == PatchAt(g1, "WAN_NEGATIVE", n)
           r == WanPrompts(g)
<1>1. r = old \/ r = g2
  BY DEF WanPrompts
<1> HIDE DEF both, p, n
<1>2. SameWiring(g, old) /\ IsGraph(old) /\ SameWiring(g, g1) /\ IsGraph(g1)
  BY PatchAtWiring
<1> HIDE DEF old, g1
<1>3. SameWiring(g1, g2) /\ IsGraph(g2)
  BY <1>2, PatchAtWiring
<1> HIDE DEF g2, r
<1>4. SameWiring(g, g2)
  BY <1>2, <1>3, WiringTrans
<1>5. SameWiring(g, r) /\ IsGraph(r)
  BY <1>1, <1>2, <1>3, <1>4
<1> QED BY <1>5 DEF r

\* _run_video_pipeline.
LEMMA WanIsBuilt ==
    ASSUME NEW g, IsGraph(g), NEW v, NEW S, v.loras \in Seq(S), NEW task, NEW seed
    PROVE  LET r == BuildWan(g, v, task, seed) IN
           /\ Sound(g, WanPathSources(g), r)
           /\ IsCore(g) /\ WanReady(g, v.model) => r.err = "none"
<1> DEFINE prompts == IF IsCore(g) THEN {"WAN_POSITIVE", "WAN_NEGATIVE"} ELSE {"WAN_PROMPTS"}
           rate == [frame_rate |-> "fps"]
           audio == [frames |-> v.frames, seed |-> seed]
           weights == WanWeights(g, v, task)
           h == weights.graph
           h1 == WanPrompts(h)
           h2 == WanDims(h1, v)
           h3 == WanSampler(h2, v, seed)
           h4 == PatchIfAny(h3, "VIDEO_OUTPUT", rate)
           h5 == PatchIfAny(h4, "MMAUDIO_SAMPLER", audio)
           blocked == \/ ~CanFillAll(h, prompts \cup {"WAN_DIMS", "WAN_SAMPLER"})
                      \/ \E a \in WanOptional(h) : Unfit(h, a)
           q == IF blocked THEN Raise("key") ELSE Ok(h5)
           r == BuildWan(g, v, task, seed)
           sources == WanPathSources(g)
           ready == IsCore(g) /\ WanReady(g, v.model)
<1>1. r = IF weights.err = "none" THEN q ELSE weights
  BY DEF BuildWan, Then
<1>2. Sound(g, sources, weights) /\ (ready => Kept(g, weights))
  BY WanWeightsInjected
<1>3. ready => ~blocked
  <2>1. ready => HasAnchors(g, prompts \cup {"WAN_DIMS", "WAN_SAMPLER"})
    BY DEF WanReady, HasAnchors, WanAnchors
  <2>2. ready => weights.err = "none" /\ IsGraph(h) /\ Fillable(h) /\ Keeps(g, h)
    BY <1>2 DEF Kept, Sound, WanReady
  <2> HIDE DEF weights, prompts, h, ready
  <2>3. ready => CanFillAll(h, prompts \cup {"WAN_DIMS", "WAN_SAMPLER"})
    BY <2>1, <2>2, KeepsAnchors, AnchorsFilled
  <2>4. ready => \A a \in WanOptional(h) : ~Unfit(h, a)
    BY <2>2, AnchorFilled
  <2> QED BY <2>3, <2>4
<1> HIDE DEF blocked, weights, rate, audio, prompts, ready, sources
<1>4. ASSUME weights.err = "none"
      PROVE  Sound(h, sources, q)
  <2>1. IsGraph(h)
    BY <1>2, <1>4 DEF Sound
  <2> HIDE DEF h
  <2>2. SameWiring(h, h1) /\ IsGraph(h1)
    BY <2>1, WanPromptsWiring
  <2> HIDE DEF h1
  <2>3. SameWiring(h1, h2) /\ IsGraph(h2)
    BY <2>2, PatchAtWiring DEF WanDims
  <2> HIDE DEF h2
  <2>4. SameWiring(h2, h3) /\ IsGraph(h3)
    BY <2>3, WanSamplerWiring
  <2> HIDE DEF h3
  <2>5. SameWiring(h3, h4) /\ IsGraph(h4)
    BY <2>4, PatchIfAnyWiring
  <2> HIDE DEF h4
  <2>6. SameWiring(h4, h5) /\ IsGraph(h5)
    BY <2>5, PatchIfAnyWiring
  <2> HIDE DEF h5
  <2>7. SameWiring(h, h3)
    BY <2>2, <2>3, <2>4, WiringTrans
  <2>8. SameWiring(h, h5)
    BY <2>5, <2>6, <2>7, WiringTrans
  <2>9. Rewired(h, q)
    BY <2>6, <2>8 DEF Rewired, Ok, Raise
  <2> HIDE DEF q
  <2> QED BY <2>1, <2>9, RewiredIsSound
<1>5. ready => weights.err = "none" /\ q.err = "none"
  BY <1>2, <1>3 DEF Kept, Ok
<1> HIDE DEF q, r
<1>6. Sound(g, sources, r)
  BY <1>1, <1>2, <1>4, SoundAfter DEF h
<1>7. ready => r.err = "none"
  BY <1>1, <1>5
<1> QED BY <1>6, <1>7 DEF ready, sources, r

\* What a validated job satisfies.
JobObeys(r, v, loras) ==
    IF r.kind = "image" THEN ImageObeys(v, loras)
    ELSE VideoObeys(r, v, r.task, loras) /\ RoundedUp(r.frames, v.frames, Unit(v.model))

\* What a request that is judged "ok" becomes.
LEMMA JudgementObeys ==
    ASSUME PreparationAssumption, NEW r \in Requests, model_validate(r), NEW v \in DOMAIN Disks,
           NEW loras, Judgement(r, ModelsOf(v), loras).code = "ok"
    PROVE  LET j == Judgement(r, ModelsOf(v), loras).job IN
           /\ r.model \in DOMAIN ModelsOf(v) /\ j.model = ModelsOf(v)[r.model]
           /\ JobObeys(r, j, loras)
<1> DEFINE models == ModelsOf(v)
           j == Judgement(r, models, loras).job
<1>1. r.loras \in Seq(STRING)
  BY DEF PreparationAssumption
<1> HIDE DEF models
<1>2. CASE r.kind = "image"
  <2>1. Judgement(r, models, loras) = resolve_and_validate(r, models, loras)
    BY <1>2 DEF Judgement
  <2>2. resolve_and_validate(r, models, loras).code = "ok"
    BY <2>1 DEF models
  <2>3. LET w == resolve_and_validate(r, models, loras).job IN
        /\ r.model \in DOMAIN models /\ w.model = models[r.model]
        /\ ImageObeys(w, loras)
    BY <1>1, <2>2, ImageAccepted
  <2> QED BY <1>2, <2>1, <2>3 DEF JobObeys, models
<1>3. CASE r.kind # "image"
  <2>1. Judgement(r, models, loras) = resolve_and_validate_video(r, models, r.task, loras)
    BY <1>3 DEF Judgement
  <2>2. resolve_and_validate_video(r, models, r.task, loras).code = "ok"
    BY <2>1 DEF models
  <2>3. r.model \in DOMAIN models => models[r.model].default_loras \in Seq(STRING)
    BY ModelsAreEntries DEF PreparationAssumption, models
  <2> DEFINE w == resolve_and_validate_video(r, models, r.task, loras).job
  <2>4. /\ r.model \in DOMAIN models /\ w.model = models[r.model]
        /\ VideoObeys(r, w, r.task, loras)
    BY <1>1, <2>2, <2>3, VideoAccepted
  <2>5. r.frames \in Int /\ r.frames >= 5
    <3>1. r.kind = "video"
      BY <1>3 DEF PreparationAssumption
    <3>2. r.frames \in 5..10000
      BY ONLY <3>1, model_validate(r), SMT DEF model_validate
    <3> QED BY <3>2, FrameCountIsNumber
  <2>6. RoundedUp(r.frames, w.frames, Unit(w.model))
    BY <2>2, <2>5, VideoFrames
  <2>7. j = w
    BY <2>1
  <2> HIDE DEF w, j
  <2> QED BY <1>3, <2>4, <2>6, <2>7 DEF JobObeys, models, j
<1> QED BY <1>2, <1>3

LEMMA WanTemplateReady ==
    ASSUME NEW templates, NEW v, Checked(templates, v.model), v.model.family = "wan22",
           \/ v.workflow = v.model.workflow
           \/ /\ v.model.workflow_with_audio # None
              /\ v.workflow = v.model.workflow_with_audio,
           ~VideoUnchecked(templates[v.workflow], v), Fillable(templates[v.workflow])
    PROVE  IsCore(templates[v.workflow]) /\ WanReady(templates[v.workflow], v.model)
<1> DEFINE m == v.model
           g == templates[v.workflow]
           primary == templates[m.workflow]
           audio == templates[m.workflow_with_audio]
<1> HIDE DEF m, g, primary, audio
<1>1. IsCore(g)
  BY DEF VideoUnchecked, m, g
<1>2. /\ HasAnchors(primary, RequiredAnchors("wan22", m.task))
      /\ m.assets.wan_t5_encoder # None /\ m.assets.vae # None
      /\ HasAnchor(primary, "WAN_MODEL_LOW") => m.assets.wan_unet_low # None
  BY DEF Checked, m, primary
<1>3. HasAnchors(primary, WanAnchors)
  BY <1>2 DEF RequiredAnchors, required_anchors_for_video_task, HasAnchors
<1>4. m.assets.wan_unet_low # None
  BY <1>2, <1>3 DEF HasAnchors, WanAnchors
<1>7. Fillable(g)
  BY DEF g
<1>5. CASE v.workflow = m.workflow
  <2>1. g = primary
    BY <1>5 DEF g, primary
  <2>2. HasAnchor(g, "MMAUDIO_FEATURE_UTILS") =>
           None \notin Range(m.mmaudio) /\ HasAnchor(g, "MMAUDIO_DIFFUSION")
    BY <1>5 DEF VideoUnchecked, m, g
  <2> QED BY <1>1, <1>2, <1>3, <1>4, <1>7, <2>1, <2>2 DEF WanReady, m, g
<1>6. CASE m.workflow_with_audio # None /\ v.workflow = m.workflow_with_audio
  <2>1. g = audio
    BY <1>6 DEF g, audio
  <2>2. /\ HasAnchors(audio, required_anchors_for_wan22_audio_task(m.task))
        /\ None \notin Range(m.mmaudio)
    BY <1>6 DEF Checked, m, audio
  <2>3. HasAnchors(g, WanAnchors) /\ HasAnchor(g, "MMAUDIO_DIFFUSION")
    BY <2>1, <2>2 DEF HasAnchors, required_anchors_for_wan22_audio_task,
                      required_anchors_for_video_task
  <2> QED BY <1>1, <1>2, <1>4, <1>7, <2>2, <2>3 DEF WanReady, m, g
<1> QED BY <1>5, <1>6 DEF m

\* Whatever template the worker reads, what it builds is a graph, and one without cycles
\* if the template has none.
LEMMA GraphIsSound ==
    ASSUME PreparationAssumption, job.req \in Requests, NEW loras,
           JobObeys(job.req, job.validated, loras),
           NEW g, IsGraph(g), NEW seed, Graph(g, seed).err = "none"
    PROVE  LET h == Graph(g, seed).graph IN
           /\ IsGraph(h)
           /\ Fillable(g) => Fillable(h)
           /\ WellFormed(g) /\ FedByNone(g, Sources(g)) => WellFormed(h)
<1> DEFINE v == job.validated
           r == Graph(g, seed)
           sources == IF job.req.kind = "image" THEN ImageSources
                      ELSE IF IsLtxv THEN {} ELSE WanPathSources(g)
<1>1. v.loras \in Seq(STRING)
  BY DEF JobObeys, ImageObeys, VideoObeys, WithinBudget
<1>2. Sound(g, sources, r)
  <2>1. CASE job.req.kind = "image"
    <3>1. r = BuildImage(g, v, seed) /\ sources = ImageSources
      BY <2>1 DEF Graph, IsLtxv
    <3> HIDE DEF r, v, sources
    <3> QED BY <1>1, <3>1, ImageIsBuilt
  <2>2. CASE job.req.kind # "image" /\ IsLtxv
    <3>1. r = BuildLtxv(g, v, seed)
      BY <2>2 DEF Graph
    <3> HIDE DEF r, v, sources
    <3> QED BY <3>1, LtxvIsBuilt, RewiredIsSound
  <2>3. CASE job.req.kind # "image" /\ ~IsLtxv
    <3>1. r = BuildWan(g, v, job.req.task, seed) /\ sources = WanPathSources(g)
      BY <2>3 DEF Graph
    <3> HIDE DEF r, v, sources
    <3> QED BY <1>1, <3>1, WanIsBuilt
  <2> QED BY <2>1, <2>2, <2>3
<1>3. sources \subseteq Sources(g)
  BY DEF Sources, ImageSources, WanPathSources, WanSources
<1> HIDE DEF r, sources
<1>4. IsGraph(r.graph) /\ (Fillable(g) => Fillable(r.graph)) /\ (Fit(g, sources) => Fit(r.graph, sources))
  BY <1>2 DEF Sound, r
<1>5. ASSUME WellFormed(g), FedByNone(g, Sources(g))
      PROVE  WellFormed(r.graph)
  <2>1. FedByNone(g, sources)
    BY <1>3, <1>5 DEF FedByNone
  <2>2. Fit(g, sources)
    BY <1>5, <2>1, WellFormedIffAcyclic DEF Fit
  <2> QED BY <1>4, <2>2, WellFormedIffAcyclic DEF Fit
<1> QED BY <1>4, <1>5 DEF r

\* What the worker builds from a template as it was when the registry was loaded.
LEMMA TemplateFills ==
    ASSUME PreparationAssumption, NEW s \in DOMAIN Disks, Loaded[s].stage = "ok",
           NEW n \in DOMAIN ModelsOf(s), job.validated.model = ModelsOf(s)[n],
           job.req \in Requests, NEW loras, JobObeys(job.req, job.validated, loras),
           NEW g, g = Disks[s].templates[job.validated.workflow],
           job.validated.workflow \in DOMAIN Disks[s].templates, Fillable(g),
           job.req.kind = "image" =>
              /\ job.validated.model.family \notin VideoFamilies
              /\ ~SourceUnsupported(g, job.validated.model),
           job.req.kind = "video" => ~VideoUnchecked(g, job.validated),
           NEW seed
    PROVE  Graph(g, seed).err = "none"
<1> DEFINE v == job.validated
           m == v.model
           templates == Disks[s].templates
<1>1. Checked(templates, m)
  BY ModelsAreChecked
<1>2. job.req.kind \in {"image", "video"} /\ IsGraph(g)
  BY DEF PreparationAssumption, IsTemplate
<1>3. v.loras \in Seq(STRING)
  BY DEF JobObeys, ImageObeys, VideoObeys, WithinBudget
<1> HIDE DEF v, m, templates
<1>4. CASE job.req.kind = "image"
  <2>1. v.workflow = m.workflow /\ m.family \notin VideoFamilies /\ ~SourceUnsupported(g, m)
    BY <1>4 DEF JobObeys, ImageObeys, v, m
  <2>2. HasAnchors(g, RequiredAnchors(m.family, m.task)) /\ m.prediction # "vpred"
    BY <1>1, <2>1 DEF Checked, v, templates
  <2>3. RequiredAnchors(m.family, m.task) = ImageAnchors
    BY <2>1 DEF RequiredAnchors, VideoFamilies
  <2>4. BuildImage(g, v, seed).err = "none"
    <3>1. IsGraph(g) /\ Fillable(g) /\ v.model = m
      BY <1>2 DEF m
    <3> QED BY ONLY <1>3, <2>1, <2>2, <2>3, <3>1, ImageIsBuilt
  <2>5. ~IsLtxv
    BY <1>4 DEF IsLtxv
  <2> QED BY <1>4, <2>4, <2>5 DEF Graph, v
<1>5. CASE job.req.kind = "video"
  <2>1. /\ m.family \in VideoFamilies
        /\ \/ v.workflow = m.workflow
           \/ m.workflow_with_audio # None /\ v.workflow = m.workflow_with_audio
        /\ ~VideoUnchecked(g, v)
    BY <1>5 DEF JobObeys, VideoObeys, v, m
  <2>2. CASE m.family = "ltxv"
    <3>1. v.workflow = m.workflow
      BY <2>1, <2>2 DEF VideoUnchecked, m
    <3>2. HasAnchors(g, LtxvAnchors)
      BY <1>1, <2>2, <3>1 DEF Checked, v, templates, RequiredAnchors
    <3>3. BuildLtxv(g, v, seed).err = "none"
      BY <1>2, <3>2, LtxvIsBuilt
    <3>4. IsLtxv
      BY <1>5, <2>2 DEF IsLtxv, m, v
    <3> QED BY <1>5, <3>3, <3>4 DEF Graph, v
  <2>3. CASE m.family = "wan22"
    <3>1. g = templates[v.workflow]
      BY DEF v, templates
    <3>2. IsCore(g) /\ WanReady(g, v.model)
      BY <1>1, <2>1, <2>3, <3>1, WanTemplateReady DEF m
    <3> DEFINE task == job.req.task
    <3> HIDE DEF task
    <3>3. BuildWan(g, v, task, seed).err = "none"
      <4>1. IsGraph(g)
        BY <1>2
      <4> QED BY ONLY <1>3, <3>2, <4>1, WanIsBuilt
    <3>4. ~IsLtxv
      BY <2>3 DEF IsLtxv, m, v
    <3> QED BY <1>5, <3>3, <3>4 DEF Graph, v, task
  <2> QED BY <2>1, <2>2, <2>3 DEF VideoFamilies
<1> QED BY <1>2, <1>4, <1>5

-----------------------------------------------------------------------------
(* The inductive invariant.                                                *)

Phases == {"idle", "parsing", "refused", "queued", "validated", "uploading", "ready", "failed"}

\* Every version in use is one there is; a warm-up is pending only under the lock.
Types ==
    /\ disk \in DOMAIN Disks
    /\ registry \in {v \in DOMAIN Disks : Loaded[v].stage = "ok"}
    /\ lock \in {"free", "setup", "close"}
    /\ bundle \in [active : Bundles \cup {{}}, pending : Bundles \cup {{}}]
    /\ (bundle.pending # {}) => (lock = "setup")
    /\ DOMAIN job = DOMAIN Idle
    /\ job.phase \in Phases

\* A request that the handler has let in passes the limits of the request model.
Parsed ==
    /\ job.phase # "idle" => job.req \in Requests
    /\ job.phase \in {"queued", "validated", "uploading", "ready"} => model_validate(job.req)

\* A queued request was accepted with the version it is stored with.
Stored ==
    job.phase = "queued" =>
        Judgement(job.req, ModelsOf(job.admitted), job.loras).code = "ok"

\* A job past re-validation no longer has the version it was admitted with.
PastRevalidation == job.phase \in {"validated", "uploading"} => job.admitted = None

\* From re-validation on a job has the configuration its model has in a registry that
\* passed every check, and obeys the limits of that model: names of samplers and
\* schedulers, pixels, images, steps, frames (rounded up by less than a unit), video
\* memory, a workflow of the model, and LoRAs that were inside the root and on disk
\* (resolve_and_validate, resolve_and_validate_video, load_registry).
JobsWithinLimits ==
    job.phase \in {"validated", "uploading", "ready"} =>
        /\ job.source \in DOMAIN Disks /\ Loaded[job.source].stage = "ok"
        /\ job.req.model \in DOMAIN ModelsOf(job.source)
        /\ job.validated.model = ModelsOf(job.source)[job.req.model]
        /\ \E v \in DOMAIN Disks : JobObeys(job.req, job.validated, Disks[v].loras)

\* There is no validated job before re-validation.
BeforeRevalidation ==
    job.phase \in {"idle", "parsing", "queued"} => job.validated = None

JobInv ==
    /\ Parsed /\ Stored /\ PastRevalidation /\ BeforeRevalidation
    /\ JobsWithinLimits /\ RevalidationStable

IInv == Types /\ JobInv

LEMMA InitHolds ==
    ASSUME PreparationAssumption, Init
    PROVE  IInv
<1>1. Types
  BY DEF PreparationAssumption, Init, Types, Phases, Idle
<1>2. job.phase = "idle"
  BY DEF Init, Idle
<1>3. BeforeRevalidation
  BY DEF Init, Idle, BeforeRevalidation
<1>4. JobInv
  BY <1>2, <1>3 DEF JobInv, Parsed, Stored, PastRevalidation, JobsWithinLimits,
                    RevalidationStable
<1> QED BY <1>1, <1>4 DEF IInv

\* The disk and the admin API leave the job alone, and its invariant names only versions.
LEMMA JobKept ==
    ASSUME JobInv, job' = job
    PROVE  JobInv'
<1>1. Parsed' /\ Stored' /\ PastRevalidation' /\ BeforeRevalidation'
  BY DEF JobInv, Parsed, Stored, PastRevalidation, BeforeRevalidation
<1>2. JobsWithinLimits'
  BY DEF JobInv, JobsWithinLimits
<1>3. RevalidationStable'
  BY DEF JobInv, RevalidationStable
<1> QED BY <1>1, <1>2, <1>3 DEF JobInv

\* The versions, the lock and the bundle are well formed.
Around ==
    /\ disk \in DOMAIN Disks
    /\ registry \in {v \in DOMAIN Disks : Loaded[v].stage = "ok"}
    /\ lock \in {"free", "setup", "close"}
    /\ bundle \in [active : Bundles \cup {{}}, pending : Bundles \cup {{}}]
    /\ (bundle.pending # {}) => (lock = "setup")

LEMMA AdminKeepsTypes ==
    ASSUME Types,
           Edit \/ reload_registry \/ setup_bundle \/ WarmedUp \/ close_bundle \/ Unloaded
    PROVE  Types' /\ job' = job
<1>1. Around /\ DOMAIN job = DOMAIN Idle /\ job.phase \in Phases
  BY DEF Types, Around
<1>2. CASE Edit
  BY <1>1, <1>2 DEF Edit, Around, Types
<1>3. CASE reload_registry
  BY <1>1, <1>3 DEF reload_registry, Around, Types
<1>4. CASE setup_bundle
  <2>1. PICK names \in Bundles, warmup \in BOOLEAN :
          /\ lock' = IF warmup THEN "setup" ELSE "free"
          /\ bundle' = IF warmup THEN [bundle EXCEPT !.pending = names]
                       ELSE [bundle EXCEPT !.active = names]
    BY <1>4 DEF setup_bundle
  <2>2. lock = "free" /\ bundle.pending = {} /\ UNCHANGED <<disk, registry, job>>
    BY <1>1, <1>4 DEF setup_bundle, Around
  <2>3. bundle' \in [active : Bundles \cup {{}}, pending : Bundles \cup {{}}]
    BY <1>1, <2>1 DEF Around
  <2>4. (bundle'.pending # {}) => (lock' = "setup")
    BY <1>1, <2>1, <2>2 DEF Around
  <2> QED BY <1>1, <2>1, <2>2, <2>3, <2>4 DEF Around, Types
<1>5. CASE WarmedUp
  BY <1>1, <1>5 DEF WarmedUp, Around, Types
<1>6. CASE close_bundle
  BY <1>1, <1>6 DEF close_bundle, Around, Types
<1>7. CASE Unloaded
  BY <1>1, <1>7 DEF Unloaded, Around, Types
<1> QED BY <1>2, <1>3, <1>4, <1>5, <1>6, <1>7

LEMMA ArriveKeeps ==
    ASSUME IInv, NEW r \in Requests, Arrive(r)
    PROVE  IInv'
<1>1. /\ DOMAIN job' = DOMAIN Idle /\ job'.phase \in {"refused", "parsing"} /\ job'.req = r
      /\ job'.validated = None
      /\ UNCHANGED <<disk, registry, lock, bundle>>
  BY DEF Arrive, Idle
<1>2. Types'
  BY <1>1 DEF IInv, Types, Phases, Idle
<1>3. JobInv'
  BY <1>1 DEF JobInv, Parsed, Stored, PastRevalidation, BeforeRevalidation, JobsWithinLimits,
              RevalidationStable
<1> QED BY <1>2, <1>3 DEF IInv

LEMMA AdmitKeeps ==
    ASSUME IInv, Admit
    PROVE  IInv'
<1> DEFINE outcome == Validated(job.req, job.req.task)
<1>1. /\ DOMAIN job = DOMAIN Idle /\ job.phase = "parsing" /\ job.req \in Requests
      /\ job.validated = None
      /\ UNCHANGED <<disk, registry, lock, bundle>>
  BY DEF IInv, JobInv, Parsed, BeforeRevalidation, Types, Admit
<1>2. outcome = Judgement(job.req, ModelsOf(registry), Disks[disk].loras)
  BY JudgementIsValidated
<1>3. \/ \E code : Refuse(code)
      \/ /\ model_validate(job.req) /\ outcome.code = "ok"
         /\ job' = [job EXCEPT !.phase = "queued", !.admitted = registry,
                               !.loras = Disks[disk].loras]
  BY DEF Admit
<1> HIDE DEF outcome
<1>4. CASE \E code : Refuse(code)
  <2>1. /\ DOMAIN job' = DOMAIN Idle /\ job'.phase = "refused" /\ job'.req = job.req
        /\ job'.validated = None
    BY <1>1, <1>4 DEF Refuse, Idle
  <2>2. Types'
    BY <1>1, <2>1 DEF IInv, Types, Phases, Idle
  <2>3. JobInv'
    BY <1>1, <2>1 DEF JobInv, Parsed, Stored, PastRevalidation, BeforeRevalidation,
                      JobsWithinLimits, RevalidationStable
  <2> QED BY <2>2, <2>3 DEF IInv
<1>5. CASE /\ model_validate(job.req) /\ outcome.code = "ok"
           /\ job' = [job EXCEPT !.phase = "queued", !.admitted = registry,
                                 !.loras = Disks[disk].loras]
  <2>1. /\ DOMAIN job' = DOMAIN Idle /\ job'.phase = "queued" /\ job'.req = job.req
        /\ job'.admitted = registry /\ job'.loras = Disks[disk].loras
        /\ job'.validated = None
    BY <1>1, <1>5 DEF Idle
  <2>2. Types'
    BY <1>1, <2>1 DEF IInv, Types, Phases, Idle
  <2>3. Parsed'
    BY <1>1, <1>5, <2>1 DEF Parsed
  <2>4. Judgement(job'.req, ModelsOf(job'.admitted), job'.loras).code = "ok"
    BY <1>2, <1>5, <2>1
  <2>5. Stored'
    BY <2>4 DEF Stored
  <2>6. /\ PastRevalidation' /\ BeforeRevalidation' /\ JobsWithinLimits'
        /\ RevalidationStable'
    BY <2>1 DEF PastRevalidation, BeforeRevalidation, JobsWithinLimits, RevalidationStable
  <2> QED BY <2>2, <2>3, <2>5, <2>6 DEF IInv, JobInv
<1> QED BY <1>3, <1>4, <1>5


\* The worker's judgement is the handler's when neither the model nor the files changed.
LEMMA JudgementRepeats ==
    ASSUME NEW r, NEW a, NEW b, NEW loras, NEW onDisk,
           Judgement(r, ModelsOf(a), loras).code = "ok",
           Config(a, r.model) = Config(b, r.model), loras = onDisk
    PROVE  Judgement(r, ModelsOf(b), onDisk).code = "ok"
<1>1. r.model \in DOMAIN ModelsOf(a)
  BY JudgementNeedsModel
<1>2. r.model \in DOMAIN ModelsOf(b) /\ ModelsOf(a)[r.model] = ModelsOf(b)[r.model]
  BY <1>1, SameConfig
<1>3. Judgement(r, ModelsOf(a), loras) = Judgement(r, ModelsOf(b), loras)
  BY <1>1, <1>2, JudgementIsLocal
<1> QED BY <1>3

LEMMA RevalidateKeeps ==
    ASSUME PreparationAssumption, IInv, Revalidate
    PROVE  IInv'
<1> DEFINE outcome == Validated(job.req, StoredTask(job.req))
           onDisk == Disks[disk].loras
<1>1. /\ DOMAIN job = DOMAIN Idle /\ job.phase = "queued" /\ job.req \in Requests
      /\ model_validate(job.req) /\ job.validated = None
      /\ UNCHANGED <<disk, registry, lock, bundle>>
  BY DEF IInv, JobInv, Parsed, BeforeRevalidation, Types, Revalidate
<1>2. outcome = Judgement(job.req, ModelsOf(registry), onDisk)
  BY JudgementIsValidated
<1>3. Judgement(job.req, ModelsOf(job.admitted), job.loras).code = "ok"
  BY <1>1 DEF IInv, JobInv, Stored
<1>4. disk \in DOMAIN Disks /\ registry \in DOMAIN Disks /\ Loaded[registry].stage = "ok"
  BY DEF IInv, Types
<1>5. \/ /\ outcome.code # "ok"
         /\ job' = [job EXCEPT !.phase = "failed", !.code = outcome.code, !.source = registry,
                               !.built = disk]
      \/ /\ outcome.code = "ok"
         /\ job' = [job EXCEPT !.phase = "validated", !.source = registry, !.admitted = None,
                               !.loras = {}, !.validated = outcome.job]
  BY DEF Revalidate
<1> HIDE DEF outcome
<1>6. CASE /\ outcome.code # "ok"
           /\ job' = [job EXCEPT !.phase = "failed", !.code = outcome.code, !.source = registry,
                                 !.built = disk]
  <2>1. /\ DOMAIN job' = DOMAIN Idle /\ job'.phase = "failed" /\ job'.req = job.req
        /\ job'.source = registry /\ job'.built = disk /\ job'.loras = job.loras
        /\ job'.admitted = job.admitted /\ job'.validated = None
    BY <1>1, <1>6 DEF Idle
  <2>2. Types'
    BY <1>1, <2>1 DEF IInv, Types, Phases, Idle
  <2>3. /\ Parsed' /\ Stored' /\ PastRevalidation' /\ BeforeRevalidation'
        /\ JobsWithinLimits'
    BY <1>1, <2>1 DEF Parsed, Stored, PastRevalidation, BeforeRevalidation, JobsWithinLimits
  <2>4. ~(Config(job.admitted, job.req.model) = Config(registry, job.req.model)
            /\ job.loras = onDisk)
    <3> HIDE DEF onDisk
    <3> QED BY <1>2, <1>3, <1>6, JudgementRepeats
  <2>5. RevalidationStable'
    BY <2>1, <2>4 DEF RevalidationStable
  <2> QED BY <2>2, <2>3, <2>5 DEF IInv, JobInv
<1>7. CASE /\ outcome.code = "ok"
           /\ job' = [job EXCEPT !.phase = "validated", !.source = registry, !.admitted = None,
                                 !.loras = {}, !.validated = outcome.job]
  <2>1. /\ DOMAIN job' = DOMAIN Idle /\ job'.phase = "validated" /\ job'.req = job.req
        /\ job'.source = registry /\ job'.admitted = None /\ job'.validated = outcome.job
    BY <1>1, <1>7 DEF Idle
  <2>2. Types'
    BY <1>1, <2>1 DEF IInv, Types, Phases, Idle
  <2>3. /\ Parsed' /\ Stored' /\ PastRevalidation' /\ BeforeRevalidation'
        /\ RevalidationStable'
    BY <1>1, <2>1 DEF Parsed, Stored, PastRevalidation, BeforeRevalidation, RevalidationStable
  <2>4. /\ job.req.model \in DOMAIN ModelsOf(registry)
        /\ outcome.job.model = ModelsOf(registry)[job.req.model]
        /\ JobObeys(job.req, outcome.job, onDisk)
    <3> HIDE DEF onDisk
    <3> QED BY <1>1, <1>2, <1>4, <1>7, JudgementObeys
  <2>5. \E v \in DOMAIN Disks : JobObeys(job'.req, job'.validated, Disks[v].loras)
    BY <1>4, <2>1, <2>4
  <2>6. JobsWithinLimits'
    BY <1>4, <2>1, <2>4, <2>5 DEF JobsWithinLimits
  <2> QED BY <2>2, <2>3, <2>6 DEF IInv, JobInv
<1> QED BY <1>5, <1>6, <1>7

\* Building and uploading change neither the request nor the validated job.
LEMMA WorkerKeeps ==
    ASSUME PreparationAssumption, IInv, Build \/ UploadImage
    PROVE  IInv'
<1>1. /\ DOMAIN job = DOMAIN Idle /\ job.phase \in {"validated", "uploading"}
      /\ job.admitted = None
      /\ UNCHANGED <<disk, registry, lock, bundle>>
  BY DEF IInv, JobInv, PastRevalidation, Types, Build, UploadImage
<1>2. /\ DOMAIN job' = DOMAIN Idle /\ job'.phase \in {"uploading", "ready", "failed"}
      /\ job'.req = job.req /\ job'.source = job.source /\ job'.admitted = job.admitted
      /\ job'.validated = job.validated
  <2>1. CASE Build
    <3> DEFINE path == job.validated.workflow
               templates == Disks[disk].templates
    <3>1. PICK seed \in ActualSeeds(job.validated) :
             LET r == Graph(templates[path], seed) IN
             job' = IF path \notin DOMAIN templates
                    THEN [job EXCEPT !.phase = "failed", !.code = "internal", !.built = disk]
                    ELSE IF r.err # "none"
                    THEN [job EXCEPT !.phase = "failed", !.code = ErrorCode(r.err), !.built = disk]
                    ELSE [job EXCEPT !.phase = IF job.validated.init_image THEN "uploading"
                                               ELSE "ready",
                                     !.built = disk, !.graph = r.graph]
      BY <2>1 DEF Build
    <3> DEFINE r == Graph(templates[path], seed)
               next == IF job.validated.init_image THEN "uploading" ELSE "ready"
    <3>2. \/ job' = [job EXCEPT !.phase = "failed", !.code = "internal", !.built = disk]
          \/ job' = [job EXCEPT !.phase = "failed", !.code = ErrorCode(r.err), !.built = disk]
          \/ job' = [job EXCEPT !.phase = next, !.built = disk, !.graph = r.graph]
      BY <3>1
    <3>3. next \in {"uploading", "ready"}
      OBVIOUS
    <3> HIDE DEF r, next
    <3> QED BY <1>1, <3>2, <3>3 DEF Idle
  <2>2. CASE UploadImage
    <3> DEFINE graph == inject_init_image(job.graph, "upload").graph
    <3>1. \/ Fail("comfy_unreachable") \/ Fail("unrecorded") \/ Fail("internal")
          \/ job' = [job EXCEPT !.phase = "ready", !.graph = graph]
      BY <2>2 DEF UploadImage
    <3> HIDE DEF graph
    <3> QED BY <1>1, <3>1 DEF Fail, Idle
  <2> QED BY <2>1, <2>2
<1>3. Types'
  BY <1>1, <1>2 DEF IInv, Types, Phases
<1>4. /\ Parsed' /\ Stored' /\ PastRevalidation' /\ BeforeRevalidation'
      /\ RevalidationStable'
  BY <1>1, <1>2 DEF IInv, JobInv, Parsed, Stored, PastRevalidation, BeforeRevalidation,
                    RevalidationStable
<1>5. JobsWithinLimits'
  BY <1>1, <1>2 DEF IInv, JobInv, JobsWithinLimits
<1> QED BY <1>3, <1>4, <1>5 DEF IInv, JobInv

LEMMA NextKeeps ==
    ASSUME PreparationAssumption, IInv, [Next]_vars
    PROVE  IInv'
<1>1. CASE Edit \/ reload_registry \/ setup_bundle \/ WarmedUp \/ close_bundle \/ Unloaded
  BY <1>1, AdminKeepsTypes, JobKept DEF IInv
<1>2. ASSUME NEW r \in Requests, Arrive(r)
      PROVE  IInv'
  BY <1>2, ArriveKeeps
<1>3. CASE Admit
  BY <1>3, AdmitKeeps
<1>4. CASE Revalidate
  BY <1>4, RevalidateKeeps
<1>5. CASE Build \/ UploadImage
  BY <1>5, WorkerKeeps
<1>6. CASE UNCHANGED vars
  <2>1. Types'
    BY <1>6 DEF IInv, Types, vars
  <2> QED BY <1>6, <2>1, JobKept DEF IInv, vars
<1> QED BY <1>1, <1>2, <1>3, <1>4, <1>5, <1>6 DEF Next

\* The invariant holds of every behaviour.
THEOREM Invariant == Spec => []IInv
<1>1. Init => IInv
  BY PreparationAssumption, InitHolds
<1>2. IInv /\ [Next]_vars => IInv'
  BY PreparationAssumption, NextKeeps
<1> QED BY <1>1, <1>2, PTL DEF Spec

\* A stored request fails re-validation in the worker only if the configuration of its
\* model or the LoRA files changed after the handler accepted it.
THEOREM RevalidationStableHolds == Spec => []RevalidationStable
<1>1. IInv => RevalidationStable
  BY DEF IInv, JobInv
<1> QED BY <1>1, Invariant, PTL

\* Every job the worker goes on with obeys the limits its model has in a registry that
\* passed every check of load_registry.
THEOREM JobsWithinLimitsHolds == Spec => []JobsWithinLimits
<1>1. IInv => JobsWithinLimits
  BY DEF IInv, JobInv
<1> QED BY <1>1, Invariant, PTL

-----------------------------------------------------------------------------
(* The graphs that are built.                                              *)

\* What was built is a graph, with inputs if its template has them and well formed if the
\* templates are.
Graphs ==
    job.phase \in {"uploading", "ready"} =>
        /\ IsGraph(job.graph)
        /\ Fillable(Disks[job.built].templates[job.validated.workflow]) => Fillable(job.graph)
        /\ TemplatesWellFormed => WellFormed(job.graph)

\* The worker builds from a template on disk.
LEMMA BuildKeepsGraphs ==
    ASSUME PreparationAssumption, IInv, Build
    PROVE  Graphs'
<1> DEFINE path == job.validated.workflow
           templates == Disks[disk].templates
           g == templates[path]
<1>1. /\ DOMAIN job = DOMAIN Idle /\ job.phase = "validated" /\ job.req \in Requests
      /\ disk \in DOMAIN Disks
  BY DEF IInv, JobInv, Parsed, Types, Build, Idle
<1>2. PICK seed \in ActualSeeds(job.validated) :
         LET r == Graph(templates[path], seed) IN
         job' = IF path \notin DOMAIN templates
                THEN [job EXCEPT !.phase = "failed", !.code = "internal", !.built = disk]
                ELSE IF r.err # "none"
                THEN [job EXCEPT !.phase = "failed", !.code = ErrorCode(r.err), !.built = disk]
                ELSE [job EXCEPT !.phase = IF job.validated.init_image THEN "uploading"
                                           ELSE "ready",
                                 !.built = disk, !.graph = r.graph]
  BY DEF Build
<1> DEFINE r == Graph(g, seed)
           next == IF job.validated.init_image THEN "uploading" ELSE "ready"
<1>3. \/ job' = [job EXCEPT !.phase = "failed", !.code = "internal", !.built = disk]
      \/ job' = [job EXCEPT !.phase = "failed", !.code = ErrorCode(r.err), !.built = disk]
      \/ /\ path \in DOMAIN templates /\ r.err = "none"
         /\ job' = [job EXCEPT !.phase = next, !.built = disk, !.graph = r.graph]
  BY <1>2
<1>4. PICK v \in DOMAIN Disks : JobObeys(job.req, job.validated, Disks[v].loras)
  BY <1>1 DEF IInv, JobInv, JobsWithinLimits
<1>5. ASSUME path \in DOMAIN templates, r.err = "none"
      PROVE  IsGraph(r.graph) /\ (Fillable(g) => Fillable(r.graph)) /\ (TemplatesWellFormed => WellFormed(r.graph))
  <2>1. IsGraph(g)
    BY <1>1, <1>5 DEF PreparationAssumption, IsTemplate
  <2>2. TemplatesWellFormed => WellFormed(g) /\ FedByNone(g, Sources(g))
    BY <1>1, <1>5 DEF TemplatesWellFormed
  <2> HIDE DEF g
  <2>3. /\ IsGraph(r.graph)
        /\ Fillable(g) => Fillable(r.graph)
        /\ WellFormed(g) /\ FedByNone(g, Sources(g)) => WellFormed(r.graph)
    BY <1>1, <1>4, <1>5, <2>1, GraphIsSound
  <2> QED BY <2>2, <2>3
<1> HIDE DEF r, next, templates, g, path
<1>6. \/ job'.phase = "failed"
      \/ /\ path \in DOMAIN templates /\ r.err = "none" /\ job'.graph = r.graph
         /\ job'.built = disk /\ job'.validated = job.validated
  BY <1>1, <1>3 DEF Idle
<1> QED BY <1>5, <1>6 DEF Graphs, g, templates, path

\* An init image node that had no inputs has some, and nothing else changes.
LEMMA OpenedWiring ==
    ASSUME NEW g, IsGraph(g), NEW a
    PROVE  LET h == Opened(g, a) IN
           /\ SameWiring(g, h) /\ IsGraph(h)
           /\ \A i \in DOMAIN g : h[i].vals = g[i].vals
           /\ HasAnchor(g, a) => CanFill(h, a)
<1> DEFINE h == Opened(g, a)
           s == find_anchor(g, a)
<1>1. CASE ~HasAnchor(g, a)
  BY <1>1, WiringRefl DEF Opened
<1>2. CASE HasAnchor(g, a)
  <2>1. s \in DOMAIN g
    BY <1>2, AnchorFound
  <2>2. h = [g EXCEPT ![s] = [g[s] EXCEPT !.inputs = "object"]]
    BY <1>2 DEF Opened
  <2> HIDE DEF h, s
  <2>3. \A i \in DOMAIN g : DOMAIN g[i] = NodeFields
    BY DEF IsGraph, NodeFields
  <2>4. /\ DOMAIN h = DOMAIN g /\ \A i \in DOMAIN g : i # s => h[i] = g[i]
        /\ h[s] = [g[s] EXCEPT !.inputs = "object"]
    BY <2>1, <2>2
  <2>5. /\ DOMAIN h[s] = NodeFields /\ h[s].class = g[s].class
        /\ h[s].anchors = g[s].anchors /\ h[s].links = g[s].links
        /\ h[s].vals = g[s].vals /\ h[s].inputs = "object"
    BY <2>1, <2>3, <2>4 DEF NodeFields
  <2>6. SameWiring(g, h)
    BY <2>3, <2>4, <2>5 DEF SameWiring
  <2>7. \A i \in DOMAIN g : h[i].vals = g[i].vals
    BY <2>4, <2>5
  <2>8. HasAnchor(h, a) /\ find_anchor(h, a) = s
    BY <1>2, <2>6, WiringAnchors DEF s
  <2>9. CanFill(h, a)
    BY <2>5, <2>8 DEF CanFill
  <2> QED BY <2>6, <2>7, <2>9, WiringIsGraph DEF h
<1> QED BY <1>1, <1>2

\* What the upload makes of the job.
LEMMA UploadSteps ==
    ASSUME IInv, UploadImage
    PROVE  /\ job.phase = "uploading" /\ DOMAIN job = DOMAIN Idle
           /\ \/ job'.phase = "failed"
              \/ job' = [job EXCEPT !.phase = "ready",
                            !.graph = PatchIfAny(Opened(job.graph, "INIT_IMAGE"), "INIT_IMAGE",
                                                 [image |-> "upload"])]
<1> DEFINE r == inject_init_image(job.graph, "upload")
           h == PatchIfAny(Opened(job.graph, "INIT_IMAGE"), "INIT_IMAGE", [image |-> "upload"])
<1>1. DOMAIN job = DOMAIN Idle /\ job.phase = "uploading"
  BY DEF IInv, Types, UploadImage
<1>2. \/ Fail("comfy_unreachable") \/ Fail("unrecorded") \/ Fail("internal")
      \/ r.err = "none" /\ job' = [job EXCEPT !.phase = "ready", !.graph = r.graph]
  BY DEF UploadImage
<1>3. r.err = "none" => r.graph = h
  BY DEF inject_init_image, Ok, Raise
<1> HIDE DEF r, h
<1>4. job'.phase = "failed" \/ job' = [job EXCEPT !.phase = "ready", !.graph = h]
  BY <1>1, <1>2, <1>3 DEF Fail, Idle
<1> QED BY <1>1, <1>4 DEF h

\* The name of the uploaded image is a value, so it leaves the links alone.
LEMMA UploadKeepsGraphs ==
    ASSUME IInv, Graphs, UploadImage
    PROVE  Graphs'
<1> DEFINE open == Opened(job.graph, "INIT_IMAGE")
           graph == PatchIfAny(open, "INIT_IMAGE", [image |-> "upload"])
           template == Disks[job.built].templates[job.validated.workflow]
<1>1. /\ DOMAIN job = DOMAIN Idle /\ job.phase = "uploading"
      /\ job'.phase = "failed" \/ job' = [job EXCEPT !.phase = "ready", !.graph = graph]
  BY UploadSteps
<1>2. /\ IsGraph(job.graph) /\ (Fillable(template) => Fillable(job.graph))
      /\ TemplatesWellFormed => WellFormed(job.graph)
  BY <1>1 DEF Graphs
<1>3. SameWiring(job.graph, open) /\ IsGraph(open)
  BY <1>2, OpenedWiring
<1> HIDE DEF open
<1>4. SameWiring(open, graph) /\ IsGraph(graph)
  BY <1>3, PatchIfAnyWiring
<1>5. SameWiring(job.graph, graph)
  BY <1>3, <1>4, WiringTrans
<1> HIDE DEF graph, template
<1>6. WellFormed(job.graph) => WellFormed(graph)
  BY <1>2, <1>4, <1>5, WiringInputs, WellFormedIffAcyclic
<1>7. \/ job'.phase = "failed"
      \/ job'.graph = graph /\ job'.built = job.built /\ job'.validated = job.validated
  BY <1>1 DEF Idle
<1> QED BY <1>2, <1>4, <1>5, <1>6, <1>7, WiringFilled DEF Graphs, template

LEMMA GraphsKept ==
    ASSUME PreparationAssumption, IInv, Graphs, [Next]_vars
    PROVE  Graphs'
<1>1. CASE Edit \/ reload_registry \/ setup_bundle \/ WarmedUp \/ close_bundle \/ Unloaded
  <2>1. job' = job
    BY <1>1, AdminKeepsTypes DEF IInv
  <2> QED BY <2>1 DEF Graphs
<1>2. ASSUME NEW r \in Requests, Arrive(r)
      PROVE  Graphs'
  <2>1. job'.phase \in {"refused", "parsing"}
    BY <1>2 DEF Arrive, Idle
  <2> QED BY <2>1 DEF Graphs
<1>3. CASE Admit
  <2>1. DOMAIN job = DOMAIN Idle
    BY DEF IInv, Types
  <2>2. job'.phase \in {"refused", "queued"}
    BY <1>3, <2>1 DEF Admit, Refuse, Idle
  <2> QED BY <2>2 DEF Graphs
<1>4. CASE Revalidate
  <2>1. DOMAIN job = DOMAIN Idle
    BY DEF IInv, Types
  <2>2. job'.phase \in {"failed", "validated"}
    BY <1>4, <2>1 DEF Revalidate, Idle
  <2> QED BY <2>2 DEF Graphs
<1>5. CASE Build
  BY <1>5, BuildKeepsGraphs
<1>6. CASE UploadImage
  BY <1>6, UploadKeepsGraphs
<1>7. CASE UNCHANGED vars
  BY <1>7 DEF vars, Graphs
<1> QED BY <1>1, <1>2, <1>3, <1>4, <1>5, <1>6, <1>7 DEF Next

THEOREM GraphsInvariant == Spec => []Graphs
<1>1. Init => Graphs
  BY DEF Init, Idle, Graphs
<1>2. IInv /\ Graphs /\ [Next]_vars => Graphs'
  BY PreparationAssumption, GraphsKept
<1> QED BY <1>1, <1>2, Invariant, PTL DEF Spec

\* Building fails only for what FailuresExplained names.
LEMMA BuildExplained ==
    ASSUME PreparationAssumption, IInv, Build
    PROVE  FailuresExplained'
<1> DEFINE path == job.validated.workflow
           templates == Disks[disk].templates
           g == templates[path]
<1>1. /\ DOMAIN job = DOMAIN Idle /\ job.phase = "validated" /\ job.req \in Requests
  BY DEF IInv, JobInv, Parsed, Types, Build, Idle
<1>2. PICK seed \in ActualSeeds(job.validated) :
         LET r == Graph(templates[path], seed) IN
         job' = IF path \notin DOMAIN templates
                THEN [job EXCEPT !.phase = "failed", !.code = "internal", !.built = disk]
                ELSE IF r.err # "none"
                THEN [job EXCEPT !.phase = "failed", !.code = ErrorCode(r.err), !.built = disk]
                ELSE [job EXCEPT !.phase = IF job.validated.init_image THEN "uploading"
                                           ELSE "ready",
                                 !.built = disk, !.graph = r.graph]
  BY DEF Build
<1> DEFINE r == Graph(g, seed)
           next == IF job.validated.init_image THEN "uploading" ELSE "ready"
<1>3. next # "failed"
  OBVIOUS
<1>4. /\ path \in DOMAIN templates /\ r.err = "none"
            => job' = [job EXCEPT !.phase = next, !.built = disk, !.graph = r.graph]
      /\ \/ job' = [job EXCEPT !.phase = "failed", !.code = "internal", !.built = disk]
         \/ job' = [job EXCEPT !.phase = "failed", !.code = ErrorCode(r.err), !.built = disk]
         \/ job' = [job EXCEPT !.phase = next, !.built = disk, !.graph = r.graph]
  BY <1>2
<1> HIDE DEF r, next, templates, g
<1>5. /\ job'.validated = job.validated /\ job'.req = job.req /\ job'.source = job.source
      /\ job'.built = disk
      /\ path \in DOMAIN templates /\ r.err = "none" => job'.phase # "failed"
  BY <1>1, <1>3, <1>4 DEF Idle
<1>6. SUFFICES ASSUME TemplateAsLoaded',
                      Fillable(g),
                      job.req.kind = "image" =>
                         /\ job.validated.model.family \notin VideoFamilies
                         /\ ~SourceUnsupported(g, job.validated.model),
                      job.req.kind = "video" => ~VideoUnchecked(g, job.validated)
               PROVE  path \in DOMAIN templates /\ r.err = "none"
  BY <1>5, FillableMeans DEF FailuresExplained, g, templates
<1>7. /\ path \in DOMAIN templates
      /\ g = Disks[job.source].templates[path]
      /\ job.source \in DOMAIN Disks /\ Loaded[job.source].stage = "ok"
      /\ job.req.model \in DOMAIN ModelsOf(job.source)
      /\ job.validated.model = ModelsOf(job.source)[job.req.model]
  BY <1>1, <1>5, <1>6 DEF TemplateAsLoaded, g, templates, IInv, JobInv, JobsWithinLimits
<1>8. PICK v \in DOMAIN Disks : JobObeys(job.req, job.validated, Disks[v].loras)
  BY <1>1 DEF IInv, JobInv, JobsWithinLimits
<1>9. path \in DOMAIN Disks[job.source].templates
  <2>1. Checked(Disks[job.source].templates, job.validated.model)
    BY <1>7, ModelsAreChecked
  <2>2. \/ path = job.validated.model.workflow
        \/ /\ job.validated.model.workflow_with_audio # None
           /\ path = job.validated.model.workflow_with_audio
    BY <1>8 DEF JobObeys, ImageObeys, VideoObeys
  <2> QED BY <2>1, <2>2 DEF Checked
<1>10. r.err = "none"
  <2>1. Graph(g, seed).err = "none"
    BY <1>1, <1>6, <1>7, <1>8, <1>9, TemplateFills
  <2> QED BY <2>1 DEF r
<1> QED BY <1>7, <1>10

\* The upload fails with its own codes, or on a node of the template without inputs.
LEMMA UploadExplained ==
    ASSUME IInv, Graphs, UploadImage
    PROVE  FailuresExplained'
<1> DEFINE r == inject_init_image(job.graph, "upload")
           template == Disks[job.built].templates[job.validated.workflow]
<1>1. DOMAIN job = DOMAIN Idle /\ job.phase = "uploading"
  BY DEF IInv, Types, UploadImage
<1>2. \/ Fail("comfy_unreachable") \/ Fail("unrecorded")
      \/ r.err # "none" /\ Fail("internal")
      \/ r.err = "none" /\ job' = [job EXCEPT !.phase = "ready", !.graph = r.graph]
  BY DEF UploadImage
<1>3. r.err # "none" => Unfit(job.graph, "INIT_IMAGE")
  BY DEF inject_init_image, Ok
<1>4. IsGraph(job.graph) /\ (Fillable(template) => Fillable(job.graph))
  BY <1>1 DEF Graphs
<1> HIDE DEF r, template
<1>5. r.err # "none" => InputsMissing(template)
  BY <1>3, <1>4, AnchorFilled, FillableMeans
<1>6. \/ job'.phase = "ready" \/ job'.code \in {"comfy_unreachable", "unrecorded"}
      \/ /\ r.err # "none"
         /\ job'.built = job.built /\ job'.validated = job.validated
  BY <1>1, <1>2 DEF Fail, Idle
<1> QED BY <1>5, <1>6 DEF FailuresExplained, template

LEMMA FailuresKept ==
    ASSUME PreparationAssumption, IInv, Graphs, FailuresExplained, [Next]_vars
    PROVE  FailuresExplained'
<1>1. DOMAIN job = DOMAIN Idle
  BY DEF IInv, Types
<1>2. ASSUME job' = job
      PROVE  FailuresExplained'
  BY <1>2 DEF FailuresExplained, TemplateAsLoaded
<1>3. CASE Edit \/ reload_registry \/ setup_bundle \/ WarmedUp \/ close_bundle \/ Unloaded
  BY <1>2, <1>3, AdminKeepsTypes DEF IInv
<1>4. ASSUME NEW r \in Requests, Arrive(r)
      PROVE  FailuresExplained'
  <2>1. job'.phase \in {"refused", "parsing"}
    BY <1>4 DEF Arrive, Idle
  <2> QED BY <2>1 DEF FailuresExplained
<1>5. CASE Admit
  <2>1. job'.phase \in {"refused", "queued"}
    BY <1>1, <1>5 DEF Admit, Refuse, Idle
  <2> QED BY <2>1 DEF FailuresExplained
<1>6. CASE Revalidate
  <2>1. job.validated = None
    BY <1>6 DEF IInv, JobInv, BeforeRevalidation, Revalidate
  <2>2. job'.phase = "validated" \/ job'.validated = None
    BY <1>1, <1>6, <2>1 DEF Revalidate, Idle
  <2> QED BY <2>2 DEF FailuresExplained
<1>7. CASE Build
  BY <1>7, BuildExplained
<1>8. CASE UploadImage
  BY <1>8, UploadExplained
<1>9. CASE UNCHANGED vars
  BY <1>2, <1>9 DEF vars
<1> QED BY <1>3, <1>4, <1>5, <1>6, <1>7, <1>8, <1>9 DEF Next

\* The checks of load_registry are enough for the worker: injecting a validated job into
\* a template raises only if the template was edited since the registry was loaded, if an
\* image request named a video model, or for what load_registry does not look at, nodes
\* without inputs among it (_load_and_validate, load_workflow, validate_anchors, inject_*,
\* worker.py).
THEOREM FailuresExplainedHolds == Spec => []FailuresExplained
<1>1. Init => FailuresExplained
  BY DEF Init, Idle, FailuresExplained
<1>2. IInv /\ Graphs /\ FailuresExplained /\ [Next]_vars => FailuresExplained'
  BY PreparationAssumption, FailuresKept
<1> QED BY <1>1, <1>2, Invariant, GraphsInvariant, PTL DEF Spec

\* If no template on disk has a cycle or a link to nowhere, and the loaders a LoRA chain
\* starts from are fed by nothing, then neither has the graph that is submitted, whatever
\* LoRAs, options and template the job has (rewrite_inputs, inject_loras,
\* inject_wan_core_loras, disconnect_loader_lora, apply_wan_advanced_patches).
THEOREM GraphWellFormedHolds == TemplatesWellFormed => (Spec => []GraphWellFormed)
<1>1. TemplatesWellFormed /\ Graphs => GraphWellFormed
  BY DEF Graphs, GraphWellFormed
<1> SUFFICES ASSUME TemplatesWellFormed
             PROVE  Spec => []GraphWellFormed
  OBVIOUS
<1>2. Graphs => GraphWellFormed
  BY <1>1
<1> QED BY <1>2, GraphsInvariant, PTL

\* Whatever an administrator does, the registry in memory comes from a version that
\* passed every check, and a warm-up is pending only under the lock; a job in the worker
\* has a model of the file it was validated with, and what was built is a graph
\* (load_registry, reload_registry, setup_bundle, the worker).
THEOREM TypesHold == Spec => []TypeOK
<1>1. IInv /\ Graphs => TypeOK
  <2>1. ASSUME IInv, job.phase \in {"validated", "uploading", "ready"}
        PROVE  job.validated.model \in Range(Disks[job.source].yaml)
    <3>1. /\ job.source \in DOMAIN Disks /\ Loaded[job.source].stage = "ok"
          /\ job.req.model \in DOMAIN ModelsOf(job.source)
          /\ job.validated.model = ModelsOf(job.source)[job.req.model]
      BY <2>1 DEF IInv, JobInv, JobsWithinLimits
    <3> QED BY <3>1, PreparationAssumption, ModelsAreEntries
  <2>2. IInv => /\ Types
                /\ bundle.active \in Bundles \cup {{}}
    BY DEF IInv, Types
  <2> QED BY <2>1, <2>2 DEF TypeOK, Types, Phases, Graphs
<1> QED BY <1>1, Invariant, GraphsInvariant, PTL

-----------------------------------------------------------------------------
(* The values in a graph.                                                  *)

Holds(g, i, k, x) == i \in DOMAIN g /\ k \in DOMAIN g[i].vals /\ g[i].vals[k] = x
At(g, a, k, x) == HasAnchor(g, a) /\ Holds(g, find_anchor(g, a), k, x)

\* A patch sets its values and leaves the others, and those it agrees with.
LEMMA PatchHolds ==
    ASSUME NEW g, IsGraph(g), NEW i, NEW new
    PROVE  LET h == Patch(g, i, new) IN
           /\ i \in DOMAIN g => \A k \in DOMAIN new : Holds(h, i, k, new[k])
           /\ \A j, k, x : Holds(g, j, k, x) /\ (k \in DOMAIN new => new[k] = x)
                              => Holds(h, j, k, x)
<1> DEFINE vals == Over(new, g[i].vals)
           h == Patch(g, i, new)
<1>1. h = [g EXCEPT ![i] = [g[i] EXCEPT !.vals = vals]]
  BY DEF Patch
<1>2. /\ DOMAIN vals = DOMAIN new \cup DOMAIN g[i].vals
      /\ \A k \in DOMAIN new : vals[k] = new[k]
      /\ \A k \in DOMAIN g[i].vals : k \notin DOMAIN new => vals[k] = g[i].vals[k]
  BY DEF Over
<1> HIDE DEF h, vals
<1>3. ASSUME i \in DOMAIN g
      PROVE  i \in DOMAIN h /\ h[i].vals = vals
  <2>1. DOMAIN g[i] = NodeFields /\ h[i] = [g[i] EXCEPT !.vals = vals] /\ i \in DOMAIN h
    BY <1>1, <1>3 DEF IsGraph, NodeFields
  <2> QED BY <2>1 DEF NodeFields
<1>4. \A j \in DOMAIN g : j \in DOMAIN h /\ (j # i => h[j] = g[j])
  BY <1>1
<1>5. i \in DOMAIN g => \A k \in DOMAIN new : Holds(h, i, k, new[k])
  BY <1>2, <1>3 DEF Holds
<1>6. ASSUME NEW j, NEW k, NEW x, Holds(g, j, k, x), k \in DOMAIN new => new[k] = x
      PROVE  Holds(h, j, k, x)
  <2>1. CASE j = i
    BY <1>2, <1>3, <1>6, <2>1 DEF Holds
  <2>2. CASE j # i
    BY <1>4, <1>6, <2>2 DEF Holds
  <2> QED BY <2>1, <2>2
<1> QED BY <1>5, <1>6 DEF h

LEMMA PatchAtHolds ==
    ASSUME NEW g, IsGraph(g), NEW b, NEW new
    PROVE  LET h == PatchAt(g, b, new) IN
           /\ HasAnchor(g, b) => \A k \in DOMAIN new : At(h, b, k, new[k])
           /\ \A a, k, x : At(g, a, k, x) /\ (k \in DOMAIN new => new[k] = x) => At(h, a, k, x)
<1> DEFINE h == PatchAt(g, b, new)
           i == find_anchor(g, b)
<1>1. h = Patch(g, i, new)
  BY DEF PatchAt
<1>2. SameWiring(g, h)
  BY PatchAtWiring
<1>3. /\ i \in DOMAIN g => \A k \in DOMAIN new : Holds(h, i, k, new[k])
      /\ \A j, k, x : Holds(g, j, k, x) /\ (k \in DOMAIN new => new[k] = x) => Holds(h, j, k, x)
  <2> HIDE DEF h, i
  <2> QED BY <1>1, PatchHolds
<1>4. HasAnchor(g, b) => i \in DOMAIN g
  BY AnchorFound
<1> HIDE DEF h
<1>5. \A a : HasAnchor(h, a) = HasAnchor(g, a) /\ find_anchor(h, a) = find_anchor(g, a)
  BY <1>2, WiringAnchors
<1>6. HasAnchor(g, b) => \A k \in DOMAIN new : At(h, b, k, new[k])
  BY <1>3, <1>4, <1>5 DEF At
<1>7. \A a, k, x : At(g, a, k, x) /\ (k \in DOMAIN new => new[k] = x) => At(h, a, k, x)
  BY <1>3, <1>5 DEF At
<1> QED BY <1>6, <1>7 DEF h

LEMMA PatchIfAnyHolds ==
    ASSUME NEW g, IsGraph(g), NEW b, NEW new
    PROVE  LET h == PatchIfAny(g, b, new) IN
           /\ CanFill(g, b) => \A k \in DOMAIN new : At(h, b, k, new[k])
           /\ \A a, k, x : At(g, a, k, x) /\ (k \in DOMAIN new => new[k] = x) => At(h, a, k, x)
<1>1. CASE CanFill(g, b)
  <2>1. PatchIfAny(g, b, new) = PatchAt(g, b, new)
    BY <1>1 DEF PatchIfAny
  <2>2. HasAnchor(g, b)
    BY <1>1 DEF CanFill
  <2> QED BY <2>1, <2>2, PatchAtHolds
<1>2. CASE ~CanFill(g, b)
  BY <1>2 DEF PatchIfAny
<1> QED BY <1>1, <1>2

LEMMA PatchAllHolds ==
    ASSUME NEW g, IsGraph(g), NEW nodes, NEW new, NEW j, NEW k, NEW x,
           Holds(g, j, k, x), k \notin DOMAIN new
    PROVE  Holds(PatchAll(g, nodes, new), j, k, x)
<1> DEFINE h == PatchAll(g, nodes, new)
           vals == Over(new, g[j].vals)
<1>1. j \in DOMAIN g /\ DOMAIN g[j] = NodeFields
  BY DEF Holds, IsGraph, NodeFields
<1>2. j \in DOMAIN h
      /\ h[j] = IF j \in nodes THEN [g[j] EXCEPT !.vals = vals] ELSE g[j]
  BY <1>1 DEF PatchAll
<1>3. k \in DOMAIN vals /\ vals[k] = x
  BY DEF Over, Holds
<1> HIDE DEF h, vals
<1>4. CASE j \in nodes
  <2>1. h[j].vals = vals
    BY <1>1, <1>2, <1>4 DEF NodeFields
  <2> QED BY <1>2, <1>3, <2>1 DEF Holds, h
<1>5. CASE j \notin nodes
  BY <1>2, <1>5 DEF Holds, h
<1> QED BY <1>4, <1>5

\* What splicing leaves alone: the nodes of the graph but for their links.  New nodes are
\* LoRA loaders without anchors.
SameNodes(g, h) ==
    \A i \in DOMAIN g : /\ i \in DOMAIN h /\ DOMAIN h[i] = NodeFields
                        /\ h[i].class = g[i].class /\ h[i].anchors = g[i].anchors
                        /\ g[i].inputs = "object" => h[i].inputs = "object"

Grows(g, h) ==
    /\ SameNodes(g, h)
    /\ \A i \in DOMAIN h \ DOMAIN g : /\ h[i].anchors = {}
                                      /\ h[i].class \in {"LoraLoader", "LoraLoaderModelOnly"}

KeepsVals(g, h) == \A i \in DOMAIN g : h[i].vals = g[i].vals

\* The files that h loads are those of g.
AddsNoFile(g, h) ==
    \A i \in DOMAIN h : \A k \in DOMAIN h[i].vals \cap FileFields :
        i \in DOMAIN g /\ k \in DOMAIN g[i].vals /\ h[i].vals[k] = g[i].vals[k]

LEMMA AddsNoFileTrans ==
    ASSUME NEW g, NEW h, NEW k, AddsNoFile(g, h), AddsNoFile(h, k)
    PROVE  AddsNoFile(g, k)
BY DEF AddsNoFile

LEMMA KeepingAddsNoFile ==
    ASSUME NEW g, NEW h, DOMAIN h = DOMAIN g, \A i \in DOMAIN g : h[i].vals = g[i].vals
    PROVE  AddsNoFile(g, h)
BY DEF AddsNoFile

\* The values of a patched graph.
LEMMA PatchValues ==
    ASSUME NEW g, IsGraph(g), NEW i, NEW new
    PROVE  LET h == Patch(g, i, new) IN
           /\ DOMAIN h = DOMAIN g
           /\ \A j \in DOMAIN g : h[j].vals = IF j = i THEN Over(new, g[j].vals) ELSE g[j].vals
<1> DEFINE vals == Over(new, g[i].vals)
           h == Patch(g, i, new)
<1>1. h = [g EXCEPT ![i] = [g[i] EXCEPT !.vals = vals]]
  BY DEF Patch
<1> HIDE DEF h, vals
<1>2. ASSUME NEW j \in DOMAIN g
      PROVE  h[j].vals = IF j = i THEN vals ELSE g[j].vals
  <2>1. DOMAIN g[j] = NodeFields
    BY DEF IsGraph, NodeFields
  <2>2. h[j] = IF j = i THEN [g[j] EXCEPT !.vals = vals] ELSE g[j]
    BY <1>1
  <2> QED BY <2>1, <2>2 DEF NodeFields
<1> QED BY <1>1, <1>2 DEF h, vals

LEMMA PatchAddsNoFile ==
    ASSUME NEW g, IsGraph(g), NEW i, NEW new, DOMAIN new \cap FileFields = {}
    PROVE  AddsNoFile(g, Patch(g, i, new))
<1> DEFINE h == Patch(g, i, new)
<1>1. /\ DOMAIN h = DOMAIN g
      /\ \A j \in DOMAIN g : h[j].vals = IF j = i THEN Over(new, g[j].vals) ELSE g[j].vals
  BY PatchValues
<1> HIDE DEF h
<1>2. AddsNoFile(g, h)
  BY <1>1 DEF AddsNoFile, Over
<1> QED BY <1>2 DEF h

LEMMA GrowsRefl ==
    ASSUME NEW g, IsGraph(g)
    PROVE  Grows(g, g) /\ KeepsVals(g, g) /\ AddsNoFile(g, g)
BY DEF Grows, SameNodes, KeepsVals, AddsNoFile, IsGraph, NodeFields

LEMMA WiringGrows ==
    ASSUME NEW g, NEW h, SameWiring(g, h)
    PROVE  Grows(g, h)
BY DEF Grows, SameNodes, SameWiring

LEMMA GrowsTrans ==
    ASSUME NEW g, NEW h, NEW k, Grows(g, h), Grows(h, k)
    PROVE  Grows(g, k)
<1>1. SameNodes(g, k)
  BY DEF Grows, SameNodes
<1>2. ASSUME NEW i \in DOMAIN k \ DOMAIN g
      PROVE  k[i].anchors = {} /\ k[i].class \in {"LoraLoader", "LoraLoaderModelOnly"}
  BY DEF Grows, SameNodes
<1> QED BY <1>1, <1>2 DEF Grows

LEMMA GrowsAnchors ==
    ASSUME NEW g, NEW h, Grows(g, h), NEW a
    PROVE  /\ Owners(h, a) = Owners(g, a)
           /\ HasAnchor(h, a) = HasAnchor(g, a)
           /\ find_anchor(h, a) = find_anchor(g, a)
<1>1. Owners(h, a) = Owners(g, a)
  BY DEF Owners, Grows, SameNodes
<1> QED BY <1>1 DEF HasAnchor, find_anchor

LEMMA GrowsCanFill ==
    ASSUME NEW g, NEW h, IsGraph(g), Grows(g, h), NEW a, CanFill(g, a)
    PROVE  CanFill(h, a)
<1>1. /\ HasAnchor(h, a) /\ find_anchor(h, a) = find_anchor(g, a)
      /\ find_anchor(g, a) \in DOMAIN g
  BY GrowsAnchors, AnchorFound DEF CanFill
<1> QED BY <1>1 DEF CanFill, Grows, SameNodes

LEMMA GrowsTwoPasses ==
    ASSUME NEW g, NEW h, IsGraph(g), Grows(g, h), TwoPasses(g)
    PROVE  TwoPasses(h)
<1>1. Owners(h, "WAN_SAMPLER") = Owners(g, "WAN_SAMPLER")
  BY GrowsAnchors
<1>2. \A i \in Owners(g, "WAN_SAMPLER") : i \in DOMAIN g /\ h[i].class = g[i].class
  BY DEF Owners, Grows, SameNodes
<1>3. CanFill(g, "WAN_NAG_SAMPLER") => CanFill(h, "WAN_NAG_SAMPLER")
  BY GrowsCanFill
<1> QED BY <1>1, <1>2, <1>3 DEF TwoPasses

LEMMA RewriteGrows ==
    ASSUME NEW g, NEW from, NEW to, NEW skip, \A i \in DOMAIN g : DOMAIN g[i] = NodeFields
    PROVE  LET h == rewrite_inputs(g, from, to, skip) IN
           /\ DOMAIN h = DOMAIN g
           /\ \A i \in DOMAIN g :
                 /\ DOMAIN h[i] = NodeFields /\ h[i].class = g[i].class
                 /\ h[i].anchors = g[i].anchors /\ h[i].vals = g[i].vals
                 /\ h[i].inputs = g[i].inputs
<1> DEFINE links(i) == [k \in DOMAIN g[i].links |->
                          IF g[i].links[k] = from THEN to ELSE g[i].links[k]]
           h == rewrite_inputs(g, from, to, skip)
<1>1. h = [i \in DOMAIN g |-> IF i \in skip THEN g[i] ELSE [g[i] EXCEPT !.links = links(i)]]
  BY DEF rewrite_inputs
<1> HIDE DEF h, links
<1>2. ASSUME NEW i \in DOMAIN g
      PROVE  /\ DOMAIN h[i] = NodeFields /\ h[i].class = g[i].class
             /\ h[i].anchors = g[i].anchors /\ h[i].vals = g[i].vals
             /\ h[i].inputs = g[i].inputs
  <2>1. h[i] = g[i] \/ h[i] = [g[i] EXCEPT !.links = links(i)]
    BY <1>1
  <2> QED BY <2>1 DEF NodeFields
<1> QED BY <1>1, <1>2 DEF h

\* The class and the values of the nodes of a chain.
LEMMA ChainClass ==
    ASSUME NEW g, NEW class, NEW loras, NEW heads
    PROVE  LET chain == LoraChain(g, class, loras, heads) IN
           \A i \in DOMAIN chain : chain[i].class = class /\ DOMAIN chain[i].vals = {"lora"}
BY DEF LoraChain

\* Nodes put beside those of a graph.
LEMMA OverGrows ==
    ASSUME NEW g, IsGraph(g), NEW S, NEW loras \in Seq(S), loras # <<>>, NEW heads,
           NEW class \in {"LoraLoader", "LoraLoaderModelOnly"}, DOMAIN g # {}
    PROVE  LET h == Over(g, LoraChain(g, class, loras, heads)) IN
           /\ Grows(g, h) /\ KeepsVals(g, h) /\ AddsNoFile(g, h)
           /\ \A i \in DOMAIN h : DOMAIN h[i] = NodeFields
<1> DEFINE chain == LoraChain(g, class, loras, heads)
           h == Over(g, chain)
<1>1. /\ DOMAIN chain \cap DOMAIN g = {}
      /\ \A i \in DOMAIN chain : DOMAIN chain[i] = NodeFields /\ chain[i].anchors = {}
  BY ChainShape
<1>2. \A i \in DOMAIN chain : chain[i].class = class /\ DOMAIN chain[i].vals = {"lora"}
  BY ChainClass
<1> HIDE DEF chain
<1>3. /\ DOMAIN h = DOMAIN g \cup DOMAIN chain
      /\ \A i \in DOMAIN g : h[i] = g[i]
      /\ \A i \in DOMAIN chain : h[i] = chain[i]
  BY <1>1 DEF Over
<1>4. \A i \in DOMAIN g : DOMAIN g[i] = NodeFields
  BY DEF IsGraph, NodeFields
<1> HIDE DEF h
<1>5. Grows(g, h) /\ KeepsVals(g, h) /\ \A i \in DOMAIN h : DOMAIN h[i] = NodeFields
  BY <1>1, <1>2, <1>3, <1>4 DEF Grows, SameNodes, KeepsVals
<1>6. AddsNoFile(g, h)
  BY <1>2, <1>3 DEF AddsNoFile, FileFields
<1> QED BY <1>5, <1>6 DEF h, chain

\* inject_loras.
LEMMA LorasGrow ==
    ASSUME NEW g, IsGraph(g), NEW S, NEW loras \in Seq(S), inject_loras(g, loras).err = "none"
    PROVE  LET h == inject_loras(g, loras).graph IN
           Grows(g, h) /\ KeepsVals(g, h) /\ AddsNoFile(g, h)
<1> DEFINE ms == find_anchor(g, "MODEL_SOURCE")
           cs == find_anchor(g, "CLIP_SOURCE")
           model == <<ms, infer_output_slot(g, ms, 0)>>
           clip == <<cs, infer_output_slot(g, cs, 1)>>
           heads == [model |-> model, clip |-> clip]
           chain == LoraChain(g, "LoraLoader", loras, heads)
           new == DOMAIN chain
           h == Over(g, chain)
           g1 == rewrite_inputs(h, model, <<Max(new), 0>>, new)
           g2 == rewrite_inputs(g1, clip, <<Max(new), 1>>, new)
           r == inject_loras(g, loras)
<1>1. r = IF loras = <<>> THEN Ok(g)
          ELSE IF ~HasAnchors(g, {"MODEL_SOURCE", "CLIP_SOURCE"}) THEN Raise("workflow")
          ELSE Ok(g2)
  BY DEF inject_loras
<1> HIDE DEF heads, model, clip, g2, r
<1>2. CASE loras = <<>>
  BY <1>1, <1>2, GrowsRefl DEF Ok, r
<1>3. CASE loras # <<>>
  <2>1. HasAnchors(g, {"MODEL_SOURCE", "CLIP_SOURCE"}) /\ r = Ok(g2)
    BY <1>1, <1>3 DEF Raise, r
  <2>2. DOMAIN g # {}
    BY <2>1, AnchorFound DEF HasAnchors
  <2>3. /\ Grows(g, h) /\ KeepsVals(g, h) /\ AddsNoFile(g, h)
        /\ \A i \in DOMAIN h : DOMAIN h[i] = NodeFields
    BY <1>3, <2>2, OverGrows
  <2> HIDE DEF h, new
  <2>4. /\ DOMAIN g1 = DOMAIN h
        /\ \A i \in DOMAIN h :
              /\ DOMAIN g1[i] = NodeFields /\ g1[i].class = h[i].class
              /\ g1[i].anchors = h[i].anchors /\ g1[i].vals = h[i].vals
              /\ g1[i].inputs = h[i].inputs
    BY <2>3, RewriteGrows
  <2> HIDE DEF g1
  <2>5. /\ DOMAIN g2 = DOMAIN h
        /\ \A i \in DOMAIN h :
              /\ DOMAIN g2[i] = NodeFields /\ g2[i].class = g1[i].class
              /\ g2[i].anchors = g1[i].anchors /\ g2[i].vals = g1[i].vals
              /\ g2[i].inputs = g1[i].inputs
    BY <2>4, RewriteGrows DEF g2
  <2>6. Grows(g, g2) /\ KeepsVals(g, g2)
    BY <2>3, <2>4, <2>5 DEF Grows, SameNodes, KeepsVals
  <2>7. AddsNoFile(g, g2)
    <3>1. AddsNoFile(h, g2)
      BY <2>4, <2>5, KeepingAddsNoFile
    <3> QED BY <2>3, <3>1, AddsNoFileTrans
  <2> QED BY <2>1, <2>6, <2>7 DEF Ok, r
<1> QED BY <1>2, <1>3

\* inject_wan_core_loras_between.
LEMMA CoreLorasGrow ==
    ASSUME NEW g, IsGraph(g), NEW S, NEW loras \in Seq(S), NEW model, NEW shift,
           inject_wan_core_loras_between(g, loras, model, shift).err = "none"
    PROVE  LET h == inject_wan_core_loras_between(g, loras, model, shift).graph IN
           Grows(g, h) /\ AddsNoFile(g, h)
<1> DEFINE ms == find_anchor(g, model)
           s == find_anchor(g, shift)
           heads == [k \in {"model"} |-> <<ms, 0>>]
           first == FirstN(loras, WAN_MAX_LORAS)
           chain == LoraChain(g, "LoraLoaderModelOnly", first, heads)
           k == Over(g, chain)
           end == [x \in {"model"} |-> <<Max(DOMAIN chain), 0>>]
           h == [k EXCEPT ![s].links = Over(end, @)]
           r == inject_wan_core_loras_between(g, loras, model, shift)
<1>1. r = IF loras = <<>> THEN Ok(g)
          ELSE IF ~HasAnchors(g, {model, shift}) THEN Raise("workflow")
          ELSE IF Bare(g, shift) THEN Ok(k) ELSE Ok(h)
  <2> DEFINE start == [model |-> <<ms, 0>>]
             tail == [model |-> <<Max(DOMAIN chain), 0>>]
  <2>1. start = heads /\ tail = end
    OBVIOUS
  <2> HIDE DEF start, tail
  <2> QED BY <2>1 DEF inject_wan_core_loras_between, start, tail
<1> HIDE DEF heads, h, r
<1>2. CASE loras = <<>>
  BY <1>1, <1>2, GrowsRefl DEF Ok, r
<1>3. CASE loras # <<>>
  <2>1. HasAnchors(g, {model, shift}) /\ (r = Ok(k) \/ r = Ok(h))
    BY <1>1, <1>3 DEF Raise, r
  <2>2. DOMAIN g # {}
    BY <2>1, AnchorFound DEF HasAnchors
  <2>3. first \in Seq(S) /\ first # <<>>
    BY <1>3, FirstNIsSeq
  <2> HIDE DEF first
  <2>4. Grows(g, k) /\ AddsNoFile(g, k) /\ \A i \in DOMAIN k : DOMAIN k[i] = NodeFields
    BY <2>2, <2>3, OverGrows
  <2> HIDE DEF k, end, s
  <2> DEFINE links == Over(end, k[s].links)
  <2>5. h = [k EXCEPT ![s] = [k[s] EXCEPT !.links = links]]
    BY DEF h
  <2> HIDE DEF links
  <2>6. ASSUME NEW i \in DOMAIN k
        PROVE  /\ i \in DOMAIN h /\ DOMAIN h[i] = NodeFields
               /\ h[i].class = k[i].class /\ h[i].anchors = k[i].anchors
               /\ h[i].vals = k[i].vals /\ h[i].inputs = k[i].inputs
    <3>1. h[i] = k[i] \/ h[i] = [k[i] EXCEPT !.links = links]
      BY <2>5
    <3> QED BY <2>4, <2>5, <3>1 DEF NodeFields
  <2>7. DOMAIN h = DOMAIN k
    BY <2>5
  <2>8. Grows(k, h)
    BY <2>6, <2>7 DEF Grows, SameNodes
  <2>9. Grows(g, h)
    BY <2>4, <2>8, GrowsTrans
  <2>10. AddsNoFile(k, h)
    BY <2>6, <2>7, KeepingAddsNoFile
  <2>11. AddsNoFile(g, h)
    BY <2>4, <2>10, AddsNoFileTrans
  <2> QED BY <2>1, <2>4, <2>9, <2>11 DEF Ok, r
<1> QED BY <1>2, <1>3

LEMMA AllCoreLorasGrow ==
    ASSUME NEW g, IsGraph(g), NEW S, NEW loras \in Seq(S),
           inject_wan_core_loras(g, loras).err = "none"
    PROVE  LET h == inject_wan_core_loras(g, loras).graph IN Grows(g, h) /\ AddsNoFile(g, h)
<1> DEFINE high == HighLoras(loras)
           low == LowLoras(loras)
           single == inject_wan_core_loras_between(g, loras, "WAN_MODEL", "WAN_SHIFT")
           first == inject_wan_core_loras_between(g, high, "WAN_MODEL", "WAN_SHIFT")
           second == inject_wan_core_loras_between(first.graph, low, "WAN_MODEL_LOW",
                                                   "WAN_SHIFT_LOW")
           r == inject_wan_core_loras(g, loras)
<1>1. r = IF ~IsDual(g) THEN single ELSE IF first.err = "none" THEN second ELSE first
  BY DEF inject_wan_core_loras, Then
<1>2. high \in Seq(S) /\ low \in Seq(S)
  BY PathLorasAreSeqs
<1> HIDE DEF high, low
<1>3. single.err = "none" => Grows(g, single.graph) /\ AddsNoFile(g, single.graph)
  BY CoreLorasGrow
<1>4. first.err = "none" =>
         Grows(g, first.graph) /\ AddsNoFile(g, first.graph) /\ IsGraph(first.graph)
  <2>1. Sound(g, WanSources, first)
    BY <1>2, CoreLorasAreSpliced DEF WanSources
  <2> QED BY <1>2, <2>1, CoreLorasGrow DEF Sound
<1> HIDE DEF single, first
<1>5. first.err = "none" /\ second.err = "none" =>
         Grows(first.graph, second.graph) /\ AddsNoFile(first.graph, second.graph)
  BY <1>2, <1>4, CoreLorasGrow
<1> HIDE DEF second, r
<1>6. r.err = "none" => Grows(g, r.graph) /\ AddsNoFile(g, r.graph)
  BY <1>1, <1>3, <1>4, <1>5, GrowsTrans, AddsNoFileTrans
<1> QED BY <1>6 DEF r

LEMMA LoraMultiGrows ==
    ASSUME NEW g, IsGraph(g), NEW loras, NEW adv,
           inject_wan_lora_multi(g, loras, adv).err = "none"
    PROVE  LET h == inject_wan_lora_multi(g, loras, adv).graph IN
           Grows(g, h) /\ AddsNoFile(g, h)
<1> DEFINE multi == find_anchor(g, "WAN_LORA_MULTI")
           new == Over([slots |-> FirstN(loras, WAN_MAX_LORAS)],
                       IF "lora" \in adv THEN [options |-> "requested"] ELSE <<>>)
           g1 == Patch(g, multi, new)
           links(i) == [k \in DOMAIN g1[i].links \ {"lora"} |-> g1[i].links[k]]
           g2 == disconnect_loader_lora(g1, multi)
           r == inject_wan_lora_multi(g, loras, adv)
<1>1. r = IF ~HasAnchor(g, "WAN_LORA_MULTI")
          THEN IF loras # <<>> THEN Raise("workflow") ELSE Ok(g)
          ELSE IF Bare(g, "WAN_LORA_MULTI") THEN Raise("workflow")
          ELSE Ok(IF loras = <<>> THEN g2 ELSE g1)
  BY DEF inject_wan_lora_multi
<1>2. g2 = [i \in DOMAIN g1 |->
              IF g1[i].class = "WanVideoModelLoader" /\ "lora" \in DOMAIN g1[i].links
                 /\ g1[i].links["lora"][1] = multi
              THEN [g1[i] EXCEPT !.links = links(i)] ELSE g1[i]]
  BY DEF disconnect_loader_lora
<1>0. DOMAIN new \cap FileFields = {}
  BY DEF Over, FileFields
<1> HIDE DEF new, multi
<1>3. SameWiring(g, g1) /\ IsGraph(g1) /\ AddsNoFile(g, g1)
  BY <1>0, PatchWiring, PatchAddsNoFile, WiringIsGraph
<1> HIDE DEF g1, links, g2
<1>4. DOMAIN g2 = DOMAIN g1
      /\ \A i \in DOMAIN g1 : g2[i] = [g1[i] EXCEPT !.links = links(i)] \/ g2[i] = g1[i]
  BY <1>2
<1>5. ASSUME NEW i \in DOMAIN g1
      PROVE  /\ DOMAIN g2[i] = NodeFields /\ g2[i].vals = g1[i].vals
             /\ g2[i].class = g1[i].class /\ g2[i].anchors = g1[i].anchors
             /\ g2[i].inputs = g1[i].inputs
  <2>1. DOMAIN g1[i] = NodeFields
    BY <1>3 DEF IsGraph, NodeFields
  <2> QED BY <1>4, <2>1 DEF NodeFields
<1>6. Grows(g1, g2)
  BY <1>4, <1>5 DEF Grows, SameNodes
<1>7. /\ Grows(g, g1) /\ Grows(g, g2)
      /\ AddsNoFile(g, g2) /\ Grows(g, g) /\ AddsNoFile(g, g)
  BY <1>3, <1>4, <1>5, <1>6, WiringGrows, GrowsTrans, GrowsRefl, KeepingAddsNoFile, AddsNoFileTrans
<1> HIDE DEF r
<1>8. r.err = "none" => Grows(g, r.graph) /\ AddsNoFile(g, r.graph)
  BY <1>1, <1>3, <1>7 DEF Ok, Raise
<1> QED BY <1>8 DEF r

\* The weights, the LoRAs and the advanced options of a WAN graph.
LEMMA WanWeightsGrow ==
    ASSUME NEW g, IsGraph(g), NEW v, NEW S, v.loras \in Seq(S), NEW task,
           WanWeights(g, v, task).err = "none"
    PROVE  LET h == WanWeights(g, v, task).graph IN Grows(g, h) /\ IsGraph(h)
<1> DEFINE m == v.model
           files == inject_video_weights(g, m)
           audio == inject_mmaudio_weights(files.graph, m)
           weights == Then(files, LAMBDA h : inject_mmaudio_weights(h, m))
           chained == IF IsCore(g) THEN inject_wan_core_loras(weights.graph, v.loras)
                      ELSE inject_wan_lora_multi(weights.graph, v.loras, v.wan_advanced)
           loras == Then(weights, LAMBDA h :
                        IF IsCore(g) THEN inject_wan_core_loras(h, v.loras)
                        ELSE inject_wan_lora_multi(h, v.loras, v.wan_advanced))
           patched == apply_wan_advanced_patches(loras.graph, v.wan_advanced, task)
           r == WanWeights(g, v, task)
<1>1. /\ weights = IF files.err = "none" THEN audio ELSE files
      /\ loras = IF weights.err = "none" THEN chained ELSE weights
      /\ r = IF loras.err = "none" THEN patched ELSE loras
  BY DEF WanWeights, Then
<1>2. Rewired(g, files)
  BY VideoWeightsInjected
<1> HIDE DEF files
<1>3. files.err = "none" => Rewired(files.graph, audio)
  BY <1>2, MmaudioWeightsInjected DEF Rewired
<1> HIDE DEF audio, weights
<1>4. Rewired(g, weights)
  BY <1>1, <1>2, <1>3, RewiredAfter
<1>5. weights.err = "none" => Grows(g, weights.graph) /\ IsGraph(weights.graph)
  BY <1>4, WiringGrows DEF Rewired
<1>6. weights.err = "none" /\ chained.err = "none"
         => Grows(weights.graph, chained.graph) /\ IsGraph(chained.graph)
  <2>1. CASE IsCore(g)
    <3>1. weights.err = "none" => Sound(weights.graph, WanSources, chained)
      BY <1>5, <2>1, AllCoreLorasAreSpliced
    <3> QED BY <1>5, <2>1, <3>1, AllCoreLorasGrow DEF Sound
  <2>2. CASE ~IsCore(g)
    <3>1. weights.err = "none" => Sound(weights.graph, {}, chained)
      BY <1>5, <2>2, LoraMultiIsSound
    <3> QED BY <1>5, <2>2, <3>1, LoraMultiGrows DEF Sound
  <2> QED BY <2>1, <2>2
<1> HIDE DEF chained, loras
<1>7. loras.err = "none" => Grows(g, loras.graph) /\ IsGraph(loras.graph)
  BY <1>1, <1>5, <1>6, GrowsTrans
<1>8. loras.err = "none" => Rewired(loras.graph, patched)
  BY <1>7, AdvancedWiring
<1> HIDE DEF patched, r
<1>9. r.err = "none" => Grows(g, r.graph) /\ IsGraph(r.graph)
  BY <1>1, <1>7, <1>8, WiringGrows, GrowsTrans DEF Rewired
<1> QED BY <1>9 DEF r

-----------------------------------------------------------------------------
(* What the pipelines fill in.                                             *)

\* The fields that say how much work an image is.
SizeFields == {"steps", "pixels", "batch_size"}

LEMMA ModelSourceHolds ==
    ASSUME NEW g, IsGraph(g), NEW m, inject_model_source(g, m).err = "none",
           NEW j, NEW k \in SizeFields, NEW x, Holds(g, j, k, x)
    PROVE  Holds(inject_model_source(g, m).graph, j, k, x)
<1> DEFINE clip == ClipVals(ClassAt(g, "CLIP_SOURCE"), m)
           class == ClassAt(g, "MODEL_SOURCE")
           model == [f \in {ModelField[class]} |-> m.assets.checkpoint]
           vae == [vae_name |-> m.assets.vae]
           s1 == PatchAt(g, "MODEL_SOURCE", model)
           s2 == PatchAt(s1, "CLIP_SOURCE", clip)
           vaes == {i \in OfClass(s2, "VAELoader") : "vae_name" \in DOMAIN s2[i].vals}
           s3 == IF m.assets.vae = None THEN s2 ELSE PatchAll(s2, vaes, vae)
           r == inject_model_source(g, m)
<1>1. r = IF ~CanFillAll(g, {"MODEL_SOURCE", "CLIP_SOURCE"}) THEN Raise("workflow")
          ELSE IF class \notin DOMAIN ModelField \/ None \in Range(clip)
          THEN Raise("workflow") ELSE Ok(s3)
  BY DEF inject_model_source
<1>2. class \in DOMAIN ModelField /\ r = Ok(s3)
  <2> HIDE DEF s3, clip, class, r
  <2> QED BY <1>1 DEF Raise, r
<1>3. k \notin DOMAIN model
  BY <1>2 DEF ModelField, SizeFields
<1>4. k \notin DOMAIN clip
  BY DEF ClipVals, Over, SizeFields
<1>5. k \notin DOMAIN vae
  BY DEF SizeFields
<1> HIDE DEF clip, model, vae, class
<1>6. Holds(s1, j, k, x) /\ IsGraph(s1)
  BY <1>3, PatchHolds, PatchAtWiring DEF PatchAt
<1> HIDE DEF s1
<1>7. Holds(s2, j, k, x) /\ IsGraph(s2)
  BY <1>4, <1>6, PatchHolds, PatchAtWiring DEF PatchAt
<1> HIDE DEF s2, vaes
<1>8. Holds(s3, j, k, x)
  BY <1>5, <1>7, PatchAllHolds
<1> QED BY <1>2, <1>8 DEF Ok

ImageFilled(h, v) ==
    /\ At(h, "KSAMPLER", "steps", v.steps)
    /\ \A i \in DOMAIN h : h[i].class = "EmptyLatentImage" =>
          Holds(h, i, "pixels", v.pixels) /\ Holds(h, i, "batch_size", v.n)

\* The images pipeline: the sampler and the latent keep what they were given.
LEMMA ImageIsFilled ==
    ASSUME NEW g, IsGraph(g), OneLatent(g), NEW v, NEW S, v.loras \in Seq(S), NEW seed,
           BuildImage(g, v, seed).err = "none"
    PROVE  ImageFilled(BuildImage(g, v, seed).graph, v)
<1> DEFINE m == v.model
           latents == {i \in DOMAIN g : g[i].class = "EmptyLatentImage"}
           p == PatchAt(g, "POSITIVE_PROMPT", [text |-> "prompt"])
           g1 == PatchAt(p, "NEGATIVE_PROMPT", [text |-> "negative"])
           sampling == [seed |-> seed, steps |-> v.steps, sampler_name |-> v.sampler,
                        scheduler |-> v.scheduler]
           g2 == PatchAt(g1, "KSAMPLER", sampling)
           size == [pixels |-> v.pixels, batch_size |-> v.n]
           g3 == IF latents = {} THEN g2 ELSE Patch(g2, Min(latents), size)
           sourced == inject_model_source(g3, m)
           checked == Then(sourced, LAMBDA h : inject_vpred(h, m))
           chained == inject_loras(checked.graph, v.loras)
           blocked == \/ ~CanFillAll(g, {"POSITIVE_PROMPT", "NEGATIVE_PROMPT", "KSAMPLER"})
                      \/ latents # {} /\ g[Min(latents)].inputs # "object"
           r == BuildImage(g, v, seed)
<1>1. r = IF blocked THEN Raise("key") ELSE IF checked.err = "none" THEN chained ELSE checked
  BY DEF BuildImage, Then
<1>2. checked = IF sourced.err = "none" THEN inject_vpred(sourced.graph, m) ELSE sourced
  BY DEF Then
<1> HIDE DEF g3, sourced, checked, chained, blocked, r
<1>3. /\ ~blocked /\ r = chained /\ checked.err = "none" /\ chained.err = "none"
      /\ sourced.err = "none" /\ checked.graph = sourced.graph
  BY <1>1, <1>2 DEF inject_vpred, Ok, Raise, r
<1>4. /\ SameWiring(g, g2) /\ IsGraph(g2)
      /\ At(g2, "KSAMPLER", "steps", v.steps)
  <2>1. "steps" \in DOMAIN sampling /\ sampling["steps"] = v.steps
    OBVIOUS
  <2> HIDE DEF sampling
  <2>2. SameWiring(g, p) /\ IsGraph(p)
    BY PatchAtWiring
  <2> HIDE DEF p
  <2>3. SameWiring(p, g1) /\ IsGraph(g1)
    BY <2>2, PatchAtWiring
  <2> HIDE DEF g1
  <2>4. SameWiring(g, g1)
    BY <2>2, <2>3, WiringTrans
  <2>5. SameWiring(g1, g2) /\ IsGraph(g2)
    BY <2>3, PatchAtWiring
  <2>6. HasAnchor(g1, "KSAMPLER")
    BY <1>3, <2>4, WiringAnchors DEF blocked, CanFillAll, CanFill
  <2>7. At(g2, "KSAMPLER", "steps", sampling["steps"])
    BY <2>1, <2>3, <2>6, PatchAtHolds
  <2> HIDE DEF g2
  <2> QED BY <2>1, <2>4, <2>5, <2>7, WiringTrans
<1> HIDE DEF g2, g1, p, sampling
<1>5. /\ SameWiring(g2, g3) /\ IsGraph(g3)
      /\ At(g3, "KSAMPLER", "steps", v.steps)
      /\ \A i \in latents : Holds(g3, i, "pixels", v.pixels) /\ Holds(g3, i, "batch_size", v.n)
  <2>1. CASE latents = {}
    BY <1>4, <2>1, WiringRefl DEF g3
  <2>2. CASE latents # {}
    <3> DEFINE l == Min(latents)
    <3>1. g3 = Patch(g2, l, size)
      BY <2>2 DEF g3
    <3>2. l \in latents
      <4>1. latents \in SUBSET Nat
        BY DEF IsGraph
      <4>2. \E i \in latents : \A k \in latents : i <= k
        BY <2>2, <4>1, LeastNat
      <4> QED BY <4>2 DEF Min
    <3>3. \A i \in latents : i = l
      BY <3>2 DEF OneLatent
    <3>4. l \in DOMAIN g2
      BY <1>4, <3>2 DEF SameWiring
    <3>5. /\ DOMAIN size = {"pixels", "batch_size"}
          /\ size["pixels"] = v.pixels /\ size["batch_size"] = v.n
      OBVIOUS
    <3> HIDE DEF size, l, latents
    <3>6. SameWiring(g2, g3) /\ IsGraph(g3)
      BY <1>4, <3>1, PatchWiring, WiringIsGraph
    <3>7. Holds(g3, l, "pixels", v.pixels) /\ Holds(g3, l, "batch_size", v.n)
      BY <1>4, <3>1, <3>4, <3>5, PatchHolds
    <3>8. At(g3, "KSAMPLER", "steps", v.steps)
      <4>1. Holds(g2, find_anchor(g2, "KSAMPLER"), "steps", v.steps)
        BY <1>4 DEF At
      <4>2. Holds(g3, find_anchor(g2, "KSAMPLER"), "steps", v.steps)
        BY <1>4, <3>1, <3>5, <4>1, PatchHolds
      <4> QED BY <1>4, <3>6, <4>2, WiringAnchors DEF At
    <3> QED BY <3>3, <3>6, <3>7, <3>8
  <2> QED BY <2>1, <2>2
<1>6. SameWiring(g, g3)
  BY <1>4, <1>5, WiringTrans
<1> DEFINE h == sourced.graph
           k == chained.graph
<1>7. SameWiring(g3, h) /\ IsGraph(h)
  BY <1>3, <1>5, ModelSourceInjected DEF Rewired, sourced
<1>8. \A j, f, x : f \in SizeFields /\ Holds(g3, j, f, x) => Holds(h, j, f, x)
  BY <1>3, <1>5, ModelSourceHolds DEF sourced
<1> HIDE DEF h
<1>9. Grows(h, k) /\ KeepsVals(h, k)
  BY <1>3, <1>7, LorasGrow DEF chained, h
<1> HIDE DEF k
<1>10. \A j, f, x : f \in SizeFields /\ Holds(g3, j, f, x) => Holds(k, j, f, x)
  BY <1>8, <1>9 DEF Holds, Grows, SameNodes, KeepsVals
<1>11. At(k, "KSAMPLER", "steps", v.steps)
  <2>1. /\ HasAnchor(k, "KSAMPLER") = HasAnchor(g3, "KSAMPLER")
        /\ find_anchor(k, "KSAMPLER") = find_anchor(g3, "KSAMPLER")
    BY <1>7, <1>9, WiringAnchors, GrowsAnchors
  <2> QED BY <1>5, <1>10, <2>1 DEF At, SizeFields
<1>12. ASSUME NEW i \in DOMAIN k, k[i].class = "EmptyLatentImage"
       PROVE  Holds(k, i, "pixels", v.pixels) /\ Holds(k, i, "batch_size", v.n)
  <2>1. i \in DOMAIN h /\ h[i].class = "EmptyLatentImage"
    BY <1>9, <1>12 DEF Grows, SameNodes
  <2>2. i \in latents
    BY <1>6, <1>7, <2>1 DEF SameWiring
  <2> QED BY <1>5, <1>10, <2>2 DEF SizeFields
<1> QED BY <1>3, <1>11, <1>12 DEF ImageFilled, k, r

LtxvFilled(h, v, seed) ==
    At(h, "LTXV_FRAMES", "value", v.frames) /\ At(h, "LTXV_SEED", "seed", seed % SeedLimit)

\* _run_ltxv_pipeline: the seed and the frames are filled in last but for the frame rate.
LEMMA LtxvIsFilled ==
    ASSUME NEW g, IsGraph(g), NEW v, NEW seed, BuildLtxv(g, v, seed).err = "none"
    PROVE  LtxvFilled(BuildLtxv(g, v, seed).graph, v, seed)
<1> DEFINE m == v.model
           Prompts(h) == IF ~CanFillAll(h, {"LTXV_POSITIVE", "LTXV_NEGATIVE"}) THEN Raise("key")
                         ELSE Ok(PatchAt(PatchAt(h, "LTXV_POSITIVE", [text |-> "prompt"]),
                                         "LTXV_NEGATIVE", [text |-> "negative"]))
           files == inject_ltxv_weights(g, m)
           weights == Then(files, inject_ltxv_video_vae)
           prompts == Then(weights, Prompts)
           h == prompts.graph
           seeds == [seed |-> seed % SeedLimit]
           count == [value |-> v.frames]
           rate == [frame_rate |-> "fps"]
           seeded == Then(prompts, LAMBDA x : inject_ltxv_seed(x, seed))
           framed == Then(seeded, LAMBDA x : inject_ltxv_frames(x, v.frames))
           h1 == PatchAt(h, "LTXV_SEED", seeds)
           h2 == PatchAt(h1, "LTXV_FRAMES", count)
           h3 == PatchIfAny(h2, "LTXV_OUTPUT", rate)
           r == BuildLtxv(g, v, seed)
<1>1. /\ seeded = IF prompts.err = "none" THEN PatchOrRaise(h, "LTXV_SEED", seeds) ELSE prompts
      /\ framed = IF seeded.err = "none" THEN PatchOrRaise(seeded.graph, "LTXV_FRAMES", count)
                  ELSE seeded
      /\ r = IF framed.err = "none"
             THEN (IF Unfit(framed.graph, "LTXV_OUTPUT") THEN Raise("key")
                   ELSE Ok(PatchIfAny(framed.graph, "LTXV_OUTPUT", rate)))
             ELSE framed
  BY DEF BuildLtxv, Then, inject_ltxv_seed, inject_ltxv_frames
<1>2. prompts.err = "none" => IsGraph(h)
  <2>1. Rewired(g, files)
    BY LtxvWeightsWiring
  <2> HIDE DEF files
  <2>2. Rewired(g, weights)
    <3> DEFINE vae == [vae_name |-> LTXV_VIDEO_VAE]
    <3>1. weights = IF files.err = "none" THEN PatchOrRaise(files.graph, "LTXV_VIDEO_VAE", vae)
                    ELSE files
      BY DEF Then, inject_ltxv_video_vae
    <3> HIDE DEF weights, vae
    <3> QED BY <2>1, <3>1, PatchesOrRaises
  <2> HIDE DEF weights
  <2> DEFINE w == weights.graph
             positive == [text |-> "prompt"]
             negative == [text |-> "negative"]
             p == PatchAt(w, "LTXV_POSITIVE", positive)
             n == PatchAt(p, "LTXV_NEGATIVE", negative)
  <2>3. prompts = IF weights.err # "none" THEN weights
                  ELSE IF ~CanFillAll(w, {"LTXV_POSITIVE", "LTXV_NEGATIVE"}) THEN Raise("key")
                  ELSE Ok(n)
    BY DEF Then
  <2> HIDE DEF prompts, Prompts, positive, negative
  <2>4. weights.err = "none" => IsGraph(n)
    <3>1. weights.err = "none" => IsGraph(w)
      BY <2>2 DEF Rewired
    <3> HIDE DEF w
    <3> QED BY <3>1, PatchAtWiring
  <2> HIDE DEF n, w, p
  <2> QED BY <2>3, <2>4 DEF Ok, Raise, h
<1> HIDE DEF prompts, Prompts, seeded, framed, r, h, rate
<1>3. /\ prompts.err = "none" /\ HasAnchor(h, "LTXV_SEED") /\ seeded = Ok(h1)
      /\ HasAnchor(h1, "LTXV_FRAMES") /\ framed = Ok(h2) /\ r = Ok(h3)
  <2> HIDE DEF seeds, count, h1, h2, h3
  <2>1. framed.err = "none" /\ seeded.err = "none" /\ prompts.err = "none"
    BY <1>1 DEF r, Raise
  <2>2. HasAnchor(h, "LTXV_SEED") /\ seeded = Ok(h1)
    BY <1>1, <2>1 DEF PatchOrRaise, CanFill, Raise, h1
  <2>3. HasAnchor(h1, "LTXV_FRAMES") /\ framed = Ok(h2)
    BY <1>1, <2>1, <2>2 DEF PatchOrRaise, CanFill, Raise, Ok, h2
  <2> QED BY <1>1, <2>1, <2>2, <2>3 DEF Ok, Raise, r, h3
<1>4. /\ DOMAIN seeds = {"seed"} /\ seeds["seed"] = seed % SeedLimit
      /\ DOMAIN count = {"value"} /\ count["value"] = v.frames
      /\ DOMAIN rate = {"frame_rate"}
  BY DEF rate
<1> HIDE DEF seeds, count
<1>5. IsGraph(h1) /\ At(h1, "LTXV_SEED", "seed", seed % SeedLimit)
  BY <1>2, <1>3, <1>4, PatchAtWiring, PatchAtHolds
<1> HIDE DEF h1
<1>6. /\ IsGraph(h2)
      /\ At(h2, "LTXV_SEED", "seed", seed % SeedLimit) /\ At(h2, "LTXV_FRAMES", "value", v.frames)
  BY <1>3, <1>4, <1>5, PatchAtWiring, PatchAtHolds
<1> HIDE DEF h2
<1>7. At(h3, "LTXV_SEED", "seed", seed % SeedLimit) /\ At(h3, "LTXV_FRAMES", "value", v.frames)
  BY <1>4, <1>6, PatchIfAnyHolds
<1> HIDE DEF h3
<1> QED BY <1>3, <1>7 DEF LtxvFilled, Ok, r

\* The samplers of a WAN graph: one that runs all steps, or two that meet halfway.
SamplersFilled(h, v, seed) ==
    /\ At(h, "WAN_SAMPLER", "steps", v.steps)
    /\ ClassAt(h, "WAN_SAMPLER") = "KSamplerAdvanced" =>
          /\ At(h, "WAN_SAMPLER", "end_at_step", half_steps(v.steps))
          /\ At(h, "WAN_SAMPLER", "noise_seed", seed)
          /\ At(h, "WAN_NAG_SAMPLER", "start_at_step", half_steps(v.steps))
          /\ At(h, "WAN_NAG_SAMPLER", "noise_seed", seed)

SamplerFields == {"noise_seed", "seed", "steps", "scheduler", "end_at_step", "start_at_step", "shift"}

LEMMA WanSamplerHolds ==
    ASSUME NEW g, IsGraph(g), HasAnchor(g, "WAN_SAMPLER"), TwoPasses(g), NEW v, NEW seed
    PROVE  LET h == WanSampler(g, v, seed) IN
           /\ SamplersFilled(h, v, seed)
           /\ \A a, k, x : At(g, a, k, x) /\ k \notin SamplerFields => At(h, a, k, x)
<1> DEFINE plan == [noise_seed |-> seed, steps |-> v.steps, scheduler |-> CoreScheduler(v.scheduler)]
           half == half_steps(v.steps)
           ending == [end_at_step |-> half]
           starting == [start_at_step |-> half]
           until == Over(ending, plan)
           since == Over(starting, plan)
           shift == [shift |-> "shift"]
           single == [seed |-> seed, steps |-> v.steps, scheduler |-> v.scheduler]
           first == PatchAt(g, "WAN_SAMPLER", until)
           shifted == PatchIfAny(first, "WAN_SHIFT", shift)
           second == PatchIfAny(shifted, "WAN_NAG_SAMPLER", since)
           one == PatchAt(g, "WAN_SAMPLER", single)
           two == ClassAt(g, "WAN_SAMPLER") = "KSamplerAdvanced"
           r == WanSampler(g, v, seed)
<1>1. r = IF two THEN second ELSE one
  BY DEF WanSampler
<1>2. /\ DOMAIN plan = {"noise_seed", "steps", "scheduler"}
      /\ plan["noise_seed"] = seed /\ plan["steps"] = v.steps
      /\ DOMAIN ending = {"end_at_step"} /\ ending["end_at_step"] = half
      /\ DOMAIN starting = {"start_at_step"} /\ starting["start_at_step"] = half
      /\ DOMAIN shift = {"shift"}
      /\ DOMAIN single = {"seed", "steps", "scheduler"} /\ single["steps"] = v.steps
  OBVIOUS
<1> HIDE DEF plan, half, ending, starting, shift, single
<1>3. /\ DOMAIN until = {"end_at_step", "noise_seed", "steps", "scheduler"}
      /\ until["end_at_step"] = half /\ until["noise_seed"] = seed /\ until["steps"] = v.steps
  BY <1>2 DEF Over
<1>4. /\ DOMAIN since = {"start_at_step", "noise_seed", "steps", "scheduler"}
      /\ since["start_at_step"] = half /\ since["noise_seed"] = seed /\ since["steps"] = v.steps
  BY <1>2 DEF Over
<1> HIDE DEF until, since
<1>5. SameWiring(g, r)
  BY WanSamplerWiring
<1>6. /\ IsGraph(first) /\ IsGraph(shifted)
      /\ CanFill(g, "WAN_NAG_SAMPLER") => CanFill(shifted, "WAN_NAG_SAMPLER")
  <2>1. SameWiring(g, first) /\ IsGraph(first)
    BY PatchAtWiring
  <2> HIDE DEF first
  <2>2. SameWiring(first, shifted) /\ IsGraph(shifted)
    BY <2>1, PatchIfAnyWiring
  <2> QED BY <2>1, <2>2, WiringCanFill
<1>7. ClassAt(r, "WAN_SAMPLER") = ClassAt(g, "WAN_SAMPLER")
  BY <1>5, WiringClassAt
<1>8. CASE two
  <2>1. CanFill(g, "WAN_NAG_SAMPLER")
    BY <1>8, AnchorFound DEF TwoPasses, ClassAt
  <2> HIDE DEF two, r
  <2>2. /\ At(first, "WAN_SAMPLER", "steps", v.steps)
        /\ At(first, "WAN_SAMPLER", "end_at_step", half)
        /\ At(first, "WAN_SAMPLER", "noise_seed", seed)
        /\ \A a, k, x : At(g, a, k, x) /\ k \notin SamplerFields => At(first, a, k, x)
    BY <1>3, PatchAtHolds DEF SamplerFields
  <2> HIDE DEF first
  <2>3. /\ At(shifted, "WAN_SAMPLER", "steps", v.steps)
        /\ At(shifted, "WAN_SAMPLER", "end_at_step", half)
        /\ At(shifted, "WAN_SAMPLER", "noise_seed", seed)
        /\ \A a, k, x : At(g, a, k, x) /\ k \notin SamplerFields => At(shifted, a, k, x)
    <3>1. \A a, k, x : At(first, a, k, x) /\ k # "shift" => At(shifted, a, k, x)
      BY <1>2, <1>6, PatchIfAnyHolds
    <3> HIDE DEF shifted
    <3> QED BY <2>2, <3>1 DEF SamplerFields
  <2> HIDE DEF shifted
  <2>4. /\ At(second, "WAN_NAG_SAMPLER", "start_at_step", half)
        /\ At(second, "WAN_NAG_SAMPLER", "noise_seed", seed)
        /\ \A a, k, x : At(shifted, a, k, x) /\ (k \in DOMAIN since => since[k] = x)
                           => At(second, a, k, x)
    BY <1>4, <1>6, <2>1, PatchIfAnyHolds
  <2> HIDE DEF second
  <2>5. /\ At(second, "WAN_SAMPLER", "steps", v.steps)
        /\ At(second, "WAN_SAMPLER", "end_at_step", half)
        /\ At(second, "WAN_SAMPLER", "noise_seed", seed)
    BY <1>4, <2>3, <2>4
  <2>6. \A a, k, x : At(g, a, k, x) /\ k \notin SamplerFields => At(second, a, k, x)
    BY <1>4, <2>3, <2>4 DEF SamplerFields
  <2>7. r = second
    BY <1>1, <1>8 
  <2> QED BY <2>4, <2>5, <2>6, <2>7 DEF SamplersFilled, half, r
<1>9. CASE ~two
  <2>1. At(one, "WAN_SAMPLER", "steps", v.steps)
        /\ \A a, k, x : At(g, a, k, x) /\ k \notin SamplerFields => At(one, a, k, x)
    BY <1>2, PatchAtHolds DEF SamplerFields
  <2> QED BY <1>1, <1>7, <1>9, <2>1 DEF SamplersFilled
<1> QED BY <1>8, <1>9

WanFilled(h, v, seed) ==
    /\ SamplersFilled(h, v, seed)
    /\ At(h, "WAN_DIMS", "pixels", v.pixels)
    /\ At(h, "WAN_DIMS", LengthField(ClassAt(h, "WAN_DIMS")), v.frames)

\* A value that other patches leave alone, and the samplers, stay as they are.
LEMMA SamplersKept ==
    ASSUME NEW g, IsGraph(g), NEW h, SameWiring(g, h), NEW v, NEW seed,
           SamplersFilled(g, v, seed),
           \A a, k, x : At(g, a, k, x) /\ k \notin {"frame_rate", "frames", "seed"} => At(h, a, k, x)
    PROVE  SamplersFilled(h, v, seed)
<1>1. ClassAt(h, "WAN_SAMPLER") = ClassAt(g, "WAN_SAMPLER")
  BY WiringClassAt DEF SamplersFilled, At
<1> QED BY <1>1 DEF SamplersFilled

\* _run_video_pipeline: the frames and the samplers are filled in last but for the frame
\* rate and the audio.
LEMMA WanIsFilled ==
    ASSUME NEW g, IsGraph(g), TwoPasses(g), NEW v, NEW S, v.loras \in Seq(S), NEW task,
           NEW seed, BuildWan(g, v, task, seed).err = "none"
    PROVE  WanFilled(BuildWan(g, v, task, seed).graph, v, seed)
<1> DEFINE prompts == IF IsCore(g) THEN {"WAN_POSITIVE", "WAN_NEGATIVE"} ELSE {"WAN_PROMPTS"}
           rate == [frame_rate |-> "fps"]
           audio == [frames |-> v.frames, seed |-> seed]
           weights == WanWeights(g, v, task)
           h == weights.graph
           h1 == WanPrompts(h)
           h2 == WanDims(h1, v)
           h3 == WanSampler(h2, v, seed)
           h4 == PatchIfAny(h3, "VIDEO_OUTPUT", rate)
           h5 == PatchIfAny(h4, "MMAUDIO_SAMPLER", audio)
           blocked == \/ ~CanFillAll(h, prompts \cup {"WAN_DIMS", "WAN_SAMPLER"})
                      \/ \E a \in WanOptional(h) : Unfit(h, a)
           r == BuildWan(g, v, task, seed)
<1>1. r = IF weights.err = "none" THEN (IF blocked THEN Raise("key") ELSE Ok(h5)) ELSE weights
  BY DEF BuildWan, Then
<1>2. /\ weights.err = "none" /\ ~blocked /\ r = Ok(h5)
  <2> HIDE DEF weights, blocked, h5, r
  <2> QED BY <1>1 DEF Raise, r
<1>3. HasAnchor(h, "WAN_DIMS") /\ HasAnchor(h, "WAN_SAMPLER")
  BY <1>2 DEF CanFillAll, CanFill
<1>4. Grows(g, h) /\ IsGraph(h)
  BY <1>2, WanWeightsGrow
<1>5. /\ DOMAIN rate = {"frame_rate"}
      /\ DOMAIN audio = {"frames", "seed"} /\ audio["frames"] = v.frames
  OBVIOUS
<1> HIDE DEF weights, h, blocked, rate, audio, r
<1>6. TwoPasses(h)
  BY <1>4, GrowsTwoPasses
<1>7. SameWiring(h, h1) /\ IsGraph(h1)
  BY <1>4, WanPromptsWiring
<1> HIDE DEF h1
<1>8. /\ SameWiring(h1, h2) /\ IsGraph(h2)
      /\ At(h2, "WAN_DIMS", LengthField(ClassAt(h2, "WAN_DIMS")), v.frames)
      /\ At(h2, "WAN_DIMS", "pixels", v.pixels)
  <2> DEFINE field == LengthField(ClassAt(h1, "WAN_DIMS"))
             size == [pixels |-> v.pixels]
             length == [f \in {field} |-> v.frames]
             dims == Over(size, length)
  <2>1. h2 = PatchAt(h1, "WAN_DIMS", dims)
    BY DEF WanDims
  <2>2. /\ field \in DOMAIN dims /\ dims[field] = v.frames
        /\ "pixels" \in DOMAIN dims /\ dims["pixels"] = v.pixels
    BY DEF Over, LengthField
  <2> HIDE DEF dims, h2
  <2>3. SameWiring(h1, h2) /\ IsGraph(h2)
    BY <1>7, <2>1, PatchAtWiring
  <2>4. HasAnchor(h1, "WAN_DIMS")
    BY <1>3, <1>7, WiringAnchors
  <2>5. At(h2, "WAN_DIMS", field, v.frames) /\ At(h2, "WAN_DIMS", "pixels", v.pixels)
    BY <1>7, <2>1, <2>2, <2>4, PatchAtHolds
  <2>6. ClassAt(h2, "WAN_DIMS") = ClassAt(h1, "WAN_DIMS")
    BY <1>7, <2>3, <2>4, WiringClassAt
  <2> QED BY <2>3, <2>5, <2>6
<1> HIDE DEF h2
<1>9. SameWiring(h, h2)
  BY <1>7, <1>8, WiringTrans
<1>10. TwoPasses(h2) /\ HasAnchor(h2, "WAN_SAMPLER")
  BY <1>3, <1>4, <1>6, <1>9, WiringGrows, GrowsTwoPasses, WiringAnchors
<1>11. /\ SameWiring(h2, h3) /\ IsGraph(h3) /\ SamplersFilled(h3, v, seed)
       /\ \A a, k, x : At(h2, a, k, x) /\ k \notin SamplerFields => At(h3, a, k, x)
  BY <1>8, <1>10, WanSamplerHolds, WanSamplerWiring
<1> HIDE DEF h3
<1>12. /\ SameWiring(h3, h4) /\ IsGraph(h4)
       /\ \A a, k, x : At(h3, a, k, x) /\ k # "frame_rate" => At(h4, a, k, x)
  BY <1>5, <1>11, PatchIfAnyWiring, PatchIfAnyHolds
<1> HIDE DEF h4
<1>13. /\ SameWiring(h4, h5) /\ IsGraph(h5)
       /\ \A a, k, x : At(h4, a, k, x) /\ (k \in {"frames", "seed"} => audio[k] = x) => At(h5, a, k, x)
  BY <1>5, <1>12, PatchIfAnyWiring, PatchIfAnyHolds
<1> HIDE DEF h5
<1>14. SamplersFilled(h5, v, seed)
  <2>1. SameWiring(h3, h5)
    BY <1>12, <1>13, WiringTrans
  <2>2. \A a, k, x : At(h3, a, k, x) /\ k \notin {"frame_rate", "frames", "seed"} => At(h5, a, k, x)
    BY <1>12, <1>13
  <2> QED BY <1>11, <2>1, <2>2, SamplersKept
<1>15. At(h5, "WAN_DIMS", LengthField(ClassAt(h5, "WAN_DIMS")), v.frames)
  <2> DEFINE field == LengthField(ClassAt(h2, "WAN_DIMS"))
  <2>1. field \in {"length", "num_frames"}
    BY DEF LengthField
  <2>2. SameWiring(h2, h5)
    BY <1>11, <1>12, <1>13, WiringTrans
  <2>3. ClassAt(h5, "WAN_DIMS") = ClassAt(h2, "WAN_DIMS")
    BY <1>8, <2>2, WiringClassAt DEF At
  <2> HIDE DEF field
  <2>4. At(h2, "WAN_DIMS", field, v.frames)
    BY <1>8 DEF field
  <2>5. At(h5, "WAN_DIMS", field, v.frames)
    BY <1>11, <1>12, <1>13, <2>1, <2>4 DEF SamplerFields
  <2> QED BY <2>3, <2>5 DEF field
<1>16. At(h5, "WAN_DIMS", "pixels", v.pixels)
  BY <1>8, <1>11, <1>12, <1>13 DEF SamplerFields
<1> QED BY <1>2, <1>14, <1>15, <1>16 DEF WanFilled, Ok, r

-----------------------------------------------------------------------------
(* The limits of what is submitted.                                        *)

\* What a validated job takes over from its request.
FromRequest(r, v) ==
    /\ v.seed = r.seed
    /\ v.steps = Given(r.steps, Given(v.model.steps, IF r.kind = "image" THEN 28 ELSE 30))
    /\ v.pixels = r.pixels
    /\ r.kind = "image" => v.n = r.n

LEMMA JudgementCopies ==
    ASSUME NEW r, NEW models, NEW loras, Judgement(r, models, loras).code = "ok"
    PROVE  FromRequest(r, Judgement(r, models, loras).job)
<1>1. CASE r.kind = "image"
  <2> DEFINE j == resolve_and_validate(r, models, loras)
  <2>1. j = Judgement(r, models, loras)
    BY <1>1 DEF Judgement
  <2>2. j.code = "ok" => /\ j.job.model = models[r.model] /\ j.job.seed = r.seed
                         /\ j.job.steps = ImageSteps(r, models[r.model])
                         /\ j.job.pixels = r.pixels /\ j.job.n = r.n
    BY DEF resolve_and_validate, Rejected, Accepted
  <2> HIDE DEF j
  <2> QED BY <1>1, <2>1, <2>2 DEF FromRequest, ImageSteps
<1>2. CASE r.kind # "image"
  <2> DEFINE j == resolve_and_validate_video(r, models, r.task, loras)
  <2>1. j = Judgement(r, models, loras)
    BY <1>2 DEF Judgement
  <2>2. j.code = "ok" => /\ j.job.model = models[r.model] /\ j.job.seed = r.seed
                         /\ j.job.steps = VideoSteps(r, models[r.model])
                         /\ j.job.pixels = r.pixels
    BY DEF resolve_and_validate_video, Rejected, Accepted
  <2> HIDE DEF j
  <2> QED BY <1>2, <2>1, <2>2 DEF FromRequest, VideoSteps
<1> QED BY <1>1, <1>2

\* At least one step is left for each pass.
LEMMA HalfOfSteps ==
    ASSUME NEW steps \in Int, steps >= 1
    PROVE  half_steps(steps) \in 1..steps
<1> DEFINE d == steps \div 2
           S == {1, d}
<1>1. d \in Nat /\ d <= steps
  OBVIOUS
<1> HIDE DEF d
<1>2. S \in SUBSET Nat /\ S # {} /\ IsFiniteSet(S)
  <2>1. S = {1} \cup {d}
    OBVIOUS
  <2>2. IsFiniteSet({1}) /\ IsFiniteSet({1} \cup {d})
    BY FS_Singleton, FS_AddElement
  <2> QED BY <1>1, <2>1, <2>2
<1>3. Max(S) \in S /\ \A x \in S : Max(S) >= x
  BY <1>2, MaxFound
<1>4. Max(S) \in 1..steps
  BY <1>1, <1>3
<1> QED BY <1>4 DEF half_steps, d

\* What the pipeline of a job has filled in.
FilledIn(h, r, v, seed) ==
    IF r.kind = "image" THEN ImageFilled(h, v)
    ELSE IF r.kind = "video" /\ v.model.family = "ltxv" THEN LtxvFilled(h, v, seed)
    ELSE WanFilled(h, v, seed)

LEMMA GraphIsFilled ==
    ASSUME NEW loras, JobObeys(job.req, job.validated, loras),
           NEW g, IsGraph(g), OneLatent(g), TwoPasses(g),
           NEW seed, Graph(g, seed).err = "none"
    PROVE  FilledIn(Graph(g, seed).graph, job.req, job.validated, seed)
<1> DEFINE v == job.validated
           r == Graph(g, seed)
<1>1. v.loras \in Seq(STRING)
  BY DEF JobObeys, ImageObeys, VideoObeys, WithinBudget
<1>2. CASE job.req.kind = "image"
  <2>1. r = BuildImage(g, v, seed)
    BY <1>2 DEF Graph, IsLtxv
  <2> HIDE DEF r, v
  <2>2. ImageFilled(r.graph, v)
    BY <1>1, <2>1, ImageIsFilled DEF r
  <2> QED BY <1>2, <2>2 DEF FilledIn, r, v
<1>3. CASE job.req.kind # "image" /\ IsLtxv
  <2>1. r = BuildLtxv(g, v, seed)
    BY <1>3 DEF Graph
  <2> HIDE DEF r, v
  <2>2. LtxvFilled(r.graph, v, seed)
    BY <2>1, LtxvIsFilled DEF r
  <2> QED BY <1>3, <2>2 DEF FilledIn, IsLtxv, r, v
<1>4. CASE job.req.kind # "image" /\ ~IsLtxv
  <2>1. r = BuildWan(g, v, job.req.task, seed)
    BY <1>4 DEF Graph
  <2> HIDE DEF r, v
  <2>2. WanFilled(r.graph, v, seed)
    BY <1>1, <2>1, WanIsFilled DEF r
  <2> QED BY <1>4, <2>2 DEF FilledIn, IsLtxv, r, v
<1> QED BY <1>2, <1>3, <1>4

\* The name of the uploaded image is none of it.
LEMMA UploadStaysFilled ==
    ASSUME NEW g, IsGraph(g), NEW r, NEW v, NEW seed, FilledIn(g, r, v, seed)
    PROVE  FilledIn(PatchIfAny(Opened(g, "INIT_IMAGE"), "INIT_IMAGE", [image |-> "upload"]),
                    r, v, seed)
<1> DEFINE new == [image |-> "upload"]
           o == Opened(g, "INIT_IMAGE")
           h == PatchIfAny(o, "INIT_IMAGE", new)
<1>1. DOMAIN new = {"image"}
  OBVIOUS
<1> HIDE DEF new
<1>0. SameWiring(g, o) /\ IsGraph(o) /\ \A i \in DOMAIN g : o[i].vals = g[i].vals
  BY OpenedWiring
<1> HIDE DEF o
<1>2. SameWiring(g, h)
  BY <1>0, PatchIfAnyWiring, WiringTrans
<1>4. \A j, k, x : Holds(g, j, k, x) /\ k # "image" => Holds(h, j, k, x)
  <2>1. \A j, k, x : Holds(o, j, k, x) /\ k # "image" => Holds(h, j, k, x)
    BY <1>0, <1>1, PatchHolds DEF PatchIfAny, PatchAt
  <2> QED BY <1>0, <2>1 DEF Holds, SameWiring
<1> HIDE DEF h
<1>3. \A a, k, x : At(g, a, k, x) /\ k # "image" => At(h, a, k, x)
  BY <1>2, <1>4, WiringAnchors DEF At
<1>5. ImageFilled(g, v) => ImageFilled(h, v)
  BY <1>2, <1>3, <1>4 DEF ImageFilled, SameWiring
<1>6. LtxvFilled(g, v, seed) => LtxvFilled(h, v, seed)
  BY <1>3 DEF LtxvFilled
<1>7. WanFilled(g, v, seed) => WanFilled(h, v, seed)
  <2>1. SamplersFilled(g, v, seed) => SamplersFilled(h, v, seed)
    <3>1. HasAnchor(g, "WAN_SAMPLER") => ClassAt(h, "WAN_SAMPLER") = ClassAt(g, "WAN_SAMPLER")
      BY <1>2, WiringClassAt
    <3> QED BY <1>3, <3>1 DEF SamplersFilled, At
  <2>2. At(g, "WAN_DIMS", LengthField(ClassAt(g, "WAN_DIMS")), v.frames)
           => At(h, "WAN_DIMS", LengthField(ClassAt(h, "WAN_DIMS")), v.frames)
    <3>1. HasAnchor(g, "WAN_DIMS") => ClassAt(h, "WAN_DIMS") = ClassAt(g, "WAN_DIMS")
      BY <1>2, WiringClassAt
    <3>2. LengthField(ClassAt(g, "WAN_DIMS")) # "image"
      BY DEF LengthField
    <3>3. At(g, "WAN_DIMS", LengthField(ClassAt(g, "WAN_DIMS")), v.frames)
             => HasAnchor(g, "WAN_DIMS")
      BY DEF At
    <3> QED BY <1>3, <3>1, <3>2, <3>3
  <2> QED BY <1>3, <2>1, <2>2 DEF WanFilled
<1>8. FilledIn(h, r, v, seed)
  BY <1>5, <1>6, <1>7 DEF FilledIn
<1> QED BY <1>8 DEF h, o, new

\* A job goes on with what its request or, failing that, its model says.
Copied == job.phase \in {"validated", "uploading", "ready"} => FromRequest(job.req, job.validated)

\* What was built carries the steps, sizes, frames and seed of the job.
Filled ==
    (ConfigurationFits /\ job.phase \in {"uploading", "ready"}) =>
        \E seed \in Int : FilledIn(job.graph, job.req, job.validated, seed)

Workload == Copied /\ Filled

LEMMA RevalidateCopies ==
    ASSUME IInv, Revalidate
    PROVE  Workload'
<1> DEFINE outcome == Validated(job.req, StoredTask(job.req))
           onDisk == Disks[disk].loras
<1>1. DOMAIN job = DOMAIN Idle
  BY DEF IInv, Types
<1>2. outcome = Judgement(job.req, ModelsOf(registry), onDisk)
  BY JudgementIsValidated
<1>3. \/ /\ outcome.code # "ok"
         /\ job' = [job EXCEPT !.phase = "failed", !.code = outcome.code, !.source = registry,
                               !.built = disk]
      \/ /\ outcome.code = "ok"
         /\ job' = [job EXCEPT !.phase = "validated", !.source = registry, !.admitted = None,
                               !.loras = {}, !.validated = outcome.job]
  BY DEF Revalidate
<1> HIDE DEF outcome, onDisk
<1>4. \/ job'.phase = "failed"
      \/ /\ outcome.code = "ok" /\ job'.phase = "validated"
         /\ job'.req = job.req /\ job'.validated = outcome.job
  BY <1>1, <1>3 DEF Idle
<1>5. outcome.code = "ok" => FromRequest(job.req, outcome.job)
  BY <1>2, JudgementCopies
<1> QED BY <1>4, <1>5 DEF Workload, Copied, Filled

LEMMA BuildFills ==
    ASSUME PreparationAssumption, IInv, Copied, Build
    PROVE  Workload'
<1> DEFINE path == job.validated.workflow
           templates == Disks[disk].templates
           g == templates[path]
<1>1. /\ DOMAIN job = DOMAIN Idle /\ job.phase = "validated" /\ job.req \in Requests
      /\ disk \in DOMAIN Disks /\ model_validate(job.req)
  BY DEF IInv, JobInv, Parsed, Types, Build, Idle
<1>2. PICK seed \in ActualSeeds(job.validated) :
         LET r == Graph(templates[path], seed) IN
         job' = IF path \notin DOMAIN templates
                THEN [job EXCEPT !.phase = "failed", !.code = "internal", !.built = disk]
                ELSE IF r.err # "none"
                THEN [job EXCEPT !.phase = "failed", !.code = ErrorCode(r.err), !.built = disk]
                ELSE [job EXCEPT !.phase = IF job.validated.init_image THEN "uploading"
                                           ELSE "ready",
                                 !.built = disk, !.graph = r.graph]
  BY DEF Build
<1> DEFINE r == Graph(g, seed)
           next == IF job.validated.init_image THEN "uploading" ELSE "ready"
<1>3. \/ job' = [job EXCEPT !.phase = "failed", !.code = "internal", !.built = disk]
      \/ job' = [job EXCEPT !.phase = "failed", !.code = ErrorCode(r.err), !.built = disk]
      \/ /\ path \in DOMAIN templates /\ r.err = "none"
         /\ job' = [job EXCEPT !.phase = next, !.built = disk, !.graph = r.graph]
  BY <1>2
<1>4. PICK v \in DOMAIN Disks : JobObeys(job.req, job.validated, Disks[v].loras)
  BY <1>1 DEF IInv, JobInv, JobsWithinLimits
<1>5. seed \in Int
  <2>1. job.validated.seed = job.req.seed
    BY <1>1 DEF Copied, FromRequest
  <2>2. job.req.seed \in -1..MaxSeed
    BY ONLY <1>1 DEF model_validate
  <2> QED BY <2>1, <2>2, <1>2 DEF ActualSeeds
<1>6. ASSUME ConfigurationFits, path \in DOMAIN templates, r.err = "none"
      PROVE  FilledIn(r.graph, job.req, job.validated, seed)
  <2>1. IsGraph(g)
    BY <1>1, <1>6 DEF PreparationAssumption, IsTemplate
  <2>2. OneLatent(g) /\ TwoPasses(g)
    BY <1>1, <1>6 DEF ConfigurationFits
  <2> HIDE DEF g
  <2> QED BY <1>4, <1>6, <2>1, <2>2, GraphIsFilled
<1> HIDE DEF r, next, templates, g, path
<1>7. /\ job'.req = job.req /\ job'.validated = job.validated
      /\ \/ job'.phase = "failed"
         \/ path \in DOMAIN templates /\ r.err = "none" /\ job'.graph = r.graph
  BY <1>1, <1>3 DEF Idle
<1>8. Copied'
  BY <1>1, <1>7 DEF Copied
<1>9. Filled'
  BY <1>5, <1>6, <1>7 DEF Filled
<1> QED BY <1>8, <1>9 DEF Workload

LEMMA UploadFills ==
    ASSUME IInv, Graphs, Workload, UploadImage
    PROVE  Workload'
<1> DEFINE graph == PatchIfAny(Opened(job.graph, "INIT_IMAGE"), "INIT_IMAGE",
                               [image |-> "upload"])
<1>1. DOMAIN job = DOMAIN Idle /\ job.phase = "uploading"
  BY UploadSteps
<1>2. IsGraph(job.graph)
  BY <1>1 DEF Graphs
<1>4. job'.phase = "failed" \/ job' = [job EXCEPT !.phase = "ready", !.graph = graph]
  BY UploadSteps
<1>5. \A seed : FilledIn(job.graph, job.req, job.validated, seed)
                   => FilledIn(graph, job.req, job.validated, seed)
  BY <1>2, UploadStaysFilled
<1> HIDE DEF graph
<1>6. \/ job'.phase = "failed"
      \/ job'.req = job.req /\ job'.validated = job.validated /\ job'.graph = graph
  BY <1>1, <1>4 DEF Idle
<1>7. Copied'
  BY <1>1, <1>6 DEF Workload, Copied
<1>8. Filled'
  BY <1>1, <1>5, <1>6 DEF Workload, Filled
<1> QED BY <1>7, <1>8 DEF Workload

LEMMA WorkloadKept ==
    ASSUME PreparationAssumption, IInv, Graphs, Workload, [Next]_vars
    PROVE  Workload'
<1>1. CASE Edit \/ reload_registry \/ setup_bundle \/ WarmedUp \/ close_bundle \/ Unloaded
  <2>1. job' = job
    BY <1>1, AdminKeepsTypes DEF IInv
  <2> QED BY <2>1 DEF Workload, Copied, Filled
<1>2. ASSUME NEW r \in Requests, Arrive(r)
      PROVE  Workload'
  <2>1. job'.phase \in {"refused", "parsing"}
    BY <1>2 DEF Arrive, Idle
  <2> QED BY <2>1 DEF Workload, Copied, Filled
<1>3. CASE Admit
  <2>1. DOMAIN job = DOMAIN Idle
    BY DEF IInv, Types
  <2>2. job'.phase \in {"refused", "queued"}
    BY <1>3, <2>1 DEF Admit, Refuse, Idle
  <2> QED BY <2>2 DEF Workload, Copied, Filled
<1>4. CASE Revalidate
  BY <1>4, RevalidateCopies
<1>5. CASE Build
  BY <1>5, BuildFills DEF Workload
<1>6. CASE UploadImage
  BY <1>6, UploadFills
<1>7. CASE UNCHANGED vars
  BY <1>7 DEF vars, Workload, Copied, Filled
<1> QED BY <1>1, <1>2, <1>3, <1>4, <1>5, <1>6, <1>7 DEF Next

THEOREM WorkloadInvariant == Spec => []Workload
<1>1. Init => Workload
  BY DEF Init, Idle, Workload, Copied, Filled
<1>2. IInv /\ Graphs /\ Workload /\ [Next]_vars => Workload'
  BY PreparationAssumption, WorkloadKept
<1> QED BY <1>1, <1>2, Invariant, GraphsInvariant, PTL DEF Spec

\* The steps of a job are a number in the range of its model.
LEMMA StepsInRange ==
    ASSUME PreparationAssumption, ConfigurationFits, NEW r \in Requests, model_validate(r),
           NEW v, FromRequest(r, v), NEW s \in DOMAIN Disks, v.model \in Range(Disks[s].yaml),
           ~(v.steps > Given(v.model.limits.steps_max, 50))
    PROVE  v.steps \in 1..Given(v.model.limits.steps_max, 50)
<1> DEFINE m == v.model
           limit == Given(m.limits.steps_max, 50)
           default == Given(m.steps, IF r.kind = "image" THEN 28 ELSE 30)
<1>1. m.steps \in (Nat \ {0}) \cup {None} /\ m.limits.steps_max \in Int \cup {None}
  BY DEF ConfigurationFits
<1>2. limit \in Int
  BY <1>1 DEF Given
<1>3. default \in Int /\ default >= 1
  BY <1>1 DEF Given
<1>4. r.steps \in Int \cup {None} /\ (r.steps = None \/ r.steps >= 1)
  BY DEF PreparationAssumption, model_validate
<1>5. v.steps = Given(r.steps, default)
  BY DEF FromRequest
<1> HIDE DEF limit, default
<1>6. v.steps \in Int /\ v.steps >= 1
  BY <1>3, <1>4, <1>5 DEF Given
<1>7. ~(v.steps > limit)
  BY DEF limit
<1> HIDE DEF m
<1>8. v.steps \in 1..limit
  BY ONLY <1>2, <1>6, <1>7
<1> QED BY <1>8 DEF limit, m

\* Whatever the requests, the configuration and the templates, and whatever an
\* administrator does in between, a submitted graph asks for no more than the model it was
\* validated against allows, if the configuration gives numbers and the templates have one
\* latent node and a second sampler where the first leaves steps over: steps, size and
\* batch of an image; steps and size of a WAN video, frames rounded up by less than a
\* unit, two passes that share a seed and meet at a step of the schedule; the rounded
\* frames of an LTX video and a seed below its bound, but not its size and steps, which
\* the pipeline leaves to the template (resolve_and_validate*, normalize_*, the three
\* pipelines, half_steps, inject_*).
THEOREM ReadyWithinLimitsHolds == ConfigurationFits => (Spec => []ReadyWithinLimits)
<1> SUFFICES ASSUME ConfigurationFits
             PROVE  Spec => []ReadyWithinLimits
  OBVIOUS
<1>1. IInv /\ Workload => ReadyWithinLimits
  <2> SUFFICES ASSUME IInv, Workload, job.phase = "ready"
               PROVE  LET m == job.validated.model IN
                      CASE job.req.kind = "image" -> WithinImageLimits(m)
                        [] IsLtxv -> WithinLtxvLimits
                        [] OTHER -> WithinWanLimits(m)
    BY DEF ReadyWithinLimits
  <2> DEFINE v == job.validated
             r == job.req
             m == v.model
             h == job.graph
  <2>1. r \in Requests /\ model_validate(r) /\ FromRequest(r, v)
    BY DEF IInv, JobInv, Parsed, Workload, Copied
  <2>2. PICK d \in DOMAIN Disks : JobObeys(r, v, Disks[d].loras)
    BY DEF IInv, JobInv, JobsWithinLimits
  <2>3. job.source \in DOMAIN Disks /\ m \in Range(Disks[job.source].yaml)
    <3>1. /\ job.source \in DOMAIN Disks
          /\ job.req.model \in DOMAIN ModelsOf(job.source)
          /\ m = ModelsOf(job.source)[job.req.model]
      BY DEF IInv, JobInv, JobsWithinLimits
    <3> HIDE DEF m
    <3> QED BY <3>1, ModelsAreEntries
  <2>4. PICK seed \in Int : FilledIn(h, r, v, seed)
    BY DEF Workload, Filled
  <2>5. /\ r.kind \in {"image", "video"} /\ r.n \in Int /\ r.pixels \in Int
        /\ SeedLimit \in Nat \ {0}
    BY <2>1, PreparationAssumption DEF PreparationAssumption
  <2>6. v.steps \in 1..Given(m.limits.steps_max, 50)
    <3>1. ~(v.steps > Given(m.limits.steps_max, 50))
      BY <2>2 DEF JobObeys, ImageObeys, VideoObeys
    <3> HIDE DEF v, r
    <3> QED BY <2>1, <2>3, <3>1, PreparationAssumption, StepsInRange
  <2>7. half_steps(v.steps) \in 1..v.steps
    <3>1. v.steps \in Int /\ v.steps >= 1
      BY <2>6
    <3> QED BY <3>1, HalfOfSteps
  <2>8. CASE r.kind = "image"
    <3>1. ImageFilled(h, v) /\ ImageObeys(v, Disks[d].loras)
      BY <2>2, <2>4, <2>8 DEF FilledIn, JobObeys
    <3>2. v.pixels = r.pixels /\ v.n = r.n /\ r.n >= 1
      BY <2>1, <2>8 DEF FromRequest, model_validate
    <3>3. /\ Given(m.limits.size_max_pixels, 1048576) \in Int
          /\ Given(m.limits.n_max, 1) \in Int
      BY <2>3 DEF ConfigurationFits, Given
    <3>4. v.pixels <= Given(m.limits.size_max_pixels, 1048576)
      <4>1. ~(v.pixels > ImagePixels(m))
        BY <3>1 DEF ImageObeys
      <4> HIDE DEF v, m, r
      <4> QED BY <2>5, <3>2, <3>3, <4>1 DEF ImagePixels
    <3>5. v.n \in 1..Given(m.limits.n_max, 1)
      <4>1. ~(v.n > Given(m.limits.n_max, 1))
        BY <3>1 DEF ImageObeys
      <4> HIDE DEF v, m, r
      <4> QED BY <2>5, <3>2, <3>3, <4>1
    <3>6. WithinImageLimits(m)
      BY <2>6, <3>1, <3>4, <3>5 DEF WithinImageLimits, ImageFilled, At, Holds, ValueAt
    <3> QED BY <2>8, <3>6 DEF IsLtxv
  <2>9. ASSUME r.kind # "image"
        PROVE  Rounded(v.frames, Unit(m)) /\ m.family \in VideoFamilies
    BY <2>2, <2>9 DEF JobObeys, VideoObeys, RoundedUp, Rounded
  <2>10. CASE r.kind # "image" /\ IsLtxv
    <3>1. LtxvFilled(h, v, seed) /\ Unit(m) = 8
      BY <2>4, <2>10 DEF FilledIn, IsLtxv, Unit
    <3>2. seed % SeedLimit < SeedLimit
      BY <2>5
    <3>3. WithinLtxvLimits
      BY <2>9, <2>10, <3>1, <3>2 DEF WithinLtxvLimits, LtxvFilled, At, Holds, ValueAt
    <3> QED BY <2>10, <3>3
  <2>11. CASE r.kind # "image" /\ ~IsLtxv
    <3>1. WanFilled(h, v, seed) /\ Unit(m) = 4
      BY <2>4, <2>5, <2>11 DEF FilledIn, IsLtxv, Unit
    <3>2. Rounded(ValueAt("WAN_DIMS", LengthField(ClassAt(h, "WAN_DIMS"))), 4)
      BY <2>9, <2>11, <3>1 DEF WanFilled, At, Holds, ValueAt
    <3>3. ValueAt("WAN_SAMPLER", "steps") = v.steps
      BY <3>1 DEF WanFilled, SamplersFilled, At, Holds, ValueAt
    <3>4. ClassAt(h, "WAN_SAMPLER") = "KSamplerAdvanced" =>
             /\ ValueAt("WAN_SAMPLER", "end_at_step") = half_steps(v.steps)
             /\ ValueAt("WAN_NAG_SAMPLER", "start_at_step") = half_steps(v.steps)
             /\ ValueAt("WAN_NAG_SAMPLER", "noise_seed") = seed
             /\ ValueAt("WAN_SAMPLER", "noise_seed") = seed
      BY <3>1 DEF WanFilled, SamplersFilled, At, Holds, ValueAt
    <3>5. ValueAt("WAN_DIMS", "pixels") <= Given(m.limits.size_max_pixels, 1920 * 1080)
      <4>1. ValueAt("WAN_DIMS", "pixels") = v.pixels
        BY <3>1 DEF WanFilled, At, Holds, ValueAt
      <4>2. v.pixels = r.pixels /\ ~(v.pixels > VideoPixels(m))
        BY <2>1, <2>2, <2>11 DEF FromRequest, JobObeys, VideoObeys
      <4>3. Given(m.limits.size_max_pixels, 1920 * 1080) \in Int
        BY <2>3 DEF ConfigurationFits, Given
      <4> HIDE DEF v, m, r
      <4> QED BY <2>5, <4>1, <4>2, <4>3 DEF VideoPixels
    <3>6. WithinWanLimits(m)
      BY <2>6, <2>7, <3>2, <3>3, <3>4, <3>5 DEF WithinWanLimits
    <3> QED BY <2>11, <3>6
  <2> QED BY <2>8, <2>10, <2>11
<1> QED BY <1>1, Invariant, WorkloadInvariant, PTL

-----------------------------------------------------------------------------
(* The files in a graph.                                                   *)

\* A field that names a file outside F.
Left(g, F, i, k) ==
    /\ i \in DOMAIN g /\ k \in DOMAIN g[i].vals /\ k \in FileFields
    /\ g[i].vals[k] \notin F

\* Values of which every file is in F.
FilesAmong(new, F) == \A k \in DOMAIN new \cap FileFields : new[k] \in F

LEMMA AddsNoFileLeaves ==
    ASSUME NEW g, NEW h, AddsNoFile(g, h), NEW F, NEW i, NEW k, Left(h, F, i, k)
    PROVE  Left(g, F, i, k)
BY DEF Left, AddsNoFile

\* A patch with files of F settles the fields it sets.
LEMMA PatchAtLeaves ==
    ASSUME NEW g, IsGraph(g), NEW a, NEW new, NEW F, FilesAmong(new, F),
           NEW i, NEW k, Left(PatchAt(g, a, new), F, i, k)
    PROVE  Left(g, F, i, k) /\ ~(i = find_anchor(g, a) /\ k \in DOMAIN new)
<1> DEFINE n == find_anchor(g, a)
           h == PatchAt(g, a, new)
<1>1. /\ DOMAIN h = DOMAIN g
      /\ \A j \in DOMAIN g : h[j].vals = IF j = n THEN Over(new, g[j].vals) ELSE g[j].vals
  BY PatchValues DEF PatchAt
<1>2. /\ i \in DOMAIN h /\ k \in DOMAIN h[i].vals /\ k \in FileFields
      /\ h[i].vals[k] \notin F
  BY DEF Left
<1> HIDE DEF h, n
<1>3. CASE i = n
  <2>1. k \in DOMAIN new => h[i].vals[k] = new[k]
    BY <1>1, <1>2, <1>3 DEF Over
  <2>2. k \notin DOMAIN new
    BY <1>2, <2>1 DEF FilesAmong
  <2>3. k \in DOMAIN g[i].vals /\ h[i].vals[k] = g[i].vals[k]
    BY <1>1, <1>2, <1>3, <2>2 DEF Over
  <2> QED BY <1>1, <1>2, <2>2, <2>3 DEF Left
<1>4. CASE i # n
  BY <1>1, <1>2, <1>4 DEF Left, n
<1> QED BY <1>3, <1>4

LEMMA PatchIfAnyLeaves ==
    ASSUME NEW g, IsGraph(g), NEW a, NEW new, NEW F, FilesAmong(new, F),
           NEW i, NEW k, Left(PatchIfAny(g, a, new), F, i, k)
    PROVE  Left(g, F, i, k) /\ ~(CanFill(g, a) /\ i = find_anchor(g, a) /\ k \in DOMAIN new)
BY PatchAtLeaves DEF PatchIfAny

LEMMA PatchAllLeaves ==
    ASSUME NEW g, IsGraph(g), NEW nodes, NEW new, NEW F, FilesAmong(new, F),
           NEW i, NEW k, Left(PatchAll(g, nodes, new), F, i, k)
    PROVE  Left(g, F, i, k) /\ ~(i \in nodes /\ k \in DOMAIN new)
<1> DEFINE h == PatchAll(g, nodes, new)
           vals == Over(new, g[i].vals)
<1>1. /\ DOMAIN h = DOMAIN g
      /\ i \in DOMAIN g =>
            h[i] = IF i \in nodes THEN [g[i] EXCEPT !.vals = vals] ELSE g[i]
  BY DEF PatchAll
<1>2. /\ i \in DOMAIN h /\ k \in DOMAIN h[i].vals /\ k \in FileFields
      /\ h[i].vals[k] \notin F
  BY DEF Left
<1>3. /\ k \in DOMAIN new => vals[k] = new[k]
      /\ k \in DOMAIN vals /\ k \notin DOMAIN new => k \in DOMAIN g[i].vals /\ vals[k] = g[i].vals[k]
  BY DEF Over
<1> HIDE DEF h, vals
<1>4. CASE i \in nodes
  <2>1. DOMAIN g[i] = NodeFields
    BY <1>1, <1>2 DEF IsGraph, NodeFields
  <2>2. h[i].vals = vals
    BY <1>1, <1>2, <1>4, <2>1 DEF NodeFields
  <2>3. k \notin DOMAIN new
    BY <1>2, <1>3, <2>2 DEF FilesAmong
  <2> QED BY <1>1, <1>2, <1>3, <2>2, <2>3 DEF Left
<1>5. CASE i \notin nodes
  BY <1>1, <1>2, <1>5 DEF Left
<1> QED BY <1>4, <1>5

\* A file that an entry names.
LEMMA AssetIsFile ==
    ASSUME NEW m, NEW f \in DOMAIN m.assets, m.assets[f] # None
    PROVE  m.assets[f] \in FilesOf(m)
BY DEF FilesOf, Range

LEMMA MmaudioIsFile ==
    ASSUME NEW m, NEW f \in DOMAIN m.mmaudio, m.mmaudio[f] # None
    PROVE  m.mmaudio[f] \in FilesOf(m)
BY DEF FilesOf, Range

\* What load_registry and the parser give an entry.
HasFiles(m) ==
    /\ DOMAIN m.assets = Range(AssetFields) /\ m.assets.checkpoint # None
    /\ DOMAIN m.mmaudio = Range(MmaudioFields)

LEMMA FieldNames ==
    /\ Range(AssetFields) = {"checkpoint", "vae", "clip_l", "t5xxl", "wan_t5_encoder",
                             "wan_clip_vision", "wan_unet_low", "ltxv_text_encoder"}
    /\ Range(MmaudioFields) = {"vae", "synchformer", "clip", "diffusion"}
<1>1. DOMAIN AssetFields = 1..8 /\ DOMAIN MmaudioFields = 1..4
  BY DEF AssetFields, MmaudioFields
<1> QED BY <1>1 DEF Range, AssetFields, MmaudioFields

\* The text encoder files, when there are any.
LEMMA ClipFiles ==
    ASSUME NEW m, HasFiles(m), NEW class, None \notin Range(ClipVals(class, m))
    PROVE  /\ FilesAmong(ClipVals(class, m), FilesOf(m))
           /\ class = "DualCLIPLoader" => {"clip_name1", "clip_name2"} \subseteq DOMAIN ClipVals(class, m)
           /\ class = "CLIPLoader" => "clip_name" \in DOMAIN ClipVals(class, m)
<1> DEFINE clip == ClipVals(class, m)
<1>1. /\ "clip_l" \in DOMAIN m.assets /\ "t5xxl" \in DOMAIN m.assets
  BY FieldNames DEF HasFiles
<1>2. \A k \in DOMAIN clip : clip[k] # None
  <2> HIDE DEF clip
  <2> QED BY DEF Range, clip
<1>3. CASE class = "DualCLIPLoader"
  <2> DEFINE files == [clip_name1 |-> m.assets.clip_l, clip_name2 |-> m.assets.t5xxl]
             type == IF m.dual_clip_type # None THEN [type |-> m.dual_clip_type] ELSE <<>>
  <2>1. clip = Over(files, type)
    BY <1>3 DEF ClipVals
  <2>2. DOMAIN type \subseteq {"type"}
    OBVIOUS
  <2>3. /\ DOMAIN clip = {"clip_name1", "clip_name2"} \cup DOMAIN type
        /\ clip["clip_name1"] = m.assets.clip_l /\ clip["clip_name2"] = m.assets.t5xxl
    BY <2>1 DEF Over
  <2> HIDE DEF clip, type
  <2>4. m.assets.clip_l \in FilesOf(m) /\ m.assets.t5xxl \in FilesOf(m)
    BY <1>1, <1>2, <2>3, AssetIsFile
  <2> QED BY <1>3, <2>2, <2>3, <2>4 DEF FilesAmong, FileFields, clip
<1>4. CASE class = "CLIPLoader"
  <2>1. clip = [clip_name |-> m.assets.clip_l, type |-> m.clip_loader_type]
    BY <1>4 DEF ClipVals
  <2>2. DOMAIN clip = {"clip_name", "type"} /\ clip["clip_name"] = m.assets.clip_l
    BY <2>1
  <2> HIDE DEF clip
  <2>3. m.assets.clip_l \in FilesOf(m)
    BY <1>1, <1>2, <2>2, AssetIsFile
  <2> QED BY <1>4, <2>2, <2>3 DEF FilesAmong, FileFields, clip
<1>5. CASE class \notin {"DualCLIPLoader", "CLIPLoader"}
  <2>1. clip = <<>>
    BY <1>5 DEF ClipVals
  <2> QED BY <1>5, <2>1 DEF FilesAmong
<1> QED BY <1>3, <1>4, <1>5

\* A field that inject_model_source does not fill in.
SourceLeft(g, m, i, k) ==
    /\ i = find_anchor(g, "MODEL_SOURCE") =>
          g[i].class \in DOMAIN ModelField /\ k # ModelField[g[i].class]
    /\ i = find_anchor(g, "CLIP_SOURCE") =>
          /\ g[i].class = "DualCLIPLoader" => k \notin {"clip_name1", "clip_name2"}
          /\ g[i].class = "CLIPLoader" => k # "clip_name"
    /\ g[i].class = "VAELoader" /\ g[i].inputs = "object" /\ k = "vae_name" =>
          m.assets.vae = None

\* inject_model_source settles the checkpoint, the text encoders and the VAEs.
LEMMA ModelSourceLoads ==
    ASSUME NEW g, IsGraph(g), NEW m, HasFiles(m), inject_model_source(g, m).err = "none",
           NEW F, FilesOf(m) \subseteq F,
           NEW i, NEW k, Left(inject_model_source(g, m).graph, F, i, k)
    PROVE  /\ HasAnchors(g, {"MODEL_SOURCE", "CLIP_SOURCE"})
           /\ Left(g, F, i, k) /\ SourceLeft(g, m, i, k)
<1> DEFINE encoder == ClassAt(g, "CLIP_SOURCE")
           clip == ClipVals(encoder, m)
           class == ClassAt(g, "MODEL_SOURCE")
           field == ModelField[class]
           model == [f \in {field} |-> m.assets.checkpoint]
           vae == [vae_name |-> m.assets.vae]
           s1 == PatchAt(g, "MODEL_SOURCE", model)
           s2 == PatchAt(s1, "CLIP_SOURCE", clip)
           vaes == {n \in OfClass(s2, "VAELoader") : "vae_name" \in DOMAIN s2[n].vals}
           s3 == IF m.assets.vae = None THEN s2 ELSE PatchAll(s2, vaes, vae)
           anchored == CanFillAll(g, {"MODEL_SOURCE", "CLIP_SOURCE"})
           r == inject_model_source(g, m)
<1>1. r = IF ~anchored THEN Raise("workflow")
          ELSE IF class \notin DOMAIN ModelField \/ None \in Range(clip)
          THEN Raise("workflow") ELSE Ok(s3)
  BY DEF inject_model_source
<1>2. anchored /\ class \in DOMAIN ModelField /\ None \notin Range(clip) /\ r = Ok(s3)
  <2> HIDE DEF s3, clip, class, anchored, r
  <2> QED BY <1>1 DEF Raise, r
<1>3. Left(s3, F, i, k)
  <2> HIDE DEF s3
  <2> QED BY <1>2 DEF Ok
<1>4. FilesAmong(model, F)
  <2>1. "checkpoint" \in DOMAIN m.assets
    BY FieldNames DEF HasFiles
  <2>2. m.assets.checkpoint \in F
    BY <2>1, AssetIsFile DEF HasFiles
  <2> QED BY <2>2 DEF FilesAmong
<1>5. FilesAmong(clip, F)
  <2>1. FilesAmong(clip, FilesOf(m))
    BY <1>2, ClipFiles
  <2> HIDE DEF clip
  <2> QED BY <2>1 DEF FilesAmong
<1>6. m.assets.vae # None => FilesAmong(vae, F)
  <2>1. "vae" \in DOMAIN m.assets
    BY FieldNames DEF HasFiles
  <2>2. m.assets.vae # None => m.assets.vae \in F
    BY <2>1, AssetIsFile
  <2> QED BY <2>2 DEF FilesAmong
<1>7. DOMAIN model = {field} /\ DOMAIN vae = {"vae_name"}
  OBVIOUS
<1> HIDE DEF model, clip, vae, field, vaes
<1>8. SameWiring(g, s1) /\ IsGraph(s1)
  BY PatchAtWiring
<1>9. SameWiring(s1, s2) /\ IsGraph(s2)
  <2> HIDE DEF s1
  <2> QED BY <1>8, PatchAtWiring
<1>10. /\ Left(s2, F, i, k)
       /\ s2[i].class = "VAELoader" /\ s2[i].inputs = "object" /\ k = "vae_name" =>
             m.assets.vae = None
  <2> HIDE DEF s2
  <2>1. Left(s2, F, i, k) /\ (m.assets.vae # None => ~(i \in vaes /\ k \in DOMAIN vae))
    BY <1>3, <1>6, <1>9, PatchAllLeaves
  <2> QED BY <1>7, <2>1 DEF vaes, OfClass, Left
<1>11. Left(s1, F, i, k) /\ ~(i = find_anchor(s1, "CLIP_SOURCE") /\ k \in DOMAIN clip)
  <2> HIDE DEF s1
  <2> QED BY <1>5, <1>8, <1>10, PatchAtLeaves
<1>12. Left(g, F, i, k) /\ ~(i = find_anchor(g, "MODEL_SOURCE") /\ k = field)
  BY <1>4, <1>7, <1>11, PatchAtLeaves
<1> HIDE DEF s1, s2, s3, r
<1>13. find_anchor(s1, "CLIP_SOURCE") = find_anchor(g, "CLIP_SOURCE")
  BY <1>8, WiringAnchors
<1>14. s2[i].class = g[i].class /\ (g[i].inputs = "object" => s2[i].inputs = "object")
  BY <1>8, <1>9, <1>12 DEF SameWiring, Left
<1>15. i = find_anchor(g, "CLIP_SOURCE") => g[i].class = encoder
  BY DEF ClassAt
<1>16. /\ encoder = "DualCLIPLoader" => {"clip_name1", "clip_name2"} \subseteq DOMAIN clip
       /\ encoder = "CLIPLoader" => "clip_name" \in DOMAIN clip
  BY <1>2, ClipFiles DEF clip
<1>17. i = find_anchor(g, "MODEL_SOURCE") => g[i].class = class
  BY DEF ClassAt
<1>18. HasAnchors(g, {"MODEL_SOURCE", "CLIP_SOURCE"})
  BY <1>2, CanFillHas
<1> HIDE DEF encoder, class, anchored
<1> QED BY <1>2, <1>10, <1>11, <1>12, <1>13, <1>14, <1>15, <1>16, <1>17, <1>18
      DEF SourceLeft, field

\* What is left of the files of a template once an image is built from it.
LEMMA ImageLoads ==
    ASSUME NEW g, IsTemplate(g), NEW v, NEW S, v.loras \in Seq(S), HasFiles(v.model),
           NEW seed, BuildImage(g, v, seed).err = "none",
           FilesUnderAnchors(g), Unrepeated(g, {"MODEL_SOURCE", "CLIP_SOURCE"}),
           ~HasAnchor(g, "WAN_MODEL"),
           NEW F, FilesOf(v.model) \subseteq F,
           NEW i, NEW k, Left(BuildImage(g, v, seed).graph, F, i, k)
    PROVE  /\ Grows(g, BuildImage(g, v, seed).graph) /\ i \in DOMAIN g
           /\ \/ g[i].class = "VAELoader" /\ v.model.assets.vae = None
              \/ k = "image" /\ i \in Owners(g, "INIT_IMAGE")
<1> DEFINE m == v.model
           latents == {n \in DOMAIN g : g[n].class = "EmptyLatentImage"}
           p == PatchAt(g, "POSITIVE_PROMPT", [text |-> "prompt"])
           g1 == PatchAt(p, "NEGATIVE_PROMPT", [text |-> "negative"])
           sampling == [seed |-> seed, steps |-> v.steps, sampler_name |-> v.sampler,
                        scheduler |-> v.scheduler]
           g2 == PatchAt(g1, "KSAMPLER", sampling)
           size == [pixels |-> v.pixels, batch_size |-> v.n]
           g3 == IF latents = {} THEN g2 ELSE Patch(g2, Min(latents), size)
           sourced == inject_model_source(g3, m)
           checked == Then(sourced, LAMBDA h : inject_vpred(h, m))
           chained == inject_loras(checked.graph, v.loras)
           blocked == \/ ~CanFillAll(g, {"POSITIVE_PROMPT", "NEGATIVE_PROMPT", "KSAMPLER"})
                      \/ latents # {} /\ g[Min(latents)].inputs # "object"
           r == BuildImage(g, v, seed)
<1>0. IsGraph(g)
  BY DEF IsTemplate
<1>1. r = IF blocked THEN Raise("key")
          ELSE IF checked.err = "none" THEN chained ELSE checked
  BY DEF BuildImage, Then
<1>2. checked = IF sourced.err = "none" THEN inject_vpred(sourced.graph, m) ELSE sourced
  BY DEF Then
<1> HIDE DEF sampling, size, latents, blocked
<1>3. /\ {"text"} \cap FileFields = {} /\ DOMAIN sampling \cap FileFields = {}
      /\ DOMAIN size \cap FileFields = {}
  BY DEF sampling, size, FileFields
<1>4. AddsNoFile(g, p) /\ SameWiring(g, p) /\ IsGraph(p)
  BY <1>0, <1>3, PatchAddsNoFile, PatchAtWiring DEF PatchAt
<1> HIDE DEF p
<1>5. AddsNoFile(p, g1) /\ SameWiring(p, g1) /\ IsGraph(g1)
  BY <1>3, <1>4, PatchAddsNoFile, PatchAtWiring DEF PatchAt
<1> HIDE DEF g1
<1>6. AddsNoFile(g1, g2) /\ SameWiring(g1, g2) /\ IsGraph(g2)
  BY <1>3, <1>5, PatchAddsNoFile, PatchAtWiring DEF PatchAt
<1> HIDE DEF g2
<1>7. AddsNoFile(g2, g3) /\ SameWiring(g2, g3) /\ IsGraph(g3)
  <2>1. AddsNoFile(g2, g2)
    BY DEF AddsNoFile
  <2> QED BY <1>3, <1>6, <2>1, PatchAddsNoFile, PatchWiring, WiringIsGraph, WiringRefl
<1> HIDE DEF g3
<1>8. AddsNoFile(g, g3) /\ SameWiring(g, g3)
  BY <1>4, <1>5, <1>6, <1>7, AddsNoFileTrans, WiringTrans
<1> HIDE DEF sourced, checked, chained, r
<1>9. r.err = "none" /\ Left(r.graph, F, i, k)
  BY DEF r
<1>10. checked.err = "none" /\ r = chained
  BY <1>1, <1>9 DEF Raise
<1>11. sourced.err = "none" /\ checked.graph = sourced.graph
  BY <1>2, <1>10 DEF inject_vpred, Ok, Raise
<1>12. SameWiring(g3, sourced.graph) /\ IsGraph(sourced.graph)
  BY <1>7, <1>11, ModelSourceInjected DEF Rewired, sourced
<1>13. AddsNoFile(sourced.graph, r.graph) /\ Grows(sourced.graph, r.graph)
  BY <1>9, <1>10, <1>11, <1>12, LorasGrow DEF chained
<1>14. Left(sourced.graph, F, i, k)
  BY <1>9, <1>13, AddsNoFileLeaves
<1>15. /\ HasAnchors(g3, {"MODEL_SOURCE", "CLIP_SOURCE"})
       /\ Left(g3, F, i, k) /\ SourceLeft(g3, m, i, k)
  <2>1. HasFiles(m) /\ FilesOf(m) \subseteq F
    OBVIOUS
  <2>2. IsGraph(g3) /\ inject_model_source(g3, m).err = "none"
        /\ Left(inject_model_source(g3, m).graph, F, i, k)
    BY <1>7, <1>11, <1>14 DEF sourced
  <2> HIDE DEF m
  <2> QED BY ONLY <2>1, <2>2, ModelSourceLoads
<1>16. Left(g, F, i, k)
  BY <1>8, <1>15, AddsNoFileLeaves
<1>17. /\ i \in DOMAIN g /\ k \in DOMAIN g[i].vals \cap FileFields
       /\ g3[i].class = g[i].class /\ g3[i].inputs = "object"
  BY <1>8, <1>16 DEF Left, SameWiring, IsTemplate
<1>18. \A a : find_anchor(g3, a) = find_anchor(g, a) /\ HasAnchor(g3, a) = HasAnchor(g, a)
  BY <1>8, WiringAnchors
<1>19. HasAnchor(g, "MODEL_SOURCE") /\ HasAnchor(g, "CLIP_SOURCE")
  BY <1>15, <1>18 DEF HasAnchors
<1>20. /\ "MODEL_SOURCE" \in g[i].anchors => i = find_anchor(g, "MODEL_SOURCE")
       /\ "CLIP_SOURCE" \in g[i].anchors => i = find_anchor(g, "CLIP_SOURCE")
  BY <1>0, <1>17, <1>19, AnchorFound DEF Unrepeated, Owners
<1>21. \/ k \in ImageFiles(g[i])
       \/ k = "image" /\ i \in Owners(g, "INIT_IMAGE")
  BY <1>17, <1>19 DEF FilesUnderAnchors, FilesIn
<1>22. k \in ImageFiles(g[i]) => g[i].class = "VAELoader" /\ k = "vae_name"
  BY <1>15, <1>17, <1>18, <1>20 DEF ImageFiles, SourceLeft
<1>23. Grows(g, r.graph)
  <2>1. Grows(g, sourced.graph)
    BY <1>8, <1>12, WiringTrans, WiringGrows
  <2> QED BY <1>13, <2>1, GrowsTrans
<1> QED BY <1>15, <1>17, <1>21, <1>22, <1>23 DEF SourceLeft, m, r

\* A field that inject_ltxv_weights does not fill in.
LtxvLeft(g, i, k) ==
    /\ i = find_anchor(g, "LTXV_CHECKPOINT") => k # "ckpt_name"
    /\ i = find_anchor(g, "LTXV_TEXT_ENCODER") => k \notin {"ckpt_name", "text_encoder"}
    /\ g[i].class = "LTXVAudioVAELoader" /\ g[i].inputs = "object" => k # "ckpt_name"

\* inject_ltxv_weights settles the checkpoint, the text encoder and the audio VAEs.
LEMMA LtxvWeightsLoad ==
    ASSUME NEW g, IsGraph(g), NEW m, HasFiles(m), m.assets.ltxv_text_encoder # None,
           inject_ltxv_weights(g, m).err = "none",
           NEW F, FilesOf(m) \subseteq F, LTXV_AUDIO_VAE \in F,
           NEW i, NEW k, Left(inject_ltxv_weights(g, m).graph, F, i, k)
    PROVE  /\ HasAnchors(g, {"LTXV_CHECKPOINT", "LTXV_TEXT_ENCODER"})
           /\ Left(g, F, i, k) /\ LtxvLeft(g, i, k)
<1> DEFINE files == inject_ltxv_weights(g, m)
           ckpt == [ckpt_name |-> m.assets.checkpoint]
           encoder == [text_encoder |-> m.assets.ltxv_text_encoder]
           audio == [ckpt_name |-> LTXV_AUDIO_VAE]
           g1 == PatchAt(g, "LTXV_CHECKPOINT", ckpt)
           g2 == PatchAt(g1, "LTXV_TEXT_ENCODER", ckpt)
           g3 == PatchAt(g2, "LTXV_TEXT_ENCODER", encoder)
           nodes == OfClass(g3, "LTXVAudioVAELoader")
           g4 == PatchAll(g3, nodes, audio)
           there == CanFillAll(g, {"LTXV_CHECKPOINT", "LTXV_TEXT_ENCODER"})
<1>1. files = IF ~there THEN Raise("workflow") ELSE Ok(g4)
  BY DEF inject_ltxv_weights
<1>2. there /\ Left(g4, F, i, k)
  <2> HIDE DEF g4, there
  <2> QED BY <1>1 DEF Raise, Ok
<1>3. m.assets.checkpoint \in F /\ m.assets.ltxv_text_encoder \in F
  <2>1. "checkpoint" \in DOMAIN m.assets /\ "ltxv_text_encoder" \in DOMAIN m.assets
    BY FieldNames DEF HasFiles
  <2> QED BY <2>1, AssetIsFile DEF HasFiles
<1>4. /\ FilesAmong(ckpt, F) /\ FilesAmong(encoder, F) /\ FilesAmong(audio, F)
      /\ DOMAIN ckpt = {"ckpt_name"} /\ DOMAIN encoder = {"text_encoder"}
      /\ DOMAIN audio = {"ckpt_name"}
  BY <1>3 DEF FilesAmong
<1> HIDE DEF ckpt, encoder, audio, files, nodes
<1>5. SameWiring(g, g1) /\ IsGraph(g1)
  BY PatchAtWiring
<1>6. SameWiring(g1, g2) /\ IsGraph(g2)
  <2> HIDE DEF g1
  <2> QED BY <1>5, PatchAtWiring
<1>7. SameWiring(g2, g3) /\ IsGraph(g3)
  <2> HIDE DEF g2
  <2> QED BY <1>6, PatchAtWiring
<1>8. /\ Left(g3, F, i, k)
      /\ ~(g3[i].class = "LTXVAudioVAELoader" /\ g3[i].inputs = "object" /\ k = "ckpt_name")
  <2> HIDE DEF g3
  <2>1. Left(g3, F, i, k) /\ ~(i \in nodes /\ k \in DOMAIN audio)
    BY <1>2, <1>4, <1>7, PatchAllLeaves
  <2> QED BY <1>4, <2>1 DEF nodes, OfClass, Left
<1>9. Left(g2, F, i, k) /\ ~(i = find_anchor(g2, "LTXV_TEXT_ENCODER") /\ k = "text_encoder")
  <2> HIDE DEF g2
  <2> QED BY <1>4, <1>6, <1>8, PatchAtLeaves
<1>10. Left(g1, F, i, k) /\ ~(i = find_anchor(g1, "LTXV_TEXT_ENCODER") /\ k = "ckpt_name")
  <2> HIDE DEF g1
  <2> QED BY <1>4, <1>5, <1>9, PatchAtLeaves
<1>11. Left(g, F, i, k) /\ ~(i = find_anchor(g, "LTXV_CHECKPOINT") /\ k = "ckpt_name")
  BY <1>4, <1>10, PatchAtLeaves
<1> HIDE DEF g1, g2, g3, g4
<1>12. SameWiring(g, g2)
  BY <1>5, <1>6, WiringTrans
<1>13. SameWiring(g, g3)
  BY <1>7, <1>12, WiringTrans
<1>14. /\ find_anchor(g1, "LTXV_TEXT_ENCODER") = find_anchor(g, "LTXV_TEXT_ENCODER")
       /\ find_anchor(g2, "LTXV_TEXT_ENCODER") = find_anchor(g, "LTXV_TEXT_ENCODER")
  BY <1>5, <1>12, WiringAnchors
<1>15. g3[i].class = g[i].class /\ (g[i].inputs = "object" => g3[i].inputs = "object")
  BY <1>11, <1>13 DEF SameWiring, Left
<1>16. HasAnchors(g, {"LTXV_CHECKPOINT", "LTXV_TEXT_ENCODER"})
  BY <1>2, CanFillHas
<1> QED BY <1>8, <1>9, <1>10, <1>11, <1>14, <1>15, <1>16 DEF LtxvLeft

\* A patch of one anchor, if it raises nothing.
LEMMA PatchOrRaiseWiring ==
    ASSUME NEW g, IsGraph(g), NEW a, NEW new, PatchOrRaise(g, a, new).err = "none"
    PROVE  LET h == PatchOrRaise(g, a, new).graph IN
           /\ HasAnchor(g, a) /\ h = PatchAt(g, a, new)
           /\ SameWiring(g, h) /\ IsGraph(h)
BY PatchAtWiring DEF PatchOrRaise, CanFill, Raise, Ok

LEMMA PatchOrRaiseLeaves ==
    ASSUME NEW g, IsGraph(g), NEW a, NEW new, NEW F, FilesAmong(new, F),
           PatchOrRaise(g, a, new).err = "none",
           NEW i, NEW k, Left(PatchOrRaise(g, a, new).graph, F, i, k)
    PROVE  HasAnchor(g, a) /\ Left(g, F, i, k) /\ ~(i = find_anchor(g, a) /\ k \in DOMAIN new)
<1>1. HasAnchor(g, a) /\ Left(PatchAt(g, a, new), F, i, k)
  BY PatchOrRaiseWiring
<1> QED BY <1>1, PatchAtLeaves

\* What is left of the files of a template once an LTX video is built from it.
LEMMA LtxvLoads ==
    ASSUME NEW g, IsTemplate(g), NEW v, HasFiles(v.model),
           v.model.assets.ltxv_text_encoder # None,
           NEW seed, BuildLtxv(g, v, seed).err = "none",
           FilesUnderAnchors(g),
           Unrepeated(g, {"LTXV_CHECKPOINT", "LTXV_TEXT_ENCODER", "LTXV_VIDEO_VAE"}),
           NEW F, FilesOf(v.model) \subseteq F, LTXV_AUDIO_VAE \in F, LTXV_VIDEO_VAE \in F,
           NEW i, NEW k, Left(BuildLtxv(g, v, seed).graph, F, i, k)
    PROVE  i \in Owners(g, "INIT_IMAGE") /\ k = "image"
<1> DEFINE m == v.model
           Prompts(h) == IF ~CanFillAll(h, {"LTXV_POSITIVE", "LTXV_NEGATIVE"}) THEN Raise("key")
                         ELSE Ok(PatchAt(PatchAt(h, "LTXV_POSITIVE", [text |-> "prompt"]),
                                         "LTXV_NEGATIVE", [text |-> "negative"]))
           files == inject_ltxv_weights(g, m)
           weights == Then(files, inject_ltxv_video_vae)
           w == weights.graph
           positive == [text |-> "prompt"]
           negative == [text |-> "negative"]
           p == PatchAt(w, "LTXV_POSITIVE", positive)
           n == PatchAt(p, "LTXV_NEGATIVE", negative)
           prompts == Then(weights, Prompts)
           vae == [vae_name |-> LTXV_VIDEO_VAE]
           seeds == [seed |-> seed % SeedLimit]
           count == [value |-> v.frames]
           rate == [frame_rate |-> "fps"]
           seeded == Then(prompts, LAMBDA x : inject_ltxv_seed(x, seed))
           framed == Then(seeded, LAMBDA x : inject_ltxv_frames(x, v.frames))
           Rate(h) == IF Unfit(h, "LTXV_OUTPUT") THEN Raise("key")
                      ELSE Ok(PatchIfAny(h, "LTXV_OUTPUT", rate))
           r == BuildLtxv(g, v, seed)
<1>0. IsGraph(g)
  BY DEF IsTemplate
<1>1. /\ weights = IF files.err = "none" THEN PatchOrRaise(files.graph, "LTXV_VIDEO_VAE", vae)
                   ELSE files
      /\ prompts = IF weights.err # "none" THEN weights
                   ELSE IF ~CanFillAll(w, {"LTXV_POSITIVE", "LTXV_NEGATIVE"}) THEN Raise("key")
                   ELSE Ok(n)
      /\ seeded = IF prompts.err = "none" THEN PatchOrRaise(prompts.graph, "LTXV_SEED", seeds)
                  ELSE prompts
      /\ framed = IF seeded.err = "none" THEN PatchOrRaise(seeded.graph, "LTXV_FRAMES", count)
                  ELSE seeded
      /\ r = IF framed.err = "none" THEN Rate(framed.graph) ELSE framed
  BY DEF BuildLtxv, Then, inject_ltxv_video_vae, inject_ltxv_seed, inject_ltxv_frames
<1>2. r.err = "none" /\ Left(r.graph, F, i, k)
  OBVIOUS
<1>3. /\ DOMAIN vae = {"vae_name"} /\ FilesAmong(vae, F) /\ FilesAmong(positive, F)
      /\ FilesAmong(negative, F) /\ FilesAmong(seeds, F) /\ FilesAmong(count, F)
      /\ FilesAmong(rate, F)
  BY DEF FilesAmong, FileFields
<1> HIDE DEF r, framed, seeded, prompts, Prompts, Rate, weights, files, vae, positive, negative, seeds,
             count, rate, w, p, n
<1>4. framed.err = "none" /\ seeded.err = "none" /\ prompts.err = "none" /\ weights.err = "none"
      /\ files.err = "none"
  BY <1>1, <1>2
<1>5. /\ r = Ok(PatchIfAny(framed.graph, "LTXV_OUTPUT", rate))
      /\ framed = PatchOrRaise(seeded.graph, "LTXV_FRAMES", count)
      /\ seeded = PatchOrRaise(prompts.graph, "LTXV_SEED", seeds)
      /\ prompts = Ok(n)
      /\ weights = PatchOrRaise(files.graph, "LTXV_VIDEO_VAE", vae)
  BY <1>1, <1>2, <1>4 DEF Raise, Rate
<1>6. SameWiring(g, files.graph) /\ IsGraph(files.graph)
  BY <1>0, <1>4, LtxvWeightsWiring DEF Rewired, files
<1>7. IsGraph(w)
  BY <1>4, <1>5, <1>6, PatchOrRaiseWiring DEF w
<1>8. IsGraph(p) /\ IsGraph(n)
  <2>1. IsGraph(p)
    BY <1>7, PatchAtWiring DEF p
  <2> QED BY <2>1, PatchAtWiring DEF n
<1>9. prompts.graph = n
  BY <1>5 DEF Ok
<1>10. IsGraph(seeded.graph)
  BY <1>4, <1>5, <1>8, <1>9, PatchOrRaiseWiring
<1>11. IsGraph(framed.graph)
  BY <1>4, <1>5, <1>10, PatchOrRaiseWiring
<1>12. Left(PatchIfAny(framed.graph, "LTXV_OUTPUT", rate), F, i, k)
  BY <1>2, <1>5 DEF Ok
<1>13. Left(framed.graph, F, i, k)
  BY <1>3, <1>11, <1>12, PatchIfAnyLeaves
<1>14. Left(seeded.graph, F, i, k)
  BY <1>3, <1>4, <1>5, <1>10, <1>13, PatchOrRaiseLeaves
<1>15. Left(n, F, i, k)
  BY <1>3, <1>4, <1>5, <1>8, <1>9, <1>14, PatchOrRaiseLeaves
<1>16. Left(p, F, i, k)
  BY <1>3, <1>8, <1>15, PatchAtLeaves DEF n
<1>17. Left(w, F, i, k)
  BY <1>3, <1>7, <1>16, PatchAtLeaves DEF p
<1>18. /\ HasAnchor(files.graph, "LTXV_VIDEO_VAE") /\ Left(files.graph, F, i, k)
       /\ ~(i = find_anchor(files.graph, "LTXV_VIDEO_VAE") /\ k = "vae_name")
  BY <1>3, <1>4, <1>5, <1>6, <1>17, PatchOrRaiseLeaves DEF w
<1>19. /\ HasAnchors(g, {"LTXV_CHECKPOINT", "LTXV_TEXT_ENCODER"})
       /\ Left(g, F, i, k) /\ LtxvLeft(g, i, k)
  <2>1. /\ HasFiles(m) /\ FilesOf(m) \subseteq F /\ m.assets.ltxv_text_encoder # None
        /\ inject_ltxv_weights(g, m).err = "none"
        /\ Left(inject_ltxv_weights(g, m).graph, F, i, k)
    BY <1>4, <1>18 DEF files
  <2> HIDE DEF m
  <2> QED BY ONLY <1>0, <2>1, LTXV_AUDIO_VAE \in F, LtxvWeightsLoad
<1>20. /\ HasAnchor(g, "LTXV_VIDEO_VAE")
       /\ ~(i = find_anchor(g, "LTXV_VIDEO_VAE") /\ k = "vae_name")
  BY <1>6, <1>18, WiringAnchors
<1>21. i \in DOMAIN g /\ k \in DOMAIN g[i].vals \cap FileFields /\ g[i].inputs = "object"
  BY <1>19 DEF Left, IsTemplate
<1>22. HasAnchor(g, "LTXV_CHECKPOINT") /\ HasAnchor(g, "LTXV_TEXT_ENCODER")
  BY <1>19 DEF HasAnchors
<1>23. \A a \in {"LTXV_CHECKPOINT", "LTXV_TEXT_ENCODER", "LTXV_VIDEO_VAE"} :
          a \in g[i].anchors => i = find_anchor(g, a)
  BY <1>0, <1>20, <1>21, <1>22, AnchorFound DEF Unrepeated, Owners
<1>24. k \notin LtxvFiles(g[i])
  BY <1>19, <1>20, <1>21, <1>23 DEF LtxvLeft, LtxvFiles
<1>25. ~HasAnchor(g, "WAN_MODEL")
  BY <1>22 DEF FilesUnderAnchors
<1> QED BY <1>21, <1>22, <1>24, <1>25 DEF FilesUnderAnchors, FilesIn

\* A field that inject_video_weights does not fill in.
WanLeft(g, m, i, k) ==
    /\ i = find_anchor(g, "WAN_MODEL") =>
          k # WanField(g[i].class, "UNETLoader", "unet_name", "model")
    /\ HasAnchor(g, "WAN_MODEL_LOW") /\ i = find_anchor(g, "WAN_MODEL_LOW") =>
          k # WanField(g[i].class, "UNETLoader", "unet_name", "model")
    /\ i = find_anchor(g, "WAN_VAE") =>
          k # WanField(g[i].class, "VAELoader", "vae_name", "model_name")
    /\ i = find_anchor(g, "WAN_T5") =>
          k # WanField(g[i].class, "CLIPLoader", "clip_name", "model_name")
    /\ m.assets.wan_clip_vision # None /\ HasAnchor(g, "WAN_CLIP_VISION")
          /\ i = find_anchor(g, "WAN_CLIP_VISION") => k # "clip_name"

LEMMA WanUnetLeaves ==
    ASSUME NEW g, IsGraph(g), NEW a, NEW F, NEW file \in F,
           NEW i, NEW k, Left(WanUnet(g, a, file), F, i, k)
    PROVE  /\ Left(g, F, i, k)
           /\ i = find_anchor(g, a) => k # WanField(g[i].class, "UNETLoader", "unet_name", "model")
<1> DEFINE field == WanField(ClassAt(g, a), "UNETLoader", "unet_name", "model")
           new == [f \in {field} |-> file]
<1>1. DOMAIN new = {field} /\ FilesAmong(new, F)
  BY DEF FilesAmong
<1>2. Left(PatchAt(g, a, new), F, i, k)
  BY DEF WanUnet
<1> HIDE DEF new
<1>3. Left(g, F, i, k) /\ ~(i = find_anchor(g, a) /\ k = field)
  BY <1>1, <1>2, PatchAtLeaves
<1> QED BY <1>3 DEF ClassAt

\* The VAE file of a WAN graph.
LEMMA VaeFile ==
    ASSUME NEW m, NEW F, m.assets.vae \in F, NEW class
    PROVE  /\ FilesAmong(VaeVals(class, m), F)
           /\ WanField(class, "VAELoader", "vae_name", "model_name") \in DOMAIN VaeVals(class, m)
<1> DEFINE new == VaeVals(class, m)
<1>1. CASE class = "VAELoader"
  <2>1. new = [vae_name |-> m.assets.vae]
    BY <1>1 DEF VaeVals
  <2> HIDE DEF new
  <2>2. FilesAmong(new, F) /\ "vae_name" \in DOMAIN new
    BY <2>1 DEF FilesAmong
  <2> QED BY <1>1, <2>2 DEF WanField, new
<1>2. CASE class # "VAELoader"
  <2> DEFINE file == [model_name |-> m.assets.vae]
             precision == IF class = "WanVideoVAELoader" /\ m.vae_precision # None
                          THEN [precision |-> m.vae_precision] ELSE <<>>
  <2>1. new = Over(file, precision)
    BY <1>2 DEF VaeVals
  <2>2. DOMAIN precision \subseteq {"precision"}
    OBVIOUS
  <2>3. DOMAIN new = {"model_name"} \cup DOMAIN precision /\ new["model_name"] = m.assets.vae
    BY <2>1 DEF Over
  <2> HIDE DEF new, precision
  <2>4. FilesAmong(new, F) /\ "model_name" \in DOMAIN new
    BY <2>2, <2>3 DEF FilesAmong, FileFields
  <2> QED BY <1>2, <2>4 DEF WanField, new
<1> QED BY <1>1, <1>2

\* inject_video_weights settles the experts, the VAE, the text encoder and clip vision.
LEMMA VideoWeightsLoad ==
    ASSUME NEW g, IsGraph(g), NEW m, HasFiles(m), inject_video_weights(g, m).err = "none",
           NEW F, FilesOf(m) \subseteq F,
           NEW i, NEW k, Left(inject_video_weights(g, m).graph, F, i, k)
    PROVE  /\ HasAnchors(g, {"WAN_MODEL", "WAN_VAE", "WAN_T5"})
           /\ Left(g, F, i, k) /\ WanLeft(g, m, i, k)
<1> DEFINE low == HasAnchor(g, "WAN_MODEL_LOW")
           vae == VaeVals(ClassAt(g, "WAN_VAE"), m)
           field == WanField(ClassAt(g, "WAN_T5"), "CLIPLoader", "clip_name", "model_name")
           t5 == [f \in {field} |-> m.assets.wan_t5_encoder]
           clip == [clip_name |-> m.assets.wan_clip_vision]
           g1 == WanUnet(g, "WAN_MODEL", m.assets.checkpoint)
           g2 == IF low THEN WanUnet(g1, "WAN_MODEL_LOW", m.assets.wan_unet_low) ELSE g1
           g3 == PatchAt(g2, "WAN_VAE", vae)
           g4 == PatchAt(g3, "WAN_T5", t5)
           g5 == IF m.assets.wan_clip_vision = None THEN g4
                 ELSE PatchIfAny(g4, "WAN_CLIP_VISION", clip)
           r == inject_video_weights(g, m)
           anchored == CanFillAll(g, {"WAN_MODEL", "WAN_VAE", "WAN_T5"})
           missing == \/ ~anchored
                      \/ Bare(g, "WAN_MODEL_LOW") \/ Bare(g, "WAN_CLIP_VISION")
                      \/ low /\ m.assets.wan_unet_low = None
                      \/ None \in {m.assets.vae, m.assets.wan_t5_encoder}
<1>1. r = IF missing THEN Raise("workflow") ELSE Ok(g5)
  BY DEF inject_video_weights
<1>2. ~missing /\ Left(g5, F, i, k)
  <2> HIDE DEF g5, missing
  <2> QED BY <1>1 DEF Raise, Ok
<1>3. /\ m.assets.checkpoint \in F /\ m.assets.vae \in F /\ m.assets.wan_t5_encoder \in F
      /\ low => m.assets.wan_unet_low \in F
      /\ m.assets.wan_clip_vision # None => m.assets.wan_clip_vision \in F
  <2>1. {"checkpoint", "vae", "wan_t5_encoder", "wan_unet_low", "wan_clip_vision"}
           \subseteq DOMAIN m.assets
    BY FieldNames DEF HasFiles
  <2>2. \A f \in DOMAIN m.assets : m.assets[f] # None => m.assets[f] \in F
    BY AssetIsFile
  <2>3. /\ m.assets.checkpoint # None /\ m.assets.vae # None /\ m.assets.wan_t5_encoder # None
        /\ low => m.assets.wan_unet_low # None
    BY <1>2 DEF HasFiles
  <2> HIDE DEF low
  <2> QED BY <2>1, <2>2, <2>3
<1>4. /\ FilesAmong(vae, F)
      /\ WanField(ClassAt(g, "WAN_VAE"), "VAELoader", "vae_name", "model_name") \in DOMAIN vae
  BY <1>3, VaeFile
<1>5. /\ FilesAmong(t5, F) /\ DOMAIN t5 = {field}
      /\ m.assets.wan_clip_vision # None => FilesAmong(clip, F)
      /\ DOMAIN clip = {"clip_name"}
  BY <1>3 DEF FilesAmong
<1> HIDE DEF vae, t5, clip, field, missing, r
<1>6. SameWiring(g, g1) /\ IsGraph(g1)
  BY WanUnetWiring
<1>7. SameWiring(g1, g2) /\ IsGraph(g2)
  <2> HIDE DEF g1
  <2> QED BY <1>6, WanUnetWiring, WiringRefl
<1>8. SameWiring(g2, g3) /\ IsGraph(g3)
  <2> HIDE DEF g2
  <2> QED BY <1>7, PatchAtWiring
<1>9. SameWiring(g3, g4) /\ IsGraph(g4)
  <2> HIDE DEF g3
  <2> QED BY <1>8, PatchAtWiring
<1>10. /\ Left(g4, F, i, k)
       /\ ~(/\ m.assets.wan_clip_vision # None /\ CanFill(g4, "WAN_CLIP_VISION")
            /\ i = find_anchor(g4, "WAN_CLIP_VISION") /\ k = "clip_name")
  <2> HIDE DEF g4
  <2> QED BY <1>2, <1>5, <1>9, PatchIfAnyLeaves
<1>11. Left(g3, F, i, k) /\ ~(i = find_anchor(g3, "WAN_T5") /\ k = field)
  <2> HIDE DEF g3
  <2> QED BY <1>5, <1>8, <1>10, PatchAtLeaves
<1>12. Left(g2, F, i, k) /\ ~(i = find_anchor(g2, "WAN_VAE") /\ k \in DOMAIN vae)
  <2> HIDE DEF g2
  <2> QED BY <1>4, <1>7, <1>11, PatchAtLeaves
<1>13. /\ Left(g1, F, i, k)
       /\ low /\ i = find_anchor(g1, "WAN_MODEL_LOW") =>
             k # WanField(g1[i].class, "UNETLoader", "unet_name", "model")
  <2> HIDE DEF g1, low
  <2> QED BY <1>3, <1>6, <1>12, WanUnetLeaves
<1>14. /\ Left(g, F, i, k)
       /\ i = find_anchor(g, "WAN_MODEL") =>
             k # WanField(g[i].class, "UNETLoader", "unet_name", "model")
  BY <1>3, <1>13, WanUnetLeaves
<1> HIDE DEF g1, g2, g3, g4, g5
<1>15. SameWiring(g, g2)
  BY <1>6, <1>7, WiringTrans
<1>16. SameWiring(g, g3)
  BY <1>8, <1>15, WiringTrans
<1>17. SameWiring(g, g4)
  BY <1>9, <1>16, WiringTrans
<1>18. /\ find_anchor(g1, "WAN_MODEL_LOW") = find_anchor(g, "WAN_MODEL_LOW")
       /\ find_anchor(g2, "WAN_VAE") = find_anchor(g, "WAN_VAE")
       /\ find_anchor(g3, "WAN_T5") = find_anchor(g, "WAN_T5")
       /\ find_anchor(g4, "WAN_CLIP_VISION") = find_anchor(g, "WAN_CLIP_VISION")
  BY <1>6, <1>15, <1>16, <1>17, WiringAnchors
<1>19. g1[i].class = g[i].class
  BY <1>6, <1>14 DEF SameWiring, Left
<1>20. HasAnchors(g, {"WAN_MODEL", "WAN_VAE", "WAN_T5"})
  BY <1>2, CanFillHas DEF missing
<1>24. HasAnchor(g, "WAN_CLIP_VISION") => CanFill(g4, "WAN_CLIP_VISION")
  <2>1. HasAnchor(g, "WAN_CLIP_VISION") => CanFill(g, "WAN_CLIP_VISION")
    BY <1>2 DEF missing, Bare, CanFill
  <2> QED BY <1>17, <2>1, WiringCanFill
<1>21. /\ i = find_anchor(g, "WAN_VAE") =>
             k # WanField(g[i].class, "VAELoader", "vae_name", "model_name")
       /\ i = find_anchor(g, "WAN_T5") =>
             k # WanField(g[i].class, "CLIPLoader", "clip_name", "model_name")
  BY <1>4, <1>11, <1>12, <1>18 DEF ClassAt, field
<1>22. low /\ i = find_anchor(g, "WAN_MODEL_LOW") =>
          k # WanField(g[i].class, "UNETLoader", "unet_name", "model")
  <2> HIDE DEF low
  <2> QED BY <1>13, <1>18, <1>19
<1>23. WanLeft(g, m, i, k)
  <2> HIDE DEF anchored
  <2> QED BY <1>10, <1>14, <1>18, <1>21, <1>22, <1>24 DEF WanLeft
<1> QED BY <1>14, <1>20, <1>23

\* A field that inject_mmaudio_weights does not fill in.
MmaudioLeft(g, i, k) ==
    HasAnchor(g, "MMAUDIO_FEATURE_UTILS") =>
        /\ HasAnchor(g, "MMAUDIO_DIFFUSION")
        /\ i = find_anchor(g, "MMAUDIO_FEATURE_UTILS") =>
              k \notin {"vae_model", "clip_model", "synchformer_model"}
        /\ i = find_anchor(g, "MMAUDIO_DIFFUSION") => k # "mmaudio_model"

LEMMA MmaudioLoads ==
    ASSUME NEW g, IsGraph(g), NEW m, HasFiles(m), inject_mmaudio_weights(g, m).err = "none",
           NEW F, FilesOf(m) \subseteq F,
           NEW i, NEW k, Left(inject_mmaudio_weights(g, m).graph, F, i, k)
    PROVE  Left(g, F, i, k) /\ MmaudioLeft(g, i, k)
<1> DEFINE utils == [vae_model |-> m.mmaudio.vae, clip_model |-> m.mmaudio.clip,
                     synchformer_model |-> m.mmaudio.synchformer]
           model == [mmaudio_model |-> m.mmaudio.diffusion]
           g1 == PatchAt(g, "MMAUDIO_FEATURE_UTILS", utils)
           g2 == PatchAt(g1, "MMAUDIO_DIFFUSION", model)
           r == inject_mmaudio_weights(g, m)
<1>1. r = IF ~HasAnchor(g, "MMAUDIO_FEATURE_UTILS") THEN Ok(g)
          ELSE IF \/ None \in Range(m.mmaudio)
                  \/ ~CanFillAll(g, {"MMAUDIO_FEATURE_UTILS", "MMAUDIO_DIFFUSION"})
          THEN Raise("workflow") ELSE Ok(g2)
  BY DEF inject_mmaudio_weights
<1>2. CASE ~HasAnchor(g, "MMAUDIO_FEATURE_UTILS")
  <2>1. r.graph = g
    BY <1>1, <1>2 DEF Ok
  <2> QED BY <1>2, <2>1 DEF MmaudioLeft
<1>3. CASE HasAnchor(g, "MMAUDIO_FEATURE_UTILS")
  <2>1. /\ None \notin Range(m.mmaudio) /\ HasAnchor(g, "MMAUDIO_DIFFUSION")
        /\ Left(g2, F, i, k)
    <3> HIDE DEF g2
    <3> QED BY <1>1, <1>3 DEF CanFillAll, CanFill, Raise, Ok
  <2>2. \A f \in DOMAIN m.mmaudio : m.mmaudio[f] \in F
    BY <2>1, MmaudioIsFile DEF Range
  <2>3. {"vae", "synchformer", "clip", "diffusion"} = DOMAIN m.mmaudio
    BY FieldNames DEF HasFiles
  <2>4. m.mmaudio.vae \in F /\ m.mmaudio.clip \in F /\ m.mmaudio.synchformer \in F
        /\ m.mmaudio.diffusion \in F
    BY <2>2, <2>3
  <2>5. /\ FilesAmong(utils, F) /\ FilesAmong(model, F) /\ DOMAIN model = {"mmaudio_model"}
        /\ DOMAIN utils = {"vae_model", "clip_model", "synchformer_model"}
    BY <2>4 DEF FilesAmong
  <2> HIDE DEF utils, model
  <2>6. SameWiring(g, g1) /\ IsGraph(g1)
    BY PatchAtWiring
  <2>7. Left(g1, F, i, k) /\ ~(i = find_anchor(g1, "MMAUDIO_DIFFUSION") /\ k = "mmaudio_model")
    <3> HIDE DEF g1
    <3> QED BY <2>1, <2>5, <2>6, PatchAtLeaves
  <2>8. /\ Left(g, F, i, k)
        /\ ~(i = find_anchor(g, "MMAUDIO_FEATURE_UTILS")
             /\ k \in {"vae_model", "clip_model", "synchformer_model"})
    BY <2>5, <2>7, PatchAtLeaves
  <2>9. find_anchor(g1, "MMAUDIO_DIFFUSION") = find_anchor(g, "MMAUDIO_DIFFUSION")
    BY <2>6, WiringAnchors
  <2> HIDE DEF g1
  <2> QED BY <2>1, <2>7, <2>8, <2>9 DEF MmaudioLeft
<1> QED BY <1>2, <1>3

\* The options of a request name no files.
LEMMA AdvancedAddsNoFile ==
    ASSUME NEW h, IsGraph(h), NEW adv, NEW task,
           apply_wan_advanced_patches(h, adv, task).err = "none"
    PROVE  AddsNoFile(h, apply_wan_advanced_patches(h, adv, task).graph)
<1> DEFINE groups == (adv \cap DOMAIN AdvancedGroups)
                        \ (IF task = "i2v" THEN {} ELSE {"encode", "clip_encode"})
           reached == {x \in groups : /\ HasAnchor(h, AdvancedGroups[x])
                                      /\ Knows(ClassAt(h, AdvancedGroups[x]), x)}
           here(i) == {y \in reached : find_anchor(h, AdvancedGroups[y]) = i}
           vals(i) == Over([x \in here(i) |-> "requested"], h[i].vals)
           e == [i \in DOMAIN h |-> [h[i] EXCEPT !.vals = vals(i)]]
           r == apply_wan_advanced_patches(h, adv, task)
           missing == \/ \E x \in groups \cap MustHaveAnchor : ~HasAnchor(h, AdvancedGroups[x])
                      \/ \E x \in reached : Bare(h, AdvancedGroups[x])
<1>1. r = IF missing THEN Raise("workflow") ELSE Ok(e)
  BY DEF apply_wan_advanced_patches
<1>2. r.graph = e
  <2> HIDE DEF missing, e
  <2> QED BY <1>1 DEF Raise, Ok
<1>3. \A i : here(i) \cap FileFields = {}
  <2>1. DOMAIN AdvancedGroups \cap FileFields = {}
    BY DEF AdvancedGroups, FileFields
  <2> HIDE DEF reached
  <2>2. reached \subseteq DOMAIN AdvancedGroups
    BY DEF reached
  <2> QED BY <2>1, <2>2
<1> HIDE DEF here, r, missing, reached, groups
<1>4. ASSUME NEW i \in DOMAIN h, NEW k \in DOMAIN vals(i), k \in FileFields
      PROVE  k \in DOMAIN h[i].vals /\ vals(i)[k] = h[i].vals[k]
  <2> DEFINE new == [x \in here(i) |-> "requested"]
  <2>1. DOMAIN new = here(i) /\ vals(i) = Over(new, h[i].vals)
    OBVIOUS
  <2> HIDE DEF new, vals
  <2> QED BY <1>3, <1>4, <2>1 DEF Over
<1> HIDE DEF vals
<1>5. \A i \in DOMAIN h : e[i].vals = vals(i)
  <2> SUFFICES ASSUME NEW i \in DOMAIN h PROVE e[i].vals = vals(i)
    OBVIOUS
  <2>1. DOMAIN h[i] = NodeFields /\ e[i] = [h[i] EXCEPT !.vals = vals(i)]
    BY DEF IsGraph, NodeFields
  <2> HIDE DEF e
  <2> QED BY <2>1 DEF NodeFields
<1>6. DOMAIN e = DOMAIN h
  OBVIOUS
<1> HIDE DEF e
<1>7. AddsNoFile(h, e)
  BY <1>4, <1>5, <1>6 DEF AddsNoFile
<1> QED BY <1>2, <1>7 DEF r

\* The weights, the LoRAs and the options of a WAN graph.
LEMMA WanWeightsLoad ==
    ASSUME NEW g, IsGraph(g), NEW v, NEW S, v.loras \in Seq(S), HasFiles(v.model), NEW task,
           WanWeights(g, v, task).err = "none", NEW F, FilesOf(v.model) \subseteq F,
           NEW i, NEW k, Left(WanWeights(g, v, task).graph, F, i, k)
    PROVE  /\ HasAnchors(g, {"WAN_MODEL", "WAN_VAE", "WAN_T5"})
           /\ Left(g, F, i, k) /\ WanLeft(g, v.model, i, k) /\ MmaudioLeft(g, i, k)
<1> DEFINE m == v.model
           files == inject_video_weights(g, m)
           audio == inject_mmaudio_weights(files.graph, m)
           weights == Then(files, LAMBDA h : inject_mmaudio_weights(h, m))
           chained == IF IsCore(g) THEN inject_wan_core_loras(weights.graph, v.loras)
                      ELSE inject_wan_lora_multi(weights.graph, v.loras, v.wan_advanced)
           loras == Then(weights, LAMBDA h :
                        IF IsCore(g) THEN inject_wan_core_loras(h, v.loras)
                        ELSE inject_wan_lora_multi(h, v.loras, v.wan_advanced))
           patched == apply_wan_advanced_patches(loras.graph, v.wan_advanced, task)
           r == WanWeights(g, v, task)
<1>1. /\ weights = IF files.err = "none" THEN audio ELSE files
      /\ loras = IF weights.err = "none" THEN chained ELSE weights
      /\ r = IF loras.err = "none" THEN patched ELSE loras
  BY DEF WanWeights, Then
<1>2. r.err = "none" /\ Left(r.graph, F, i, k)
  OBVIOUS
<1> HIDE DEF files, audio, weights, chained, loras, patched, r
<1>3. /\ loras.err = "none" /\ weights.err = "none" /\ files.err = "none"
      /\ r = patched /\ loras = chained /\ weights = audio
  BY <1>1, <1>2
<1>4. SameWiring(g, files.graph) /\ IsGraph(files.graph)
  BY <1>3, VideoWeightsInjected DEF Rewired, files
<1>5. IsGraph(weights.graph)
  <2>1. Rewired(files.graph, audio)
    BY <1>4, MmaudioWeightsInjected DEF audio
  <2> QED BY <1>3, <2>1 DEF Rewired
<1>6. IsGraph(loras.graph) /\ AddsNoFile(weights.graph, loras.graph)
  <2>1. CASE IsCore(g)
    <3>1. chained = inject_wan_core_loras(weights.graph, v.loras)
      BY <2>1 DEF chained
    <3>2. Sound(weights.graph, WanSources, chained)
      BY <1>5, <3>1, AllCoreLorasAreSpliced
    <3>3. AddsNoFile(weights.graph, chained.graph)
      BY <1>3, <1>5, <3>1, AllCoreLorasGrow
    <3> QED BY <1>3, <3>2, <3>3 DEF Sound
  <2>2. CASE ~IsCore(g)
    <3>1. chained = inject_wan_lora_multi(weights.graph, v.loras, v.wan_advanced)
      BY <2>2 DEF chained
    <3>2. Sound(weights.graph, {}, chained)
      BY <1>5, <3>1, LoraMultiIsSound
    <3>3. AddsNoFile(weights.graph, chained.graph)
      BY <1>3, <1>5, <3>1, LoraMultiGrows
    <3> QED BY <1>3, <3>2, <3>3 DEF Sound
  <2> QED BY <2>1, <2>2
<1>7. AddsNoFile(loras.graph, patched.graph)
  BY <1>2, <1>3, <1>6, AdvancedAddsNoFile DEF patched
<1>8. Left(audio.graph, F, i, k)
  BY <1>2, <1>3, <1>6, <1>7, AddsNoFileLeaves
<1>9. Left(files.graph, F, i, k) /\ MmaudioLeft(files.graph, i, k)
  <2>1. /\ HasFiles(m) /\ FilesOf(m) \subseteq F /\ inject_mmaudio_weights(files.graph, m).err = "none"
        /\ Left(inject_mmaudio_weights(files.graph, m).graph, F, i, k)
    BY <1>3, <1>8 DEF audio
  <2> HIDE DEF m
  <2> QED BY ONLY <1>4, <2>1, MmaudioLoads
<1>10. /\ HasAnchors(g, {"WAN_MODEL", "WAN_VAE", "WAN_T5"})
       /\ Left(g, F, i, k) /\ WanLeft(g, m, i, k)
  <2>1. /\ HasFiles(m) /\ FilesOf(m) \subseteq F /\ inject_video_weights(g, m).err = "none"
        /\ Left(inject_video_weights(g, m).graph, F, i, k)
    BY <1>3, <1>9 DEF files
  <2> HIDE DEF m
  <2> QED BY ONLY IsGraph(g), <2>1, VideoWeightsLoad
<1>11. MmaudioLeft(g, i, k)
  BY <1>4, <1>9, WiringAnchors DEF MmaudioLeft
<1> QED BY <1>10, <1>11

\* Patches of values that name no files.
LEMMA PatchAtAddsNoFile ==
    ASSUME NEW g, IsGraph(g), NEW a, NEW new, DOMAIN new \cap FileFields = {}
    PROVE  AddsNoFile(g, PatchAt(g, a, new))
BY PatchAddsNoFile DEF PatchAt

LEMMA PatchIfAnyAddsNoFile ==
    ASSUME NEW g, IsGraph(g), NEW a, NEW new, DOMAIN new \cap FileFields = {}
    PROVE  AddsNoFile(g, PatchIfAny(g, a, new))
BY PatchAtAddsNoFile, GrowsRefl DEF PatchIfAny

LEMMA WanPromptsAddNoFile ==
    ASSUME NEW g, IsGraph(g)
    PROVE  AddsNoFile(g, WanPrompts(g))
<1> DEFINE both == [positive_prompt |-> "prompt", negative_prompt |-> "negative"]
           p == [text |-> "prompt"]
           n == [text |-> "negative"]
           old == PatchAt(g, "WAN_PROMPTS", both)
           g1 == PatchAt(g, "WAN_POSITIVE", p)
           g2 == PatchAt(g1, "WAN_NEGATIVE", n)
           r == WanPrompts(g)
<1>1. r = old \/ r = g2
  BY DEF WanPrompts
<1>2. /\ DOMAIN both \cap FileFields = {} /\ DOMAIN p \cap FileFields = {}
      /\ DOMAIN n \cap FileFields = {}
  BY DEF FileFields
<1> HIDE DEF both, p, n
<1>3. AddsNoFile(g, old) /\ AddsNoFile(g, g1) /\ IsGraph(g1)
  BY <1>2, PatchAtAddsNoFile, PatchAtWiring
<1> HIDE DEF old, g1
<1>4. AddsNoFile(g1, g2)
  BY <1>2, <1>3, PatchAtAddsNoFile
<1> HIDE DEF g2, r
<1>5. AddsNoFile(g, r)
  BY <1>1, <1>3, <1>4, AddsNoFileTrans
<1> QED BY <1>5 DEF r

LEMMA WanDimsAddNoFile ==
    ASSUME NEW g, IsGraph(g), NEW v
    PROVE  AddsNoFile(g, WanDims(g, v))
<1> DEFINE size == [pixels |-> v.pixels]
           length == [f \in {LengthField(ClassAt(g, "WAN_DIMS"))} |-> v.frames]
           new == Over(size, length)
<1>1. DOMAIN new \cap FileFields = {}
  BY DEF Over, LengthField, FileFields
<1> HIDE DEF new
<1>2. WanDims(g, v) = PatchAt(g, "WAN_DIMS", new)
  BY DEF WanDims, new
<1> QED BY <1>1, <1>2, PatchAtAddsNoFile

LEMMA WanSamplerAddsNoFile ==
    ASSUME NEW g, IsGraph(g), NEW v, NEW seed
    PROVE  AddsNoFile(g, WanSampler(g, v, seed))
<1> DEFINE plan == [noise_seed |-> seed, steps |-> v.steps, scheduler |-> CoreScheduler(v.scheduler)]
           half == half_steps(v.steps)
           until == Over([end_at_step |-> half], plan)
           since == Over([start_at_step |-> half], plan)
           shift == [shift |-> "shift"]
           single == [seed |-> seed, steps |-> v.steps, scheduler |-> v.scheduler]
           first == PatchAt(g, "WAN_SAMPLER", until)
           shifted == PatchIfAny(first, "WAN_SHIFT", shift)
           second == PatchIfAny(shifted, "WAN_NAG_SAMPLER", since)
           one == PatchAt(g, "WAN_SAMPLER", single)
           r == WanSampler(g, v, seed)
<1>1. r = second \/ r = one
  BY DEF WanSampler
<1>2. /\ DOMAIN until \cap FileFields = {} /\ DOMAIN since \cap FileFields = {}
      /\ DOMAIN shift \cap FileFields = {} /\ DOMAIN single \cap FileFields = {}
  BY DEF Over, FileFields
<1> HIDE DEF plan, half, until, since, shift, single
<1>3. AddsNoFile(g, first) /\ IsGraph(first) /\ AddsNoFile(g, one)
  BY <1>2, PatchAtAddsNoFile, PatchAtWiring
<1> HIDE DEF first, one
<1>4. AddsNoFile(first, shifted) /\ IsGraph(shifted)
  BY <1>2, <1>3, PatchIfAnyAddsNoFile, PatchIfAnyWiring
<1> HIDE DEF shifted
<1>5. AddsNoFile(shifted, second)
  BY <1>2, <1>4, PatchIfAnyAddsNoFile
<1> HIDE DEF second, r
<1>6. AddsNoFile(g, shifted)
  BY <1>3, <1>4, AddsNoFileTrans
<1>7. AddsNoFile(g, r)
  BY <1>1, <1>3, <1>5, <1>6, AddsNoFileTrans
<1> QED BY <1>7 DEF r

\* What a WAN graph has under its anchors that the pipeline does not fill in is the init
\* image, or an image of its own.
LEMMA WanLoads ==
    ASSUME NEW g, IsGraph(g), NEW v, NEW S, v.loras \in Seq(S), HasFiles(v.model), NEW task,
           NEW seed, BuildWan(g, v, task, seed).err = "none",
           FilesUnderAnchors(g),
           Unrepeated(g, {"WAN_MODEL", "WAN_MODEL_LOW", "WAN_VAE", "WAN_T5"}),
           HasAnchor(g, "WAN_CLIP_VISION") => v.model.assets.wan_clip_vision # None,
           NEW F, FilesOf(v.model) \subseteq F,
           NEW i, NEW k, Left(BuildWan(g, v, task, seed).graph, F, i, k)
    PROVE  /\ Grows(g, BuildWan(g, v, task, seed).graph) /\ i \in DOMAIN g /\ k = "image"
           /\ i \in Owners(g, "INIT_IMAGE") \/ ~HasAnchor(g, "INIT_IMAGE")
<1> DEFINE m == v.model
           prompts == IF IsCore(g) THEN {"WAN_POSITIVE", "WAN_NEGATIVE"} ELSE {"WAN_PROMPTS"}
           rate == [frame_rate |-> "fps"]
           audio == [frames |-> v.frames, seed |-> seed]
           weights == WanWeights(g, v, task)
           h == weights.graph
           h1 == WanPrompts(h)
           h2 == WanDims(h1, v)
           h3 == WanSampler(h2, v, seed)
           h4 == PatchIfAny(h3, "VIDEO_OUTPUT", rate)
           h5 == PatchIfAny(h4, "MMAUDIO_SAMPLER", audio)
           blocked == \/ ~CanFillAll(h, prompts \cup {"WAN_DIMS", "WAN_SAMPLER"})
                      \/ \E a \in WanOptional(h) : Unfit(h, a)
           r == BuildWan(g, v, task, seed)
<1>1. r = IF weights.err = "none" THEN (IF blocked THEN Raise("key") ELSE Ok(h5)) ELSE weights
  BY DEF BuildWan, Then
<1>2. weights.err = "none" /\ ~blocked /\ Left(h5, F, i, k) /\ r.graph = h5
  <2> HIDE DEF weights, blocked, h5
  <2> QED BY <1>1 DEF Raise, Ok
<1>3. ~IsCore(g) => HasAnchor(h, "WAN_PROMPTS")
  BY <1>2 DEF CanFillAll, CanFill
<1>4. Grows(g, h) /\ IsGraph(h)
  BY <1>2, WanWeightsGrow
<1>5. DOMAIN rate \cap FileFields = {} /\ DOMAIN audio \cap FileFields = {}
  BY DEF FileFields
<1> HIDE DEF weights, h, blocked, prompts, rate, audio, r
<1>6. AddsNoFile(h, h1) /\ SameWiring(h, h1) /\ IsGraph(h1)
  BY <1>4, WanPromptsAddNoFile, WanPromptsWiring
<1> HIDE DEF h1
<1>7. AddsNoFile(h1, h2) /\ SameWiring(h1, h2) /\ IsGraph(h2)
  BY <1>6, WanDimsAddNoFile, PatchAtWiring DEF WanDims
<1> HIDE DEF h2
<1>8. AddsNoFile(h2, h3) /\ SameWiring(h2, h3) /\ IsGraph(h3)
  BY <1>7, WanSamplerAddsNoFile, WanSamplerWiring
<1> HIDE DEF h3
<1>9. AddsNoFile(h3, h4) /\ SameWiring(h3, h4) /\ IsGraph(h4)
  BY <1>5, <1>8, PatchIfAnyAddsNoFile, PatchIfAnyWiring
<1> HIDE DEF h4
<1>10. AddsNoFile(h4, h5) /\ SameWiring(h4, h5)
  BY <1>5, <1>9, PatchIfAnyAddsNoFile, PatchIfAnyWiring
<1> HIDE DEF h5
<1>11. Left(h, F, i, k)
  BY <1>2, <1>6, <1>7, <1>8, <1>9, <1>10, AddsNoFileLeaves
<1>12. /\ HasAnchors(g, {"WAN_MODEL", "WAN_VAE", "WAN_T5"})
       /\ Left(g, F, i, k) /\ WanLeft(g, m, i, k) /\ MmaudioLeft(g, i, k)
  <2>1. /\ HasFiles(m) /\ FilesOf(m) \subseteq F /\ WanWeights(g, v, task).err = "none"
        /\ Left(WanWeights(g, v, task).graph, F, i, k)
    BY <1>2, <1>11 DEF h, weights
  <2> QED BY ONLY IsGraph(g), v.loras \in Seq(S), <2>1, WanWeightsLoad DEF m
<1>13. i \in DOMAIN g /\ k \in DOMAIN g[i].vals \cap FileFields
  BY <1>12 DEF Left
<1>14. HasAnchor(g, "WAN_MODEL") /\ HasAnchor(g, "WAN_VAE") /\ HasAnchor(g, "WAN_T5")
  BY <1>12 DEF HasAnchors
<1>15. \A a : a \in g[i].anchors => HasAnchor(g, a)
  BY <1>13 DEF HasAnchor, Owners
<1>16. \A a \in {"WAN_MODEL", "WAN_MODEL_LOW", "WAN_VAE", "WAN_T5", "WAN_CLIP_VISION",
                 "MMAUDIO_FEATURE_UTILS", "MMAUDIO_DIFFUSION"} :
          a \in g[i].anchors => i = find_anchor(g, a)
  BY <1>13, <1>15, AnchorFound DEF FilesUnderAnchors, Unrepeated, Owners
<1>17. "MMAUDIO_DIFFUSION" \in g[i].anchors => HasAnchor(g, "MMAUDIO_FEATURE_UTILS")
  BY <1>15 DEF FilesUnderAnchors
<1>18. k \notin WanFiles(g[i])
  BY <1>12, <1>15, <1>16, <1>17 DEF WanLeft, MmaudioLeft, WanFiles
<1>19. IsCore(g) \/ HasAnchor(g, "WAN_PROMPTS")
  BY <1>3, <1>4, GrowsAnchors
<1>20. FilesIn(g, WanFiles)
  BY <1>14, <1>19 DEF FilesUnderAnchors
<1>21. Grows(g, h5)
  <2>1. SameWiring(h, h3)
    BY <1>6, <1>7, <1>8, WiringTrans
  <2>2. SameWiring(h, h5)
    BY <1>9, <1>10, <2>1, WiringTrans
  <2> QED BY <1>4, <2>2, WiringGrows, GrowsTrans
<1> QED BY <1>2, <1>13, <1>18, <1>20, <1>21 DEF FilesIn, r

\* An anchor that load_registry has found on one node is on no other.
LEMMA RequiredAreUnrepeated ==
    ASSUME NEW g, IsGraph(g), NEW required, validate_anchors(g, required),
           NEW as, as \subseteq required
    PROVE  Unrepeated(g, as)
<1> SUFFICES ASSUME NEW a \in as, NEW i \in Owners(g, a), NEW k \in Owners(g, a)
             PROVE  i = k
  BY DEF Unrepeated
<1>1. Cardinality(Owners(g, a)) = 1
  BY DEF validate_anchors
<1>2. IsFiniteSet(Owners(g, a))
  <2>1. IsFiniteSet(DOMAIN g) /\ Owners(g, a) \subseteq DOMAIN g
    BY DEF IsGraph, Owners
  <2> QED BY <2>1, FS_Subset
<1>3. \E x : Owners(g, a) = {x}
  BY <1>1, <1>2, FS_Singleton
<1> QED BY <1>3

\* The image pipeline needs a source for the model and one for the clip.
LEMMA ImageNeedsSources ==
    ASSUME NEW g, IsGraph(g), NEW v, NEW S, v.loras \in Seq(S), NEW seed,
           BuildImage(g, v, seed).err = "none"
    PROVE  HasAnchors(g, {"MODEL_SOURCE", "CLIP_SOURCE"})
<1> DEFINE m == v.model
           latents == {n \in DOMAIN g : g[n].class = "EmptyLatentImage"}
           p == PatchAt(g, "POSITIVE_PROMPT", [text |-> "prompt"])
           g1 == PatchAt(p, "NEGATIVE_PROMPT", [text |-> "negative"])
           sampling == [seed |-> seed, steps |-> v.steps, sampler_name |-> v.sampler,
                        scheduler |-> v.scheduler]
           g2 == PatchAt(g1, "KSAMPLER", sampling)
           size == [pixels |-> v.pixels, batch_size |-> v.n]
           g3 == IF latents = {} THEN g2 ELSE Patch(g2, Min(latents), size)
           sourced == inject_model_source(g3, m)
           checked == Then(sourced, LAMBDA h : inject_vpred(h, m))
           chained == inject_loras(checked.graph, v.loras)
           blocked == \/ ~CanFillAll(g, {"POSITIVE_PROMPT", "NEGATIVE_PROMPT", "KSAMPLER"})
                      \/ latents # {} /\ g[Min(latents)].inputs # "object"
           r == BuildImage(g, v, seed)
<1>1. r = IF blocked THEN Raise("key")
          ELSE IF checked.err = "none" THEN chained ELSE checked
  BY DEF BuildImage, Then
<1>2. checked = IF sourced.err = "none" THEN inject_vpred(sourced.graph, m) ELSE sourced
  BY DEF Then
<1> HIDE DEF sampling, size, latents, blocked
<1>3. SameWiring(g, p) /\ IsGraph(p)
  BY PatchAtWiring
<1> HIDE DEF p
<1>4. SameWiring(p, g1) /\ IsGraph(g1)
  BY <1>3, PatchAtWiring
<1> HIDE DEF g1
<1>5. SameWiring(g1, g2) /\ IsGraph(g2)
  BY <1>4, PatchAtWiring
<1> HIDE DEF g2
<1>6. SameWiring(g2, g3)
  BY <1>5, PatchWiring, WiringRefl
<1> HIDE DEF g3
<1>7. SameWiring(g, g3)
  BY <1>3, <1>4, <1>5, <1>6, WiringTrans
<1> HIDE DEF sourced, checked, chained, r
<1>8. r.err = "none"
  BY DEF r
<1>9. sourced.err = "none"
  BY <1>1, <1>2, <1>8 DEF Raise
<1>10. HasAnchors(g3, {"MODEL_SOURCE", "CLIP_SOURCE"})
  BY <1>9, CanFillHas DEF sourced, inject_model_source, Raise
<1> QED BY <1>7, <1>10, WiringAnchors DEF HasAnchors

\* A file that the worker may name whatever the model.
FixedFiles == {LTXV_AUDIO_VAE, LTXV_VIDEO_VAE, "upload"}

\* The job obeys a model of version s, and g is its template there.
FromVersion(s, g) ==
    /\ s \in DOMAIN Disks /\ Loaded[s].stage = "ok"
    /\ \E n \in DOMAIN ModelsOf(s) : job.validated.model = ModelsOf(s)[n]
    /\ \E d \in DOMAIN Disks : JobObeys(job.req, job.validated, Disks[d].loras)
    /\ g = Disks[s].templates[job.validated.workflow]

\* Field k of node i is a VAE the model does not configure, or an image of the template
\* that the init image of the job, if it has one, replaces when it has been uploaded.
StillNamed(g, h, i, k) ==
    /\ IsGraph(g) /\ Grows(g, h) /\ i \in DOMAIN g /\ FilesUnderAnchors(g)
    /\ \/ g[i].class = "VAELoader" /\ job.validated.model.assets.vae = None
       \/ k = "image" /\ (job.validated.init_image => i \in Owners(g, "INIT_IMAGE"))

\* What the worker builds from a template as it was when the registry was loaded loads
\* the files of the model, but for those.
LEMMA TemplateLoads ==
    ASSUME PreparationAssumption, job.req \in Requests, NEW s, NEW g, FromVersion(s, g),
           Fits(g, job.validated.model), NEW seed, Graph(g, seed).err = "none",
           NEW F, FilesOf(job.validated.model) \cup FixedFiles \subseteq F,
           NEW i, NEW k, Left(Graph(g, seed).graph, F, i, k)
    PROVE  StillNamed(g, Graph(g, seed).graph, i, k)
<1> DEFINE v == job.validated
           m == v.model
           task == job.req.task
           templates == Disks[s].templates
           h == Graph(g, seed).graph
<1>0. /\ s \in DOMAIN Disks /\ Loaded[s].stage = "ok" /\ g = templates[v.workflow]
      /\ \E n \in DOMAIN ModelsOf(s) : m = ModelsOf(s)[n]
  BY DEF FromVersion
<1> PICK d \in DOMAIN Disks : JobObeys(job.req, v, Disks[d].loras)
  BY DEF FromVersion
<1>1. Checked(templates, m) /\ m \in Range(Disks[s].yaml)
  <2> HIDE DEF m
  <2> QED BY <1>0, ModelsAreChecked, ModelsAreEntries
<1>3. HasFiles(m)
  <2> HIDE DEF m
  <2> QED BY <1>0, <1>1 DEF PreparationAssumption, HasFiles
<1>4. job.req.kind \in {"image", "video"}
  BY DEF PreparationAssumption
<1>5. /\ v.workflow \in DOMAIN templates
      /\ v.workflow \in {m.workflow, m.workflow_with_audio}
  BY <1>1 DEF JobObeys, ImageObeys, VideoObeys, Checked
<1>6. IsTemplate(g) /\ IsGraph(g)
  BY <1>0, <1>5 DEF PreparationAssumption, IsTemplate
<1>7. /\ FilesUnderAnchors(g)
      /\ HasAnchor(g, "WAN_CLIP_VISION") => m.assets.wan_clip_vision # None
  BY DEF Fits
<1>8. v.loras \in Seq(STRING)
  BY DEF JobObeys, ImageObeys, VideoObeys, WithinBudget
<1>9. FilesOf(m) \subseteq F /\ LTXV_AUDIO_VAE \in F /\ LTXV_VIDEO_VAE \in F
  BY DEF FixedFiles
<1>10. \A a, b \in {"MODEL_SOURCE", "WAN_MODEL", "LTXV_CHECKPOINT"} :
          HasAnchor(g, a) /\ HasAnchor(g, b) => a = b
  BY <1>7 DEF FilesUnderAnchors
<1>11. v.workflow = m.workflow =>
          /\ validate_anchors(g, RequiredAnchors(m.family, m.task))
          /\ HasAnchors(g, RequiredAnchors(m.family, m.task))
  BY <1>0, <1>1 DEF Checked
<1>12. m.workflow_with_audio # None /\ v.workflow = m.workflow_with_audio =>
          /\ validate_anchors(g, required_anchors_for_wan22_audio_task(m.task))
          /\ HasAnchors(g, required_anchors_for_wan22_audio_task(m.task))
  BY <1>0, <1>1 DEF Checked
<1>13. /\ m.family = "ltxv" => m.assets.ltxv_text_encoder # None
       /\ m.family = "wan22" => m.task \in VideoTasks
  BY <1>1 DEF Checked
<1>14. Left(h, F, i, k)
  OBVIOUS
<1>15. CASE job.req.kind = "image"
  <2>1. v.workflow = m.workflow /\ h = BuildImage(g, v, seed).graph
        /\ BuildImage(g, v, seed).err = "none"
    BY <1>15 DEF JobObeys, ImageObeys, Graph, IsLtxv
  <2> HIDE DEF v, m, h
  <2>2. HasAnchors(g, {"MODEL_SOURCE", "CLIP_SOURCE"})
    BY <1>6, <1>8, <2>1, ImageNeedsSources
  <2>3. ~HasAnchor(g, "WAN_MODEL") /\ ~HasAnchor(g, "LTXV_CHECKPOINT")
    BY <1>10, <2>2 DEF HasAnchors
  <2>4. RequiredAnchors(m.family, m.task) = ImageAnchors
    BY <1>11, <2>1, <2>3 DEF RequiredAnchors, HasAnchors, required_anchors_for_video_task,
                             WanAnchors, LtxvAnchors
  <2>5. Unrepeated(g, {"MODEL_SOURCE", "CLIP_SOURCE"})
    BY <1>6, <1>11, <2>1, <2>4, RequiredAreUnrepeated DEF ImageAnchors
  <2>6. v.model = m
    BY DEF m
  <2>7. /\ Grows(g, h) /\ i \in DOMAIN g
        /\ \/ g[i].class = "VAELoader" /\ m.assets.vae = None
           \/ k = "image" /\ i \in Owners(g, "INIT_IMAGE")
    BY ONLY <1>3, <1>6, <1>7, <1>8, <1>9, <1>14, <2>1, <2>3, <2>5, <2>6, ImageLoads
  <2> QED BY <1>6, <1>7, <2>7 DEF StillNamed, v, m, h
<1>16. ASSUME job.req.kind = "video"
       PROVE  /\ m.family \in VideoFamilies /\ m.task = task
              /\ v.workflow # m.workflow => /\ m.workflow_with_audio # None
                                            /\ v.workflow = m.workflow_with_audio
              /\ task = "t2v" /\ v.init_image => m.family = "ltxv"
  BY <1>16 DEF JobObeys, VideoObeys
<1>17. CASE job.req.kind = "video" /\ m.family = "ltxv"
  <2>1. h = BuildLtxv(g, v, seed).graph /\ BuildLtxv(g, v, seed).err = "none"
    BY <1>17 DEF Graph, IsLtxv
  <2> HIDE DEF v, m, h
  <2>2. HasAnchor(g, "LTXV_CHECKPOINT")
    <3>1. BuildLtxv(g, v, seed).err = "none" => inject_ltxv_weights(g, v.model).err = "none"
      BY DEF BuildLtxv, Then
    <3>2. inject_ltxv_weights(g, v.model).err = "none" => HasAnchor(g, "LTXV_CHECKPOINT")
      BY DEF inject_ltxv_weights, Raise, CanFillAll, CanFill
    <3> QED BY <2>1, <3>1, <3>2
  <2>3. v.workflow = m.workflow
    BY <1>10, <1>12, <1>16, <1>17, <2>2
       DEF HasAnchors, required_anchors_for_wan22_audio_task, required_anchors_for_video_task,
           WanAnchors
  <2>4. Unrepeated(g, {"LTXV_CHECKPOINT", "LTXV_TEXT_ENCODER", "LTXV_VIDEO_VAE"})
    BY <1>6, <1>11, <1>17, <2>3, RequiredAreUnrepeated DEF RequiredAnchors, LtxvAnchors
  <2>5. v.model = m /\ m.assets.ltxv_text_encoder # None
    BY <1>13, <1>17 DEF m
  <2>6. i \in Owners(g, "INIT_IMAGE") /\ k = "image"
    BY ONLY <1>3, <1>6, <1>7, <1>9, <1>14, <2>1, <2>4, <2>5, LtxvLoads
  <2>7. Grows(g, h)
    BY <1>6, <2>1, LtxvIsBuilt, WiringGrows DEF Rewired
  <2> QED BY <1>6, <1>7, <2>6, <2>7 DEF StillNamed, Owners, v, m, h
<1>18. CASE job.req.kind = "video" /\ m.family = "wan22"
  <2>1. h = BuildWan(g, v, task, seed).graph /\ BuildWan(g, v, task, seed).err = "none"
    BY <1>18 DEF Graph, IsLtxv
  <2> HIDE DEF v, m, h, task
  <2>2. /\ validate_anchors(g, required_anchors_for_video_task(m.task))
        /\ HasAnchors(g, required_anchors_for_video_task(m.task))
    BY <1>11, <1>12, <1>16, <1>18
       DEF RequiredAnchors, required_anchors_for_wan22_audio_task, validate_anchors, HasAnchors
  <2>3. Unrepeated(g, {"WAN_MODEL", "WAN_MODEL_LOW", "WAN_VAE", "WAN_T5"})
    BY <1>6, <2>2, RequiredAreUnrepeated DEF required_anchors_for_video_task, WanAnchors
  <2>4. v.model = m
    BY DEF m
  <2>5. /\ Grows(g, h) /\ i \in DOMAIN g /\ k = "image"
        /\ i \in Owners(g, "INIT_IMAGE") \/ ~HasAnchor(g, "INIT_IMAGE")
    BY ONLY <1>3, <1>6, <1>7, <1>8, <1>9, <1>14, <2>1, <2>3, <2>4, WanLoads
  <2>6. v.init_image => HasAnchor(g, "INIT_IMAGE")
    BY <1>13, <1>16, <1>18, <2>2 DEF VideoTasks, HasAnchors, required_anchors_for_video_task
  <2> QED BY <1>6, <1>7, <2>5, <2>6 DEF StillNamed, v, m, h
<1> QED BY <1>4, <1>15, <1>16, <1>17, <1>18 DEF VideoFamilies

\* What is built from a template as it was when the registry was loaded loads the files
\* of the model, but for a VAE the model does not configure and for an image of the
\* template, which an init image replaces when it has been uploaded.
Loads ==
    (job.phase \in {"uploading", "ready"} /\ TemplateAsLoaded /\ TemplateFits) =>
        LET g == job.graph
            m == job.validated.model
        IN  \A i \in DOMAIN g : \A k \in DOMAIN g[i].vals :
               Left(g, FilesOf(m) \cup FixedFiles, i, k) =>
                  \/ g[i].class = "VAELoader" /\ m.assets.vae = None
                  \/ /\ k = "image"
                     /\ job.validated.init_image =>
                           job.phase = "uploading" /\ Owners(g, "INIT_IMAGE") = {i}

LEMMA BuildLoads ==
    ASSUME PreparationAssumption, IInv, Build
    PROVE  Loads'
<1> DEFINE path == job.validated.workflow
           templates == Disks[disk].templates
           g == templates[path]
           m == job.validated.model
           F == FilesOf(m) \cup FixedFiles
<1>1. /\ DOMAIN job = DOMAIN Idle /\ job.phase = "validated" /\ job.req \in Requests
  BY DEF IInv, JobInv, Parsed, Types, Build, Idle
<1>2. PICK seed \in ActualSeeds(job.validated) :
         LET r == Graph(templates[path], seed) IN
         job' = IF path \notin DOMAIN templates
                THEN [job EXCEPT !.phase = "failed", !.code = "internal", !.built = disk]
                ELSE IF r.err # "none"
                THEN [job EXCEPT !.phase = "failed", !.code = ErrorCode(r.err), !.built = disk]
                ELSE [job EXCEPT !.phase = IF job.validated.init_image THEN "uploading"
                                           ELSE "ready",
                                 !.built = disk, !.graph = r.graph]
  BY DEF Build
<1> DEFINE r == Graph(g, seed)
           next == IF job.validated.init_image THEN "uploading" ELSE "ready"
<1>3. \/ job' = [job EXCEPT !.phase = "failed", !.code = "internal", !.built = disk]
      \/ job' = [job EXCEPT !.phase = "failed", !.code = ErrorCode(r.err), !.built = disk]
      \/ /\ path \in DOMAIN templates /\ r.err = "none"
         /\ job' = [job EXCEPT !.phase = next, !.built = disk, !.graph = r.graph]
  BY <1>2
<1>4. /\ job.source \in DOMAIN Disks /\ Loaded[job.source].stage = "ok"
      /\ job.req.model \in DOMAIN ModelsOf(job.source)
      /\ job.validated.model = ModelsOf(job.source)[job.req.model]
  BY <1>1 DEF IInv, JobInv, JobsWithinLimits
<1>5. PICK v \in DOMAIN Disks : JobObeys(job.req, job.validated, Disks[v].loras)
  BY <1>1 DEF IInv, JobInv, JobsWithinLimits
<1>6. ASSUME TemplateFits, g = Disks[job.source].templates[path], r.err = "none",
             NEW i, NEW k, Left(r.graph, F, i, k)
      PROVE  \/ r.graph[i].class = "VAELoader" /\ m.assets.vae = None
             \/ /\ k = "image"
                /\ job.validated.init_image => Owners(r.graph, "INIT_IMAGE") = {i}
  <2> DEFINE s == job.source
  <2>0. FromVersion(s, g) /\ Fits(g, job.validated.model)
    BY <1>4, <1>5, <1>6 DEF FromVersion, TemplateFits
  <2>1. StillNamed(g, r.graph, i, k)
    <3>1. FilesOf(job.validated.model) \cup FixedFiles \subseteq F
      OBVIOUS
    <3> HIDE DEF g, s, F
    <3> QED BY <1>1, <1>6, <2>0, <3>1, TemplateLoads
  <2> DEFINE h == r.graph
  <2> HIDE DEF g, r, m
  <2>2. Owners(h, "INIT_IMAGE") = Owners(g, "INIT_IMAGE") /\ h[i].class = g[i].class
    <3> HIDE DEF h
    <3>1. Grows(g, h) /\ i \in DOMAIN g
      BY <2>1 DEF h, StillNamed
    <3>2. h[i].class = g[i].class
      BY <3>1 DEF Grows, SameNodes
    <3> QED BY <3>1, <3>2, GrowsAnchors
  <2>3. i \in Owners(g, "INIT_IMAGE") => Owners(g, "INIT_IMAGE") = {i}
    BY <2>1 DEF StillNamed, FilesUnderAnchors, Unrepeated
  <2> QED BY <2>1, <2>2, <2>3 DEF StillNamed, m, h
<1> HIDE DEF r, next, F
<1>7. \/ job'.phase = "failed"
      \/ /\ r.err = "none" /\ job'.graph = r.graph /\ job'.phase = next
         /\ job'.validated = job.validated /\ job'.source = job.source /\ job'.built = disk
  BY <1>1, <1>3 DEF Idle
<1>8. CASE job'.phase = "failed"
  BY <1>8 DEF Loads
<1>9. CASE /\ r.err = "none" /\ job'.graph = r.graph /\ job'.phase = next
           /\ job'.validated = job.validated /\ job'.source = job.source /\ job'.built = disk
  <2>1. TemplateAsLoaded' => g = Disks[job.source].templates[path]
    BY <1>9 DEF TemplateAsLoaded
  <2>2. job.validated.init_image => job'.phase = "uploading"
    BY <1>9 DEF next
  <2>3. TemplateFits' => TemplateFits
    BY <1>9 DEF TemplateFits
  <2> HIDE DEF g, path, templates, m
  <2>4. TemplateFits' /\ TemplateAsLoaded' =>
           \A i, k : Left(r.graph, F, i, k) =>
              \/ r.graph[i].class = "VAELoader" /\ m.assets.vae = None
              \/ /\ k = "image"
                 /\ job.validated.init_image => Owners(r.graph, "INIT_IMAGE") = {i}
    BY <1>6, <1>9, <2>1, <2>3
  <2> QED BY <1>9, <2>2, <2>4 DEF Loads, F, m
<1> QED BY <1>7, <1>8, <1>9

\* The name of the uploaded image takes the place of that of the template.
LEMMA UploadLoads ==
    ASSUME IInv, Graphs, Loads, UploadImage
    PROVE  Loads'
<1> DEFINE new == [image |-> "upload"]
           h == job.graph
           open == Opened(h, "INIT_IMAGE")
           graph == PatchIfAny(open, "INIT_IMAGE", new)
           F == FilesOf(job.validated.model) \cup FixedFiles
<1>1. DOMAIN job = DOMAIN Idle /\ job.phase = "uploading"
  BY UploadSteps
<1>2. IsGraph(h)
  BY <1>1 DEF Graphs
<1>3. /\ SameWiring(h, open) /\ IsGraph(open)
      /\ \A i \in DOMAIN h : open[i].vals = h[i].vals
      /\ HasAnchor(h, "INIT_IMAGE") => CanFill(open, "INIT_IMAGE")
  BY <1>2, OpenedWiring
<1>4. job'.phase = "failed" \/ job' = [job EXCEPT !.phase = "ready", !.graph = graph]
  BY UploadSteps
<1>5. DOMAIN new = {"image"} /\ FilesAmong(new, F)
  BY DEF FilesAmong, FixedFiles
<1> HIDE DEF new, F, open
<1>6. ASSUME NEW i, NEW k, Left(graph, F, i, k)
      PROVE  /\ Left(h, F, i, k) /\ graph[i].class = h[i].class
             /\ k = "image" => Owners(h, "INIT_IMAGE") # {i}
  <2>0. /\ Left(open, F, i, k)
        /\ ~(CanFill(open, "INIT_IMAGE") /\ i = find_anchor(open, "INIT_IMAGE") /\ k = "image")
    BY <1>3, <1>5, <1>6, PatchIfAnyLeaves
  <2>1. /\ Left(h, F, i, k)
        /\ ~(HasAnchor(h, "INIT_IMAGE") /\ i = find_anchor(h, "INIT_IMAGE") /\ k = "image")
    <3> HIDE DEF h
    <3>1. find_anchor(open, "INIT_IMAGE") = find_anchor(h, "INIT_IMAGE")
      BY <1>3, WiringAnchors
    <3>2. Left(h, F, i, k)
      BY <1>3, <2>0 DEF Left, SameWiring
    <3> QED BY <1>3, <2>0, <3>1, <3>2
  <2>2. SameWiring(h, graph)
    <3> HIDE DEF h
    <3>1. SameWiring(open, graph)
      BY <1>3, PatchIfAnyWiring
    <3> QED BY <1>3, <3>1, WiringTrans
  <2> HIDE DEF graph
  <2>3. graph[i].class = h[i].class
    BY <2>1, <2>2 DEF Left, SameWiring
  <2>4. Owners(h, "INIT_IMAGE") = {i} =>
           HasAnchor(h, "INIT_IMAGE") /\ i = find_anchor(h, "INIT_IMAGE")
    <3> HIDE DEF h
    <3> QED BY <1>2, AnchorFound DEF HasAnchor
  <2> QED BY <2>1, <2>3, <2>4
<1> HIDE DEF graph
<1>7. \/ job'.phase = "failed"
      \/ /\ job'.graph = graph /\ job'.validated = job.validated
         /\ job'.source = job.source /\ job'.built = job.built /\ job'.phase = "ready"
  BY <1>1, <1>4 DEF Idle
<1>8. CASE job'.phase = "failed"
  BY <1>8 DEF Loads
<1>9. CASE /\ job'.graph = graph /\ job'.validated = job.validated
           /\ job'.source = job.source /\ job'.built = job.built /\ job'.phase = "ready"
  <2>1. /\ TemplateAsLoaded' => TemplateAsLoaded
        /\ TemplateFits' => TemplateFits
    BY <1>9 DEF TemplateAsLoaded, TemplateFits
  <2> SUFFICES ASSUME TemplateFits, TemplateAsLoaded, NEW i, NEW k, Left(graph, F, i, k)
               PROVE  \/ graph[i].class = "VAELoader" /\ job.validated.model.assets.vae = None
                      \/ k = "image" /\ ~job.validated.init_image
    BY <1>9, <2>1 DEF Loads, F
  <2>2. /\ Left(h, F, i, k) /\ graph[i].class = h[i].class
        /\ k = "image" => Owners(h, "INIT_IMAGE") # {i}
    BY <1>6
  <2>3. i \in DOMAIN h /\ k \in DOMAIN h[i].vals
    BY <2>2 DEF Left
  <2>4. \/ h[i].class = "VAELoader" /\ job.validated.model.assets.vae = None
        \/ k = "image" /\ (job.validated.init_image => Owners(h, "INIT_IMAGE") = {i})
    BY <1>1, <2>2, <2>3 DEF Loads, F
  <2> QED BY <2>2, <2>4
<1> QED BY <1>7, <1>8, <1>9

LEMMA LoadsKept ==
    ASSUME PreparationAssumption, IInv, Graphs, Loads, [Next]_vars
    PROVE  Loads'
<1>1. CASE Edit \/ reload_registry \/ setup_bundle \/ WarmedUp \/ close_bundle \/ Unloaded
  <2>1. job' = job
    BY <1>1, AdminKeepsTypes DEF IInv
  <2> QED BY <2>1 DEF Loads, TemplateAsLoaded, TemplateFits
<1>2. ASSUME NEW r \in Requests, Arrive(r)
      PROVE  Loads'
  <2>1. job'.phase \in {"refused", "parsing"}
    BY <1>2 DEF Arrive, Idle
  <2> QED BY <2>1 DEF Loads
<1>3. CASE Admit
  <2>1. DOMAIN job = DOMAIN Idle
    BY DEF IInv, Types
  <2>2. job'.phase \in {"refused", "queued"}
    BY <1>3, <2>1 DEF Admit, Refuse, Idle
  <2> QED BY <2>2 DEF Loads
<1>4. CASE Revalidate
  <2>1. DOMAIN job = DOMAIN Idle
    BY DEF IInv, Types
  <2>2. job'.phase \in {"failed", "validated"}
    BY <1>4, <2>1 DEF Revalidate, Idle
  <2> QED BY <2>2 DEF Loads
<1>5. CASE Build
  BY <1>5, BuildLoads
<1>6. CASE UploadImage
  BY <1>6, UploadLoads
<1>7. CASE UNCHANGED vars
  BY <1>7 DEF vars, Loads, TemplateAsLoaded, TemplateFits
<1> QED BY <1>1, <1>2, <1>3, <1>4, <1>5, <1>6, <1>7 DEF Next

\* In every state, what is left to be loaded from a template that names files only on the
\* loaders a pipeline fills in: between building and submission only an image that an
\* upload is about to replace (upload_image and inject_init_image, worker.py:375-386).
THEOREM LoadsInvariant == Spec => []Loads
<1>1. Init => Loads
  BY DEF Init, Idle, Loads
<1>2. IInv /\ Graphs /\ Loads /\ [Next]_vars => Loads'
  BY PreparationAssumption, LoadsKept
<1> QED BY <1>1, <1>2, Invariant, GraphsInvariant, PTL DEF Spec

\* Whatever the requests and the configuration, and whatever LoRAs, options and seeds a
\* job has: if the template of its model names files only on the loaders the pipeline
\* fills in, the graph submitted from it, as it was when the registry was loaded, loads
\* the files of the model the job was validated with and none that the template names,
\* except the VAE of a model that configures none and an image no request replaces
\* (load_registry, inject_model_source, inject_video_weights, inject_mmaudio_weights,
\* inject_ltxv_*, inject_init_image).
THEOREM GraphIsTheModelsHolds == Spec => [](TemplateFits => GraphIsTheModels)
<1>1. Loads => (TemplateFits => GraphIsTheModels)
  BY DEF Loads, GraphIsTheModels, Left, FixedFiles
<1> QED BY <1>1, LoadsInvariant, PTL

-----------------------------------------------------------------------------
(* The LoRAs of an image, in their order.                                  *)

\* What the first LoRA loader takes from the template g.
ModelLink(g) == LET ms == find_anchor(g, "MODEL_SOURCE") IN <<ms, infer_output_slot(g, ms, 0)>>
ClipLink(g) == LET cs == find_anchor(g, "CLIP_SOURCE") IN <<cs, infer_output_slot(g, cs, 1)>>

\* Node i loads the LoRA and takes model and clip from these links.
Loader(h, i, lora, model, clip) ==
    /\ i \in DOMAIN h
    /\ h[i].class = "LoraLoader" /\ h[i].anchors = {} /\ h[i].vals = [lora |-> lora]
    /\ DOMAIN h[i].links = {"model", "clip"}
    /\ h[i].links["model"] = model /\ h[i].links["clip"] = clip

\* What took these links takes model and clip from node last; the other links stay.
Redirected(g, h, model, clip, last) ==
    \A i \in DOMAIN g :
        /\ i \in DOMAIN h /\ DOMAIN h[i].links = DOMAIN g[i].links
        /\ \A k \in DOMAIN g[i].links :
              h[i].links[k] = IF g[i].links[k] = model THEN <<last, 0>>
                              ELSE IF g[i].links[k] = clip THEN <<last, 1>>
                              ELSE g[i].links[k]

\* h is g with a row of new loaders between the sources and all they fed, one for each
\* LoRA and in the same order.
ChainedFrom(g, h, loras, base) ==
    /\ DOMAIN h = DOMAIN g \cup ((base + 1)..(base + Len(loras)))
    /\ DOMAIN g \cap ((base + 1)..(base + Len(loras))) = {}
    /\ \A j \in 1..Len(loras) :
          IF j = 1 THEN Loader(h, base + j, loras[j], ModelLink(g), ClipLink(g))
          ELSE Loader(h, base + j, loras[j], <<base + j - 1, 0>>, <<base + j - 1, 1>>)
    /\ Redirected(g, h, ModelLink(g), ClipLink(g), base + Len(loras))

Chained(g, h, loras) == \E base \in Nat : ChainedFrom(g, h, loras, base)

LEMMA MaxInterval ==
    ASSUME NEW a \in Nat, NEW n \in Nat, n # 0
    PROVE  Max((a + 1)..(a + n)) = a + n
<1> DEFINE S == (a + 1)..(a + n)
<1>1. S \in SUBSET Nat /\ a + n \in S /\ \A k \in S : k <= a + n
  OBVIOUS
<1>2. IsFiniteSet(S)
  <2>1. a + 1 \in Int /\ a + n \in Int
    OBVIOUS
  <2> QED BY <2>1, FS_Interval
<1> HIDE DEF S
<1>3. Max(S) \in S /\ \A k \in S : Max(S) >= k
  BY <1>1, <1>2, MaxFound
<1>4. PICK m \in S : m = Max(S)
  BY <1>3
<1>5. m \in Nat /\ m >= a + n /\ m <= a + n
  BY <1>1, <1>3, <1>4
<1>6. m = a + n
  BY <1>5
<1> QED BY <1>4, <1>6 DEF S

\* The nodes of a chain, one by one.
LEMMA ChainNodes ==
    ASSUME NEW g, IsGraph(g), DOMAIN g # {}, NEW S, NEW loras \in Seq(S), loras # <<>>,
           NEW heads, DOMAIN heads = {"model", "clip"}
    PROVE  LET chain == LoraChain(g, "LoraLoader", loras, heads)
               base == Max(DOMAIN g)
               n == Len(loras)
           IN  /\ base \in Nat /\ n \in Nat /\ n # 0
               /\ DOMAIN chain = (base + 1)..(base + n)
               /\ Max(DOMAIN chain) = base + n
               /\ \A j \in 1..n :
                     IF j = 1 THEN Loader(chain, base + j, loras[j], heads["model"], heads["clip"])
                     ELSE Loader(chain, base + j, loras[j], <<base + j - 1, 0>>, <<base + j - 1, 1>>)
<1> DEFINE base == Max(DOMAIN g)
           n == Len(loras)
           links(i) == [k \in DOMAIN heads |->
                          IF i = base + 1 THEN heads[k]
                          ELSE <<i - 1, IF k = "clip" THEN 1 ELSE 0>>]
           node(i) == [class |-> "LoraLoader", anchors |-> {}, inputs |-> "object",
                       links |-> links(i), vals |-> [lora |-> loras[i - base]]]
           chain == LoraChain(g, "LoraLoader", loras, heads)
           new == (base + 1)..(base + n)
<1>1. chain = [i \in new |-> node(i)]
  BY DEF LoraChain
<1>2. base \in Nat
  BY MaxFound DEF IsGraph
<1>3. n \in Nat /\ n # 0
  BY EmptySeq, LenProperties
<1> HIDE DEF base, chain, n
<1>4. DOMAIN chain = new /\ Max(DOMAIN chain) = base + n
  BY <1>1, <1>2, <1>3, MaxInterval
<1>5. ASSUME NEW j \in 1..n
      PROVE  IF j = 1 THEN Loader(chain, base + j, loras[j], heads["model"], heads["clip"])
             ELSE Loader(chain, base + j, loras[j], <<base + j - 1, 0>>, <<base + j - 1, 1>>)
  <2> DEFINE i == base + j
  <2>1. i \in new /\ i - base = j /\ (i = base + 1 <=> j = 1)
    BY <1>2, <1>3
  <2>2. chain[i] = node(i)
    BY <1>1, <2>1
  <2>3. DOMAIN links(i) = {"model", "clip"}
    OBVIOUS
  <2>4. j = 1 => links(i)["model"] = heads["model"] /\ links(i)["clip"] = heads["clip"]
    BY <2>1
  <2>5. j # 1 => links(i)["model"] = <<i - 1, 0>> /\ links(i)["clip"] = <<i - 1, 1>>
    BY <2>1
  <2> HIDE DEF links
  <2>6. /\ chain[i].class = "LoraLoader" /\ chain[i].anchors = {}
        /\ chain[i].links = links(i) /\ chain[i].vals = [lora |-> loras[j]]
    BY <2>1, <2>2
  <2>7. i \in DOMAIN chain
    BY <1>4, <2>1
  <2> HIDE DEF new, node
  <2> HIDE DEF i
  <2>8. CASE j = 1
    <3>1. Loader(chain, i, loras[j], heads["model"], heads["clip"])
      BY <2>3, <2>4, <2>6, <2>7, <2>8 DEF Loader
    <3> QED BY <2>8, <3>1 DEF i
  <2>9. CASE j # 1
    <3> DEFINE model == <<base + j - 1, 0>>
               clip == <<base + j - 1, 1>>
    <3>1. model = <<i - 1, 0>> /\ clip = <<i - 1, 1>>
      BY <1>2, <1>3 DEF i
    <3> HIDE DEF model, clip
    <3>2. Loader(chain, i, loras[j], model, clip)
      BY <2>3, <2>5, <2>6, <2>7, <2>9, <3>1 DEF Loader
    <3>3. Loader(chain, base + j, loras[j], model, clip)
      BY <3>2 DEF i
    <3> QED BY <2>9, <3>3 DEF model, clip
  <2> QED BY <2>8, <2>9
<1> QED BY <1>2, <1>3, <1>4, <1>5 DEF base, n, chain

\* One pass of rewrite_inputs.
LEMMA RewriteLinks ==
    ASSUME NEW g, NEW from, NEW to, NEW skip, \A i \in DOMAIN g : DOMAIN g[i] = NodeFields
    PROVE  LET h == rewrite_inputs(g, from, to, skip) IN
           /\ DOMAIN h = DOMAIN g
           /\ \A i \in DOMAIN g : DOMAIN h[i] = NodeFields
           /\ \A i \in skip \cap DOMAIN g : h[i] = g[i]
           /\ \A i \in DOMAIN g \ skip :
                 /\ DOMAIN h[i].links = DOMAIN g[i].links
                 /\ \A k \in DOMAIN g[i].links :
                       h[i].links[k] = IF g[i].links[k] = from THEN to ELSE g[i].links[k]
<1> DEFINE links(i) == [k \in DOMAIN g[i].links |->
                          IF g[i].links[k] = from THEN to ELSE g[i].links[k]]
           h == rewrite_inputs(g, from, to, skip)
<1>1. h = [i \in DOMAIN g |-> IF i \in skip THEN g[i] ELSE [g[i] EXCEPT !.links = links(i)]]
  BY DEF rewrite_inputs
<1> HIDE DEF h
<1>2. \A i \in DOMAIN g : DOMAIN links(i) = DOMAIN g[i].links
                          /\ \A k \in DOMAIN g[i].links :
                                links(i)[k] = IF g[i].links[k] = from THEN to ELSE g[i].links[k]
  OBVIOUS
<1> HIDE DEF links
<1>3. DOMAIN h = DOMAIN g /\ \A i \in skip \cap DOMAIN g : h[i] = g[i]
  BY <1>1
<1>4. ASSUME NEW i \in DOMAIN g \ skip
      PROVE  h[i].links = links(i) /\ DOMAIN h[i] = NodeFields
  <2>1. h[i] = [g[i] EXCEPT !.links = links(i)]
    BY <1>1
  <2> QED BY <2>1 DEF NodeFields
<1> QED BY <1>2, <1>3, <1>4 DEF h

\* inject_loras.
LEMMA LorasAreChained ==
    ASSUME NEW g, IsGraph(g), NEW S, NEW loras \in Seq(S), loras # <<>>,
           inject_loras(g, loras).err = "none"
    PROVE  Chained(g, inject_loras(g, loras).graph, loras)
<1> DEFINE ms == find_anchor(g, "MODEL_SOURCE")
           cs == find_anchor(g, "CLIP_SOURCE")
           model == ModelLink(g)
           clip == ClipLink(g)
           heads == [model |-> model, clip |-> clip]
           chain == LoraChain(g, "LoraLoader", loras, heads)
           new == DOMAIN chain
           k == Over(g, chain)
           g1 == rewrite_inputs(k, model, <<Max(new), 0>>, new)
           g2 == rewrite_inputs(g1, clip, <<Max(new), 1>>, new)
           r == inject_loras(g, loras)
           base == Max(DOMAIN g)
           n == Len(loras)
           last == base + n
<1>1. r = IF ~HasAnchors(g, {"MODEL_SOURCE", "CLIP_SOURCE"}) THEN Raise("workflow") ELSE Ok(g2)
  BY DEF inject_loras, ModelLink, ClipLink
<1>2. HasAnchors(g, {"MODEL_SOURCE", "CLIP_SOURCE"}) /\ r.graph = g2
  <2> HIDE DEF r, g2
  <2>1. r.err = "none"
    BY DEF r
  <2> QED BY <1>1, <2>1 DEF Raise, Ok
<1>3. DOMAIN g # {} /\ ms \in DOMAIN g /\ cs \in DOMAIN g
  BY <1>2, AnchorFound DEF HasAnchors
<1>4. model[1] \in DOMAIN g /\ clip[1] \in DOMAIN g
  BY <1>3 DEF ModelLink, ClipLink
<1> HIDE DEF model, clip
<1>5. DOMAIN heads = {"model", "clip"} /\ heads["model"] = model /\ heads["clip"] = clip
  OBVIOUS
<1> HIDE DEF heads
<1>6. /\ base \in Nat /\ n \in Nat /\ n # 0
      /\ new = (base + 1)..(base + n) /\ Max(new) = last
      /\ \A j \in 1..n :
            IF j = 1 THEN Loader(chain, base + j, loras[j], model, clip)
            ELSE Loader(chain, base + j, loras[j], <<base + j - 1, 0>>, <<base + j - 1, 1>>)
  BY <1>3, <1>5, ChainNodes
<1>7. /\ new \cap DOMAIN g = {} /\ \A i \in new : DOMAIN chain[i] = NodeFields
  BY <1>3, ChainShape
<1> HIDE DEF chain, base, n
<1>8. /\ DOMAIN k = DOMAIN g \cup new
      /\ \A i \in DOMAIN g : k[i] = g[i]
      /\ \A i \in new : k[i] = chain[i]
  BY <1>7 DEF Over
<1>9. \A i \in DOMAIN k : DOMAIN k[i] = NodeFields
  BY <1>7, <1>8 DEF IsGraph, NodeFields
<1> HIDE DEF k
<1> DEFINE to1 == <<last, 0>>
           to2 == <<last, 1>>
<1>10. last \in new /\ last \notin DOMAIN g /\ to1[1] = last
  BY <1>6, <1>7
<1>11. to1 # clip
  BY <1>4, <1>10
<1>12. g1 = rewrite_inputs(k, model, to1, new) /\ g2 = rewrite_inputs(g1, clip, to2, new)
  BY <1>6
<1> HIDE DEF g1, g2, to1, to2, new, last
<1>13. /\ DOMAIN g1 = DOMAIN k /\ \A i \in DOMAIN k : DOMAIN g1[i] = NodeFields
       /\ \A i \in new \cap DOMAIN k : g1[i] = k[i]
       /\ \A i \in DOMAIN k \ new :
             /\ DOMAIN g1[i].links = DOMAIN k[i].links
             /\ \A x \in DOMAIN k[i].links :
                   g1[i].links[x] = IF k[i].links[x] = model THEN to1 ELSE k[i].links[x]
  BY <1>9, <1>12, RewriteLinks
<1>14. /\ DOMAIN g2 = DOMAIN k
       /\ \A i \in new \cap DOMAIN k : g2[i] = g1[i]
       /\ \A i \in DOMAIN k \ new :
             /\ DOMAIN g2[i].links = DOMAIN g1[i].links
             /\ \A x \in DOMAIN g1[i].links :
                   g2[i].links[x] = IF g1[i].links[x] = clip THEN to2 ELSE g1[i].links[x]
  <2>1. \A i \in DOMAIN g1 : DOMAIN g1[i] = NodeFields
    BY <1>13
  <2>2. /\ DOMAIN g2 = DOMAIN g1
        /\ \A i \in new \cap DOMAIN g1 : g2[i] = g1[i]
        /\ \A i \in DOMAIN g1 \ new :
             /\ DOMAIN g2[i].links = DOMAIN g1[i].links
             /\ \A x \in DOMAIN g1[i].links :
                   g2[i].links[x] = IF g1[i].links[x] = clip THEN to2 ELSE g1[i].links[x]
    BY <1>12, <2>1, RewriteLinks
  <2> QED BY <1>13, <2>2
<1>15. DOMAIN g2 = DOMAIN g \cup new /\ \A i \in new : g2[i] = chain[i] /\ i \in DOMAIN g2
  BY <1>8, <1>13, <1>14
<1>16. Redirected(g, g2, model, clip, last)
  <2> SUFFICES ASSUME NEW i \in DOMAIN g
               PROVE  /\ i \in DOMAIN g2 /\ DOMAIN g2[i].links = DOMAIN g[i].links
                      /\ \A x \in DOMAIN g[i].links :
                            g2[i].links[x] = IF g[i].links[x] = model THEN to1
                                             ELSE IF g[i].links[x] = clip THEN to2
                                             ELSE g[i].links[x]
    BY DEF Redirected, to1, to2
  <2>1. i \in DOMAIN k \ new /\ k[i] = g[i]
    BY <1>7, <1>8
  <2> QED BY <1>11, <1>13, <1>14, <2>1
<1>17. \A i, l, x, y : Loader(chain, i, l, x, y) => Loader(g2, i, l, x, y)
  BY <1>15 DEF Loader, new
<1>18. \A j \in 1..n :
          IF j = 1 THEN Loader(g2, base + j, loras[j], model, clip)
          ELSE Loader(g2, base + j, loras[j], <<base + j - 1, 0>>, <<base + j - 1, 1>>)
  BY <1>6, <1>17
<1>19. ChainedFrom(g, g2, loras, base)
  BY <1>6, <1>7, <1>15, <1>16, <1>18 DEF ChainedFrom, model, clip, n, last, new
<1> QED BY <1>2, <1>6, <1>19 DEF Chained, r

\* Patches leave the links alone.
LEMMA WiringLinks ==
    ASSUME NEW g, NEW h, SameWiring(g, h)
    PROVE  ModelLink(h) = ModelLink(g) /\ ClipLink(h) = ClipLink(g)
<1>1. \A a : find_anchor(h, a) = find_anchor(g, a)
  BY WiringAnchors
<1>2. Links(h) = Links(g)
  BY DEF Links, SameWiring
<1>3. \A i, x : infer_output_slot(h, i, x) = infer_output_slot(g, i, x)
  BY <1>2 DEF infer_output_slot
<1> QED BY <1>1, <1>3 DEF ModelLink, ClipLink

LEMMA ChainedAfter ==
    ASSUME NEW g, NEW h, SameWiring(g, h), NEW k, NEW loras, Chained(h, k, loras)
    PROVE  Chained(g, k, loras)
<1> PICK base \in Nat : ChainedFrom(h, k, loras, base)
  BY DEF Chained
<1>1. ModelLink(h) = ModelLink(g) /\ ClipLink(h) = ClipLink(g) /\ DOMAIN h = DOMAIN g
  BY WiringLinks DEF SameWiring
<1>2. \A i \in DOMAIN g : h[i].links = g[i].links
  BY DEF SameWiring
<1>3. \A x, y, z : Redirected(h, k, x, y, z) => Redirected(g, k, x, y, z)
  BY <1>1, <1>2 DEF Redirected
<1>4. ChainedFrom(g, k, loras, base)
  BY <1>1, <1>3 DEF ChainedFrom
<1> QED BY <1>4 DEF Chained

\* A node without an anchor is not patched.
LEMMA LoaderUnpatched ==
    ASSUME NEW g, IsGraph(g), NEW a, NEW new, NEW i, NEW lora, NEW x, NEW y, Loader(g, i, lora, x, y)
    PROVE  Loader(PatchIfAny(g, a, new), i, lora, x, y)
<1> DEFINE o == find_anchor(g, a)
           vals == Over(new, g[o].vals)
           h == PatchIfAny(g, a, new)
<1>1. CASE ~CanFill(g, a)
  BY <1>1 DEF PatchIfAny
<1>2. CASE CanFill(g, a)
  <2>1. o \in Owners(g, a)
    BY <1>2, AnchorFound DEF CanFill
  <2>2. i # o
    BY <2>1 DEF Loader, Owners
  <2>3. h = [g EXCEPT ![o] = [g[o] EXCEPT !.vals = vals]]
    BY <1>2 DEF PatchIfAny, PatchAt, Patch
  <2> HIDE DEF h, o, vals
  <2>4. DOMAIN h = DOMAIN g /\ (i \in DOMAIN g => h[i] = g[i])
    BY <2>2, <2>3
  <2>5. Loader(h, i, lora, x, y)
    BY <2>4 DEF Loader
  <2> QED BY <2>5 DEF h
<1> QED BY <1>1, <1>2

\* Nor is it given inputs.
LEMMA OpenedNode ==
    ASSUME NEW g, IsGraph(g), NEW a, NEW i \in DOMAIN g, g[i].anchors = {}
    PROVE  i \in DOMAIN Opened(g, a) /\ Opened(g, a)[i] = g[i]
<1> DEFINE o == find_anchor(g, a)
<1>1. CASE ~HasAnchor(g, a)
  BY <1>1 DEF Opened
<1>2. CASE HasAnchor(g, a)
  <2>1. o \in Owners(g, a)
    BY <1>2, AnchorFound
  <2>2. i # o
    BY <2>1 DEF Owners
  <2>3. Opened(g, a) = [g EXCEPT ![o] = [g[o] EXCEPT !.inputs = "object"]]
    BY <1>2 DEF Opened
  <2> QED BY <2>2, <2>3
<1> QED BY <1>1, <1>2

LEMMA ChainedUnpatched ==
    ASSUME NEW g, NEW h, IsGraph(h), NEW a, NEW new, NEW loras, Chained(g, h, loras)
    PROVE  Chained(g, PatchIfAny(h, a, new), loras)
<1> DEFINE k == PatchIfAny(h, a, new)
<1> PICK base \in Nat : ChainedFrom(g, h, loras, base)
  BY DEF Chained
<1>1. SameWiring(h, k)
  BY PatchIfAnyWiring
<1>2. \A i, l, x, y : Loader(h, i, l, x, y) => Loader(k, i, l, x, y)
  BY LoaderUnpatched
<1> HIDE DEF k
<1>3. DOMAIN k = DOMAIN h /\ \A i \in DOMAIN h : k[i].links = h[i].links
  BY <1>1 DEF SameWiring
<1>4. \A x, y, z : Redirected(g, h, x, y, z) => Redirected(g, k, x, y, z)
  BY <1>3 DEF Redirected
<1>5. ChainedFrom(g, k, loras, base)
  BY <1>2, <1>3, <1>4 DEF ChainedFrom
<1> QED BY <1>5 DEF Chained, k

LEMMA ChainedOpened ==
    ASSUME NEW g, NEW h, IsGraph(h), NEW a, NEW loras, Chained(g, h, loras)
    PROVE  Chained(g, Opened(h, a), loras)
<1> DEFINE k == Opened(h, a)
<1> PICK base \in Nat : ChainedFrom(g, h, loras, base)
  BY DEF Chained
<1>1. SameWiring(h, k)
  BY OpenedWiring
<1>2. \A i, l, x, y : Loader(h, i, l, x, y) => Loader(k, i, l, x, y)
  BY OpenedNode DEF Loader
<1> HIDE DEF k
<1>3. DOMAIN k = DOMAIN h /\ \A i \in DOMAIN h : k[i].links = h[i].links
  BY <1>1 DEF SameWiring
<1>4. \A x, y, z : Redirected(g, h, x, y, z) => Redirected(g, k, x, y, z)
  BY <1>3 DEF Redirected
<1>5. ChainedFrom(g, k, loras, base)
  BY <1>2, <1>3, <1>4 DEF ChainedFrom
<1> QED BY <1>5 DEF Chained, k

\* A template with the LoRAs put in, or without any as it was wired.
WiredFor(g, h, loras) == IF loras = <<>> THEN SameWiring(g, h) ELSE Chained(g, h, loras)

\* BuildImage.
LEMMA ImageIsWired ==
    ASSUME NEW g, IsGraph(g), NEW v, NEW S, v.loras \in Seq(S), NEW seed,
           BuildImage(g, v, seed).err = "none"
    PROVE  WiredFor(g, BuildImage(g, v, seed).graph, v.loras)
<1> DEFINE m == v.model
           latents == {n \in DOMAIN g : g[n].class = "EmptyLatentImage"}
           p == PatchAt(g, "POSITIVE_PROMPT", [text |-> "prompt"])
           g1 == PatchAt(p, "NEGATIVE_PROMPT", [text |-> "negative"])
           sampling == [seed |-> seed, steps |-> v.steps, sampler_name |-> v.sampler,
                        scheduler |-> v.scheduler]
           g2 == PatchAt(g1, "KSAMPLER", sampling)
           size == [pixels |-> v.pixels, batch_size |-> v.n]
           g3 == IF latents = {} THEN g2 ELSE Patch(g2, Min(latents), size)
           sourced == inject_model_source(g3, m)
           checked == Then(sourced, LAMBDA h : inject_vpred(h, m))
           chained == inject_loras(checked.graph, v.loras)
           blocked == \/ ~CanFillAll(g, {"POSITIVE_PROMPT", "NEGATIVE_PROMPT", "KSAMPLER"})
                      \/ latents # {} /\ g[Min(latents)].inputs # "object"
           r == BuildImage(g, v, seed)
<1>1. r = IF blocked THEN Raise("key")
          ELSE IF checked.err = "none" THEN chained ELSE checked
  BY DEF BuildImage, Then
<1>2. checked = IF sourced.err = "none" THEN inject_vpred(sourced.graph, m) ELSE sourced
  BY DEF Then
<1> HIDE DEF sampling, size, latents, blocked
<1>3. SameWiring(g, p) /\ IsGraph(p)
  BY PatchAtWiring
<1> HIDE DEF p
<1>4. SameWiring(p, g1) /\ IsGraph(g1)
  BY <1>3, PatchAtWiring
<1> HIDE DEF g1
<1>5. SameWiring(g1, g2) /\ IsGraph(g2)
  BY <1>4, PatchAtWiring
<1> HIDE DEF g2
<1>6. SameWiring(g2, g3) /\ IsGraph(g3)
  BY <1>5, PatchWiring, WiringRefl, WiringIsGraph
<1> HIDE DEF g3
<1>7. SameWiring(g, g3)
  BY <1>3, <1>4, <1>5, <1>6, WiringTrans
<1> HIDE DEF sourced, checked, chained, r
<1>8. r.err = "none"
  BY DEF r
<1>9. checked.err = "none" /\ r = chained
  BY <1>1, <1>8 DEF Raise
<1>10. sourced.err = "none" /\ checked.graph = sourced.graph
  BY <1>2, <1>9 DEF inject_vpred, Ok, Raise
<1>11. SameWiring(g3, sourced.graph) /\ IsGraph(sourced.graph)
  BY <1>6, <1>10, ModelSourceInjected DEF Rewired, sourced
<1>12. SameWiring(g, sourced.graph)
  BY <1>7, <1>11, WiringTrans
<1>13. inject_loras(sourced.graph, v.loras) = r
  BY <1>9, <1>10 DEF chained
<1>14. CASE v.loras = <<>>
  <2>1. r.graph = sourced.graph
    BY <1>13, <1>14 DEF inject_loras, Ok
  <2> QED BY <1>12, <1>14, <2>1 DEF WiredFor, r
<1>15. CASE v.loras # <<>>
  <2>1. Chained(sourced.graph, inject_loras(sourced.graph, v.loras).graph, v.loras)
    BY <1>8, <1>11, <1>13, <1>15, LorasAreChained
  <2>2. Chained(g, r.graph, v.loras)
    BY <1>12, <1>13, <2>1, ChainedAfter
  <2> QED BY <1>15, <2>2 DEF WiredFor, r
<1> QED BY <1>14, <1>15

\* What an image job submits is the template the worker read, with one loader per LoRA of
\* the validated request.
LorasChained ==
    (job.phase \in {"uploading", "ready"} /\ job.req.kind = "image") =>
        WiredFor(Disks[job.built].templates[job.validated.workflow], job.graph,
                 job.validated.loras)

LEMMA BuildChains ==
    ASSUME PreparationAssumption, IInv, Build
    PROVE  LorasChained'
<1> DEFINE path == job.validated.workflow
           templates == Disks[disk].templates
           g == templates[path]
<1>1. /\ DOMAIN job = DOMAIN Idle /\ job.phase = "validated" /\ job.req \in Requests
      /\ disk \in DOMAIN Disks
  BY DEF IInv, JobInv, Parsed, Types, Build, Idle
<1>2. PICK seed \in ActualSeeds(job.validated) :
         LET r == Graph(templates[path], seed) IN
         job' = IF path \notin DOMAIN templates
                THEN [job EXCEPT !.phase = "failed", !.code = "internal", !.built = disk]
                ELSE IF r.err # "none"
                THEN [job EXCEPT !.phase = "failed", !.code = ErrorCode(r.err), !.built = disk]
                ELSE [job EXCEPT !.phase = IF job.validated.init_image THEN "uploading"
                                           ELSE "ready",
                                 !.built = disk, !.graph = r.graph]
  BY DEF Build
<1> DEFINE r == Graph(g, seed)
           next == IF job.validated.init_image THEN "uploading" ELSE "ready"
<1>3. \/ job' = [job EXCEPT !.phase = "failed", !.code = "internal", !.built = disk]
      \/ job' = [job EXCEPT !.phase = "failed", !.code = ErrorCode(r.err), !.built = disk]
      \/ /\ path \in DOMAIN templates /\ r.err = "none"
         /\ job' = [job EXCEPT !.phase = next, !.built = disk, !.graph = r.graph]
  BY <1>2
<1>4. PICK v \in DOMAIN Disks : JobObeys(job.req, job.validated, Disks[v].loras)
  BY <1>1 DEF IInv, JobInv, JobsWithinLimits
<1>5. job.validated.loras \in Seq(STRING)
  BY <1>4 DEF JobObeys, ImageObeys, VideoObeys, WithinBudget
<1>6. ASSUME path \in DOMAIN templates, r.err = "none", job.req.kind = "image"
      PROVE  WiredFor(g, r.graph, job.validated.loras)
  <2>1. IsGraph(g)
    BY <1>1, <1>6 DEF PreparationAssumption, IsTemplate
  <2>2. r = BuildImage(g, job.validated, seed)
    BY <1>6 DEF Graph, IsLtxv
  <2> HIDE DEF g, r
  <2> QED BY <1>5, <1>6, <2>1, <2>2, ImageIsWired
<1> HIDE DEF r, next
<1>7. \/ job'.phase = "failed"
      \/ /\ path \in DOMAIN templates /\ r.err = "none" /\ job'.graph = r.graph
         /\ job'.validated = job.validated /\ job'.req = job.req /\ job'.built = disk
  BY <1>1, <1>3 DEF Idle
<1> QED BY <1>6, <1>7 DEF LorasChained

\* The name of the uploaded image goes to the node of its anchor.
LEMMA UploadChains ==
    ASSUME IInv, Graphs, LorasChained, UploadImage
    PROVE  LorasChained'
<1> DEFINE new == [image |-> "upload"]
           h == job.graph
           open == Opened(h, "INIT_IMAGE")
           graph == PatchIfAny(open, "INIT_IMAGE", new)
           g == Disks[job.built].templates[job.validated.workflow]
<1>1. DOMAIN job = DOMAIN Idle /\ job.phase = "uploading"
  BY UploadSteps
<1>2. IsGraph(h)
  BY <1>1 DEF Graphs
<1>3. SameWiring(h, open) /\ IsGraph(open)
  BY <1>2, OpenedWiring
<1>4. job'.phase = "failed" \/ job' = [job EXCEPT !.phase = "ready", !.graph = graph]
  BY UploadSteps
<1> HIDE DEF open
<1>5. SameWiring(h, graph)
  BY <1>3, PatchIfAnyWiring, WiringTrans
<1>6. ASSUME job.req.kind = "image"
      PROVE  WiredFor(g, graph, job.validated.loras)
  <2>1. WiredFor(g, h, job.validated.loras)
    BY <1>1, <1>6 DEF LorasChained
  <2>2. \A l : Chained(g, h, l) => Chained(g, graph, l)
    <3> HIDE DEF g, h, new
    <3>1. \A l : Chained(g, h, l) => Chained(g, open, l)
      BY <1>2, ChainedOpened DEF open
    <3> QED BY <1>3, <3>1, ChainedUnpatched
  <2>3. SameWiring(g, h) => SameWiring(g, graph)
    BY <1>5, WiringTrans
  <2> HIDE DEF g, h, graph
  <2> QED BY <2>1, <2>2, <2>3 DEF WiredFor
<1> HIDE DEF graph
<1>7. \/ job'.phase = "failed"
      \/ /\ job'.graph = graph /\ job'.validated = job.validated
         /\ job'.req = job.req /\ job'.built = job.built
  BY <1>1, <1>4 DEF Idle
<1> QED BY <1>6, <1>7 DEF LorasChained

LEMMA LorasChainedKept ==
    ASSUME PreparationAssumption, IInv, Graphs, LorasChained, [Next]_vars
    PROVE  LorasChained'
<1>1. CASE Edit \/ reload_registry \/ setup_bundle \/ WarmedUp \/ close_bundle \/ Unloaded
  <2>1. job' = job
    BY <1>1, AdminKeepsTypes DEF IInv
  <2> QED BY <2>1 DEF LorasChained
<1>2. ASSUME NEW r \in Requests, Arrive(r)
      PROVE  LorasChained'
  <2>1. job'.phase \in {"refused", "parsing"}
    BY <1>2 DEF Arrive, Idle
  <2> QED BY <2>1 DEF LorasChained
<1>3. CASE Admit
  <2>1. DOMAIN job = DOMAIN Idle
    BY DEF IInv, Types
  <2>2. job'.phase \in {"refused", "queued"}
    BY <1>3, <2>1 DEF Admit, Refuse, Idle
  <2> QED BY <2>2 DEF LorasChained
<1>4. CASE Revalidate
  <2>1. DOMAIN job = DOMAIN Idle
    BY DEF IInv, Types
  <2>2. job'.phase \in {"failed", "validated"}
    BY <1>4, <2>1 DEF Revalidate, Idle
  <2> QED BY <2>2 DEF LorasChained
<1>5. CASE Build
  BY <1>5, BuildChains
<1>6. CASE UploadImage
  BY <1>6, UploadChains
<1>7. CASE UNCHANGED vars
  BY <1>7 DEF vars, LorasChained
<1> QED BY <1>1, <1>2, <1>3, <1>4, <1>5, <1>6, <1>7 DEF Next

\* Whatever the requests and the templates: an image is submitted as the template the
\* worker read, with one loader for each LoRA of the request, in its order, the first fed
\* by the model and clip sources, each next by the one before, and the last in the place
\* of the sources wherever they fed a node: no LoRA is lost, doubled, swapped or bypassed
\* (inject_loras, infer_output_slot, rewrite_inputs).
THEOREM LorasChainedHolds == Spec => []LorasChained
<1>1. Init => LorasChained
  BY DEF Init, Idle, LorasChained
<1>2. IInv /\ Graphs /\ LorasChained /\ [Next]_vars => LorasChained'
  BY PreparationAssumption, LorasChainedKept
<1> QED BY <1>1, <1>2, Invariant, GraphsInvariant, PTL DEF Spec

-----------------------------------------------------------------------------
(* The LoRAs of a WAN graph of core nodes, on their two paths.             *)

\* Node i loads the LoRA onto the model of this link.
ModelLoader(h, i, lora, model) ==
    /\ i \in DOMAIN h
    /\ h[i].class = "LoraLoaderModelOnly" /\ h[i].anchors = {} /\ h[i].vals = [lora |-> lora]
    /\ DOMAIN h[i].links = {"model"} /\ h[i].links["model"] = model

\* From node m to node s lies a row of new loaders, one for each LoRA and in their order.
PathFrom(g, h, loras, m, s, base) ==
    /\ \A j \in 1..Len(loras) :
          /\ base + j \notin DOMAIN g
          /\ IF j = 1 THEN ModelLoader(h, base + j, loras[j], <<m, 0>>)
             ELSE ModelLoader(h, base + j, loras[j], <<base + j - 1, 0>>)
    /\ s \in DOMAIN h /\ "model" \in DOMAIN h[s].links
    /\ h[s].links["model"] = <<base + Len(loras), 0>>

PathChained(g, h, loras, m, s) == \E base \in Nat : PathFrom(g, h, loras, m, s, base)

\* The other links are as they were.
OnlyModelOf(g, h, s) ==
    \A i \in DOMAIN g :
        /\ i \in DOMAIN h
        /\ \A k \in DOMAIN g[i].links :
              /\ k \in DOMAIN h[i].links
              /\ h[i].links[k] = g[i].links[k] \/ (i = s /\ k = "model")

LEMMA ModelChainNodes ==
    ASSUME NEW g, IsGraph(g), DOMAIN g # {}, NEW S, NEW loras \in Seq(S), loras # <<>>,
           NEW heads, DOMAIN heads = {"model"}
    PROVE  LET chain == LoraChain(g, "LoraLoaderModelOnly", loras, heads)
               base == Max(DOMAIN g)
               n == Len(loras)
           IN  /\ base \in Nat /\ n \in Nat /\ n # 0
               /\ DOMAIN chain = (base + 1)..(base + n)
               /\ Max(DOMAIN chain) = base + n
               /\ \A j \in 1..n :
                     IF j = 1 THEN ModelLoader(chain, base + j, loras[j], heads["model"])
                     ELSE ModelLoader(chain, base + j, loras[j], <<base + j - 1, 0>>)
<1> DEFINE base == Max(DOMAIN g)
           n == Len(loras)
           links(i) == [k \in DOMAIN heads |->
                          IF i = base + 1 THEN heads[k]
                          ELSE <<i - 1, IF k = "clip" THEN 1 ELSE 0>>]
           node(i) == [class |-> "LoraLoaderModelOnly", anchors |-> {}, inputs |-> "object",
                       links |-> links(i), vals |-> [lora |-> loras[i - base]]]
           chain == LoraChain(g, "LoraLoaderModelOnly", loras, heads)
           new == (base + 1)..(base + n)
<1>1. chain = [i \in new |-> node(i)]
  BY DEF LoraChain
<1>2. base \in Nat
  BY MaxFound DEF IsGraph
<1>3. n \in Nat /\ n # 0
  BY EmptySeq, LenProperties
<1> HIDE DEF base, chain, n
<1>4. DOMAIN chain = new /\ Max(DOMAIN chain) = base + n
  BY <1>1, <1>2, <1>3, MaxInterval
<1>5. ASSUME NEW j \in 1..n
      PROVE  IF j = 1 THEN ModelLoader(chain, base + j, loras[j], heads["model"])
             ELSE ModelLoader(chain, base + j, loras[j], <<base + j - 1, 0>>)
  <2> DEFINE i == base + j
  <2>1. i \in new /\ i - base = j /\ (i = base + 1 <=> j = 1)
    BY <1>2, <1>3
  <2>2. chain[i] = node(i)
    BY <1>1, <2>1
  <2>3. DOMAIN links(i) = {"model"}
    OBVIOUS
  <2>4. j = 1 => links(i)["model"] = heads["model"]
    BY <2>1
  <2>5. j # 1 => links(i)["model"] = <<i - 1, 0>>
    BY <2>1
  <2> HIDE DEF links
  <2>6. /\ chain[i].class = "LoraLoaderModelOnly" /\ chain[i].anchors = {}
        /\ chain[i].links = links(i) /\ chain[i].vals = [lora |-> loras[j]]
    BY <2>1, <2>2
  <2>7. i \in DOMAIN chain
    BY <1>4, <2>1
  <2> HIDE DEF new, node, i
  <2>8. CASE j = 1
    <3>1. ModelLoader(chain, i, loras[j], heads["model"])
      BY <2>3, <2>4, <2>6, <2>7, <2>8 DEF ModelLoader
    <3> QED BY <2>8, <3>1 DEF i
  <2>9. CASE j # 1
    <3> DEFINE model == <<base + j - 1, 0>>
    <3>1. model = <<i - 1, 0>>
      BY <1>2, <1>3 DEF i
    <3> HIDE DEF model
    <3>2. ModelLoader(chain, i, loras[j], model)
      BY <2>3, <2>5, <2>6, <2>7, <2>9, <3>1 DEF ModelLoader
    <3>3. ModelLoader(chain, base + j, loras[j], model)
      BY <3>2 DEF i
    <3> QED BY <2>9, <3>3 DEF model
  <2> QED BY <2>8, <2>9
<1> QED BY <1>2, <1>3, <1>4, <1>5 DEF base, n, chain

\* inject_wan_core_loras_between.
LEMMA PathIsChained ==
    ASSUME NEW g, IsGraph(g), NEW S, NEW loras \in Seq(S), loras # <<>>, NEW model, NEW shift,
           ~Bare(g, shift),
           inject_wan_core_loras_between(g, loras, model, shift).err = "none"
    PROVE  LET h == inject_wan_core_loras_between(g, loras, model, shift).graph
               s == find_anchor(g, shift)
           IN  /\ PathChained(g, h, FirstN(loras, WAN_MAX_LORAS), find_anchor(g, model), s)
               /\ OnlyModelOf(g, h, s) /\ HasAnchor(g, shift)
               /\ \A i \in DOMAIN g : i # s => i \in DOMAIN h /\ h[i] = g[i]
<1> DEFINE ms == find_anchor(g, model)
           s == find_anchor(g, shift)
           heads == [k \in {"model"} |-> <<ms, 0>>]
           first == FirstN(loras, WAN_MAX_LORAS)
           chain == LoraChain(g, "LoraLoaderModelOnly", first, heads)
           k == Over(g, chain)
           end == [x \in {"model"} |-> <<Max(DOMAIN chain), 0>>]
           h == [k EXCEPT ![s].links = Over(end, @)]
           r == inject_wan_core_loras_between(g, loras, model, shift)
           base == Max(DOMAIN g)
           n == Len(first)
<1>1. r = IF ~HasAnchors(g, {model, shift}) THEN Raise("workflow") ELSE Ok(h)
  <2> DEFINE start == [model |-> <<ms, 0>>]
             tail == [model |-> <<Max(DOMAIN chain), 0>>]
  <2>1. start = heads /\ tail = end
    OBVIOUS
  <2> HIDE DEF start, tail
  <2> QED BY <2>1 DEF inject_wan_core_loras_between, start, tail
<1>2. HasAnchors(g, {model, shift}) /\ r.graph = h
  <2> HIDE DEF r, h
  <2>1. r.err = "none"
    BY DEF r
  <2> QED BY <1>1, <2>1 DEF Raise, Ok
<1>3. DOMAIN g # {} /\ s \in DOMAIN g /\ HasAnchor(g, shift)
  BY <1>2, AnchorFound DEF HasAnchors
<1>4. first \in Seq(S) /\ first # <<>>
  BY FirstNIsSeq
<1>5. DOMAIN heads = {"model"} /\ heads["model"] = <<ms, 0>>
  OBVIOUS
<1> HIDE DEF heads, first
<1>6. /\ base \in Nat /\ n \in Nat /\ n # 0
      /\ DOMAIN chain = (base + 1)..(base + n) /\ Max(DOMAIN chain) = base + n
      /\ \A j \in 1..n : IF j = 1 THEN ModelLoader(chain, base + j, first[j], <<ms, 0>>)
                         ELSE ModelLoader(chain, base + j, first[j], <<base + j - 1, 0>>)
  <2>1. /\ base \in Nat /\ n \in Nat /\ n # 0
        /\ DOMAIN chain = (base + 1)..(base + n) /\ Max(DOMAIN chain) = base + n
        /\ \A j \in 1..n : IF j = 1 THEN ModelLoader(chain, base + j, first[j], heads["model"])
                           ELSE ModelLoader(chain, base + j, first[j], <<base + j - 1, 0>>)
    BY ONLY IsGraph(g), <1>3, <1>4, <1>5, ModelChainNodes
  <2> HIDE DEF chain, base, n, ms
  <2> QED BY ONLY <1>5, <2>1
<1>7. DOMAIN chain \cap DOMAIN g = {} /\ \A i \in DOMAIN chain : DOMAIN chain[i] = NodeFields
  BY <1>3, <1>4, ChainShape
<1>8. DOMAIN end = {"model"} /\ end["model"] = <<base + n, 0>>
  BY <1>6
<1> HIDE DEF chain, base, n, end
<1>9. /\ DOMAIN k = DOMAIN g \cup DOMAIN chain
      /\ \A i \in DOMAIN g : k[i] = g[i]
      /\ \A i \in DOMAIN chain : k[i] = chain[i]
  BY <1>7 DEF Over
<1> DEFINE links == Over(end, k[s].links)
<1>10. h = [k EXCEPT ![s] = [k[s] EXCEPT !.links = links]]
  OBVIOUS
<1>11. /\ DOMAIN links = {"model"} \cup DOMAIN g[s].links /\ links["model"] = <<base + n, 0>>
       /\ \A x \in DOMAIN g[s].links : x # "model" => links[x] = g[s].links[x]
  BY <1>3, <1>8, <1>9 DEF Over
<1>12. DOMAIN g[s] = NodeFields
  BY <1>3 DEF IsGraph, NodeFields
<1> HIDE DEF h, k, s, links
<1>13. /\ DOMAIN h = DOMAIN g \cup DOMAIN chain
       /\ \A i \in DOMAIN g : i # s => h[i] = g[i]
       /\ h[s].links = links
       /\ \A i \in DOMAIN chain : h[i] = chain[i]
  BY <1>3, <1>7, <1>9, <1>10, <1>12 DEF NodeFields
<1>14. OnlyModelOf(g, h, s)
  BY <1>11, <1>13 DEF OnlyModelOf
<1>15. \A i, l, x : ModelLoader(chain, i, l, x) => ModelLoader(h, i, l, x)
  BY <1>13 DEF ModelLoader
<1>16. \A j \in 1..n : /\ base + j \notin DOMAIN g
                       /\ IF j = 1 THEN ModelLoader(h, base + j, first[j], <<ms, 0>>)
                          ELSE ModelLoader(h, base + j, first[j], <<base + j - 1, 0>>)
  <2>1. \A j \in 1..n : base + j \in DOMAIN chain
    BY <1>6
  <2> QED BY <1>6, <1>7, <1>15, <2>1
<1>17. s \in DOMAIN h /\ "model" \in DOMAIN h[s].links /\ h[s].links["model"] = <<base + n, 0>>
  BY <1>3, <1>11, <1>13
<1>18. PathFrom(g, h, first, ms, s, base)
  BY <1>16, <1>17 DEF PathFrom, n
<1> QED BY <1>2, <1>3, <1>6, <1>13, <1>14, <1>18 DEF PathChained, first, s, r

\* The LoRAs that go onto each path.
HighPath(g, loras) == IF IsDual(g) THEN HighLoras(loras) ELSE loras
LowPath(g, loras) == IF IsDual(g) THEN LowLoras(loras) ELSE <<>>

\* h is g with the LoRAs of each path in a row from its loader to its shift node, up to
\* the limit.  Where both paths end in one node the second takes it.
TwoPaths(g, h, high, low) ==
    LET s == find_anchor(g, "WAN_SHIFT")
        t == find_anchor(g, "WAN_SHIFT_LOW")
    IN  /\ high # <<>> /\ (low = <<>> \/ s # t) =>
              PathChained(g, h, FirstN(high, WAN_MAX_LORAS), find_anchor(g, "WAN_MODEL"), s)
        /\ low # <<>> =>
              PathChained(g, h, FirstN(low, WAN_MAX_LORAS), find_anchor(g, "WAN_MODEL_LOW"), t)
        /\ \A i \in DOMAIN g :
              /\ i \in DOMAIN h
              /\ \A k \in DOMAIN g[i].links :
                    /\ k \in DOMAIN h[i].links
                    /\ \/ h[i].links[k] = g[i].links[k]
                       \/ k = "model" /\ ((i = s /\ high # <<>>) \/ (i = t /\ low # <<>>))

WanWired(g, h, loras) == TwoPaths(g, h, HighPath(g, loras), LowPath(g, loras))

\* A chain outlasts a change of a node that has an anchor and is not its end.
LEMMA PathOutlasts ==
    ASSUME NEW g, NEW f, NEW h, NEW loras, NEW m, NEW s, NEW t, PathChained(g, f, loras, m, s),
           t \in DOMAIN f => f[t].anchors # {}, s # t,
           \A i \in DOMAIN f : i # t => i \in DOMAIN h /\ h[i] = f[i]
    PROVE  PathChained(g, h, loras, m, s)
<1> PICK base \in Nat : PathFrom(g, f, loras, m, s, base)
  BY DEF PathChained
<1>1. \A i, l, x : ModelLoader(f, i, l, x) => ModelLoader(h, i, l, x)
  BY DEF ModelLoader
<1>2. PathFrom(g, h, loras, m, s, base)
  BY <1>1 DEF PathFrom
<1> QED BY <1>2 DEF PathChained

LEMMA PathOfLess ==
    ASSUME NEW g, NEW f, NEW h, NEW loras, NEW m, NEW s, PathChained(f, h, loras, m, s),
           DOMAIN g \subseteq DOMAIN f
    PROVE  PathChained(g, h, loras, m, s)
<1> PICK base \in Nat : PathFrom(f, h, loras, m, s, base)
  BY DEF PathChained
<1>1. PathFrom(g, h, loras, m, s, base)
  BY DEF PathFrom
<1> QED BY <1>1 DEF PathChained

\* One path: the graph, or the graph with its chain.
Step(g, h, loras, model, shift) ==
    IF loras = <<>> THEN h = g
    ELSE LET s == find_anchor(g, shift) IN
         /\ PathChained(g, h, FirstN(loras, WAN_MAX_LORAS), find_anchor(g, model), s)
         /\ OnlyModelOf(g, h, s) /\ s \in Owners(g, shift)
         /\ \A i \in DOMAIN g : i # s => i \in DOMAIN h /\ h[i] = g[i]

LEMMA BetweenIsAStep ==
    ASSUME NEW g, IsGraph(g), NEW S, NEW loras \in Seq(S), NEW model, NEW shift,
           ~Bare(g, shift),
           inject_wan_core_loras_between(g, loras, model, shift).err = "none"
    PROVE  Step(g, inject_wan_core_loras_between(g, loras, model, shift).graph, loras, model, shift)
<1>1. CASE loras = <<>>
  BY <1>1 DEF Step, inject_wan_core_loras_between, Ok
<1>2. CASE loras # <<>>
  BY <1>2, PathIsChained, AnchorFound DEF Step
<1> QED BY <1>1, <1>2

LEMMA StepsMakePaths ==
    ASSUME NEW g, NEW f, NEW h, NEW high, NEW low, Grows(g, f),
           Step(g, f, high, "WAN_MODEL", "WAN_SHIFT"),
           Step(f, h, low, "WAN_MODEL_LOW", "WAN_SHIFT_LOW")
    PROVE  TwoPaths(g, h, high, low)
<1> DEFINE m == find_anchor(g, "WAN_MODEL")
           s == find_anchor(g, "WAN_SHIFT")
           l == find_anchor(g, "WAN_MODEL_LOW")
           t == find_anchor(g, "WAN_SHIFT_LOW")
           first == FirstN(high, WAN_MAX_LORAS)
           second == FirstN(low, WAN_MAX_LORAS)
<1>1. \A a : find_anchor(f, a) = find_anchor(g, a)
  BY GrowsAnchors
<1>2. /\ high = <<>> => f = g
      /\ high # <<>> => PathChained(g, f, first, m, s) /\ OnlyModelOf(g, f, s)
  BY DEF Step
<1>3. /\ low = <<>> => h = f
      /\ low # <<>> => /\ PathChained(f, h, second, l, t) /\ OnlyModelOf(f, h, t)
                       /\ t \in Owners(f, "WAN_SHIFT_LOW")
                       /\ \A i \in DOMAIN f : i # t => i \in DOMAIN h /\ h[i] = f[i]
  BY <1>1 DEF Step
<1>4. DOMAIN g \subseteq DOMAIN f
  BY DEF Grows, SameNodes
<1> HIDE DEF m, s, l, t, first, second
<1>5. high # <<>> /\ (low = <<>> \/ s # t) => PathChained(g, h, first, m, s)
  <2>1. CASE low = <<>>
    BY <1>2, <1>3, <2>1
  <2>2. CASE low # <<>> /\ high # <<>> /\ s # t
    <3>1. f[t].anchors # {}
      BY <1>3, <2>2 DEF Owners
    <3> QED BY <1>2, <1>3, <2>2, <3>1, PathOutlasts
  <2> QED BY <2>1, <2>2
<1>6. low # <<>> => PathChained(g, h, second, l, t)
  BY <1>3, <1>4, PathOfLess
<1>7. ASSUME NEW i \in DOMAIN g
      PROVE  /\ i \in DOMAIN f
             /\ \A k \in DOMAIN g[i].links :
                   /\ k \in DOMAIN f[i].links
                   /\ f[i].links[k] = g[i].links[k] \/ (k = "model" /\ i = s /\ high # <<>>)
  BY <1>2, <1>4 DEF OnlyModelOf
<1>8. ASSUME NEW i \in DOMAIN f
      PROVE  /\ i \in DOMAIN h
             /\ \A k \in DOMAIN f[i].links :
                   /\ k \in DOMAIN h[i].links
                   /\ h[i].links[k] = f[i].links[k] \/ (k = "model" /\ i = t /\ low # <<>>)
  BY <1>3 DEF OnlyModelOf
<1>9. \A i \in DOMAIN g :
         /\ i \in DOMAIN h
         /\ \A k \in DOMAIN g[i].links :
               /\ k \in DOMAIN h[i].links
               /\ \/ h[i].links[k] = g[i].links[k]
                  \/ k = "model" /\ ((i = s /\ high # <<>>) \/ (i = t /\ low # <<>>))
  <2>1. ASSUME NEW i \in DOMAIN g
        PROVE  i \in DOMAIN f /\ i \in DOMAIN h
    BY <1>7, <1>8
  <2>2. ASSUME NEW i \in DOMAIN g, NEW k \in DOMAIN g[i].links
        PROVE  /\ k \in DOMAIN h[i].links
               /\ \/ h[i].links[k] = g[i].links[k]
                  \/ k = "model" /\ ((i = s /\ high # <<>>) \/ (i = t /\ low # <<>>))
    <3>1. /\ i \in DOMAIN f /\ k \in DOMAIN f[i].links
          /\ f[i].links[k] = g[i].links[k] \/ (k = "model" /\ i = s /\ high # <<>>)
      BY <1>7
    <3>2. /\ k \in DOMAIN h[i].links
          /\ h[i].links[k] = f[i].links[k] \/ (k = "model" /\ i = t /\ low # <<>>)
      BY <1>8, <3>1
    <3> QED BY <3>1, <3>2
  <2> QED BY <2>1, <2>2
<1> QED BY <1>5, <1>6, <1>9 DEF TwoPaths, m, s, l, t, first, second

\* inject_wan_core_loras.
LEMMA CoreIsWired ==
    ASSUME NEW g, IsGraph(g), Fillable(g), NEW S, NEW loras \in Seq(S),
           inject_wan_core_loras(g, loras).err = "none"
    PROVE  WanWired(g, inject_wan_core_loras(g, loras).graph, loras)
<1> DEFINE high == HighLoras(loras)
           low == LowLoras(loras)
           single == inject_wan_core_loras_between(g, loras, "WAN_MODEL", "WAN_SHIFT")
           first == inject_wan_core_loras_between(g, high, "WAN_MODEL", "WAN_SHIFT")
           second == inject_wan_core_loras_between(first.graph, low, "WAN_MODEL_LOW",
                                                   "WAN_SHIFT_LOW")
           r == inject_wan_core_loras(g, loras)
<1>1. r = IF ~IsDual(g) THEN single ELSE IF first.err = "none" THEN second ELSE first
  BY DEF inject_wan_core_loras, Then
<1>2. high \in Seq(S) /\ low \in Seq(S)
  BY PathLorasAreSeqs
<1>3. r.err = "none" /\ ~Bare(g, "WAN_SHIFT")
  BY AnchorFilled
<1> HIDE DEF high, low, r
<1>4. CASE ~IsDual(g)
  <2>1. r = single /\ HighPath(g, loras) = loras /\ LowPath(g, loras) = <<>>
    BY <1>1, <1>4 DEF HighPath, LowPath
  <2>2. Step(g, single.graph, loras, "WAN_MODEL", "WAN_SHIFT")
    BY <1>3, <2>1, BetweenIsAStep
  <2>3. Grows(g, single.graph)
    BY <1>3, <2>1, CoreLorasGrow
  <2>4. Step(single.graph, single.graph, <<>>, "WAN_MODEL_LOW", "WAN_SHIFT_LOW")
    BY DEF Step
  <2> HIDE DEF single
  <2>5. TwoPaths(g, single.graph, loras, <<>>)
    BY <2>2, <2>3, <2>4, StepsMakePaths
  <2> QED BY <2>1, <2>5 DEF WanWired, r
<1>5. CASE IsDual(g)
  <2>1. first.err = "none" /\ second.err = "none" /\ r = second
    <3> HIDE DEF first, second
    <3> QED BY <1>1, <1>3, <1>5
  <2>2. HighPath(g, loras) = high /\ LowPath(g, loras) = low
    BY <1>5 DEF HighPath, LowPath, high, low
  <2>3. Step(g, first.graph, high, "WAN_MODEL", "WAN_SHIFT") /\ Grows(g, first.graph)
    BY <1>2, <1>3, <2>1, BetweenIsAStep, CoreLorasGrow
  <2>4. IsGraph(first.graph) /\ ~Bare(first.graph, "WAN_SHIFT_LOW")
    <3>1. Sound(g, WanSources, first)
      BY <1>2, CoreLorasAreSpliced DEF WanSources
    <3>2. IsGraph(first.graph) /\ Fillable(first.graph)
      BY <2>1, <3>1 DEF Sound
    <3> QED BY <3>2, AnchorFilled
  <2> HIDE DEF first
  <2>5. Step(first.graph, second.graph, low, "WAN_MODEL_LOW", "WAN_SHIFT_LOW")
    BY <1>2, <2>1, <2>4, BetweenIsAStep
  <2> HIDE DEF second
  <2>6. TwoPaths(g, second.graph, high, low)
    BY <2>3, <2>5, StepsMakePaths
  <2> QED BY <2>1, <2>2, <2>6 DEF WanWired, r
<1> QED BY <1>4, <1>5

\* The same graph but for values, and none of a loader.
Steady(h, k) ==
    /\ SameWiring(h, k)
    /\ \A i, l, x : ModelLoader(h, i, l, x) => ModelLoader(k, i, l, x)

LEMMA SteadyTrans ==
    ASSUME NEW g, NEW h, NEW k, Steady(g, h), Steady(h, k)
    PROVE  Steady(g, k)
BY WiringTrans DEF Steady

LEMMA SteadyRefl ==
    ASSUME NEW g, IsGraph(g)
    PROVE  Steady(g, g)
BY WiringRefl DEF Steady

LEMMA PatchAtSteady ==
    ASSUME NEW g, IsGraph(g), NEW a, HasAnchor(g, a), NEW new
    PROVE  Steady(g, PatchAt(g, a, new)) /\ IsGraph(PatchAt(g, a, new))
<1> DEFINE o == find_anchor(g, a)
           vals == Over(new, g[o].vals)
           h == PatchAt(g, a, new)
<1>1. SameWiring(g, h) /\ IsGraph(h)
  BY PatchAtWiring
<1>2. o \in Owners(g, a)
  BY AnchorFound
<1>3. h = [g EXCEPT ![o] = [g[o] EXCEPT !.vals = vals]]
  BY DEF PatchAt, Patch
<1> HIDE DEF h, o, vals
<1>4. ASSUME NEW i, NEW l, NEW x, ModelLoader(g, i, l, x)
      PROVE  ModelLoader(h, i, l, x)
  <2>1. i # o /\ i \in DOMAIN g
    BY <1>2, <1>4 DEF ModelLoader, Owners
  <2>2. i \in DOMAIN h /\ h[i] = g[i]
    BY <1>3, <2>1
  <2> QED BY <1>4, <2>2 DEF ModelLoader
<1>5. Steady(g, h)
  BY <1>1, <1>4 DEF Steady
<1> QED BY <1>1, <1>5 DEF h

LEMMA PatchIfAnySteady ==
    ASSUME NEW g, IsGraph(g), NEW a, NEW new
    PROVE  Steady(g, PatchIfAny(g, a, new)) /\ IsGraph(PatchIfAny(g, a, new))
BY PatchAtSteady, SteadyRefl DEF PatchIfAny, CanFill

LEMMA OpenedSteady ==
    ASSUME NEW g, IsGraph(g), NEW a
    PROVE  Steady(g, Opened(g, a)) /\ IsGraph(Opened(g, a))
<1>1. SameWiring(g, Opened(g, a)) /\ IsGraph(Opened(g, a))
  BY OpenedWiring
<1>2. \A i, l, x : ModelLoader(g, i, l, x) => ModelLoader(Opened(g, a), i, l, x)
  BY OpenedNode DEF ModelLoader
<1> QED BY <1>1, <1>2 DEF Steady

LEMMA OverNothing ==
    ASSUME NEW f, DOMAIN f = {}, NEW l
    PROVE  Over(f, [lora |-> l]) = [lora |-> l]
<1>1. Over(f, [lora |-> l]) = [x \in {"lora"} |-> l]
  BY DEF Over
<1> QED BY <1>1

LEMMA AdvancedSteady ==
    ASSUME NEW h, IsGraph(h), NEW adv, NEW task,
           apply_wan_advanced_patches(h, adv, task).err = "none"
    PROVE  LET k == apply_wan_advanced_patches(h, adv, task).graph IN Steady(h, k) /\ IsGraph(k)
<1> DEFINE groups == (adv \cap DOMAIN AdvancedGroups)
                        \ (IF task = "i2v" THEN {} ELSE {"encode", "clip_encode"})
           reached == {x \in groups : /\ HasAnchor(h, AdvancedGroups[x])
                                      /\ Knows(ClassAt(h, AdvancedGroups[x]), x)}
           here(i) == {y \in reached : find_anchor(h, AdvancedGroups[y]) = i}
           new(i) == [x \in here(i) |-> "requested"]
           vals(i) == Over(new(i), h[i].vals)
           e == [i \in DOMAIN h |-> [h[i] EXCEPT !.vals = vals(i)]]
           r == apply_wan_advanced_patches(h, adv, task)
           missing == \/ \E x \in groups \cap MustHaveAnchor : ~HasAnchor(h, AdvancedGroups[x])
                      \/ \E x \in reached : Bare(h, AdvancedGroups[x])
<1>1. r = IF missing THEN Raise("workflow") ELSE Ok(e)
  BY DEF apply_wan_advanced_patches
<1>2. Rewired(h, r)
  BY AdvancedWiring
<1>3. ASSUME NEW i, h[i].anchors = {}, i \in DOMAIN h
      PROVE  here(i) = {}
  <2>1. \A y \in here(i) : i \in Owners(h, AdvancedGroups[y])
    BY AnchorFound
  <2> QED BY <1>3, <2>1 DEF Owners
<1>4. \A i : DOMAIN new(i) = here(i)
  OBVIOUS
<1> HIDE DEF here, new
<1>5. ASSUME NEW i, NEW l, NEW x, ModelLoader(h, i, l, x)
      PROVE  ModelLoader(e, i, l, x)
  <2>1. i \in DOMAIN h /\ h[i].anchors = {} /\ h[i].vals = [lora |-> l]
    BY <1>5 DEF ModelLoader
  <2>2. DOMAIN new(i) = {}
    BY <1>3, <1>4, <2>1
  <2>3. vals(i) = [lora |-> l]
    BY <2>1, <2>2, OverNothing
  <2>4. DOMAIN h[i] = NodeFields /\ e[i] = [h[i] EXCEPT !.vals = vals(i)] /\ i \in DOMAIN e
    BY <2>1 DEF IsGraph, NodeFields
  <2> HIDE DEF e, vals
  <2>5. /\ e[i].class = h[i].class /\ e[i].anchors = h[i].anchors
        /\ e[i].links = h[i].links /\ e[i].vals = [lora |-> l]
    BY <2>3, <2>4 DEF NodeFields
  <2> QED BY <1>5, <2>4, <2>5 DEF ModelLoader
<1> HIDE DEF e, missing, r
<1>6. r.err = "none"
  BY DEF r
<1>7. r.graph = e /\ SameWiring(h, e) /\ IsGraph(e)
  BY <1>1, <1>2, <1>6 DEF Raise, Ok, Rewired
<1>8. Steady(h, e)
  BY <1>5, <1>7 DEF Steady
<1> QED BY <1>7, <1>8 DEF r

LEMMA WanSamplerSteady ==
    ASSUME NEW g, IsGraph(g), HasAnchor(g, "WAN_SAMPLER"), NEW v, NEW seed
    PROVE  Steady(g, WanSampler(g, v, seed)) /\ IsGraph(WanSampler(g, v, seed))
<1> DEFINE plan == [noise_seed |-> seed, steps |-> v.steps, scheduler |-> CoreScheduler(v.scheduler)]
           half == half_steps(v.steps)
           until == Over([end_at_step |-> half], plan)
           since == Over([start_at_step |-> half], plan)
           shift == [shift |-> "shift"]
           single == [seed |-> seed, steps |-> v.steps, scheduler |-> v.scheduler]
           first == PatchAt(g, "WAN_SAMPLER", until)
           shifted == PatchIfAny(first, "WAN_SHIFT", shift)
           second == PatchIfAny(shifted, "WAN_NAG_SAMPLER", since)
           one == PatchAt(g, "WAN_SAMPLER", single)
           r == WanSampler(g, v, seed)
<1>1. r = second \/ r = one
  BY DEF WanSampler
<1> HIDE DEF plan, half, until, since, shift, single
<1>2. Steady(g, first) /\ IsGraph(first)
  BY PatchAtSteady
<1> HIDE DEF first
<1>3. Steady(first, shifted) /\ IsGraph(shifted)
  BY <1>2, PatchIfAnySteady
<1> HIDE DEF shifted
<1>4. Steady(shifted, second) /\ IsGraph(second)
  BY <1>3, PatchIfAnySteady
<1> HIDE DEF second
<1>5. Steady(g, second)
  BY <1>2, <1>3, <1>4, SteadyTrans
<1>6. Steady(g, one) /\ IsGraph(one)
  BY PatchAtSteady
<1> HIDE DEF one, r
<1>7. Steady(g, r) /\ IsGraph(r)
  BY <1>1, <1>4, <1>5, <1>6
<1> QED BY <1>7 DEF r

LEMMA WanPromptsSteady ==
    ASSUME NEW g, IsGraph(g), IsCore(g), HasAnchors(g, {"WAN_POSITIVE", "WAN_NEGATIVE"})
    PROVE  Steady(g, WanPrompts(g)) /\ IsGraph(WanPrompts(g))
<1> DEFINE p == [text |-> "prompt"]
           n == [text |-> "negative"]
           g1 == PatchAt(g, "WAN_POSITIVE", p)
           g2 == PatchAt(g1, "WAN_NEGATIVE", n)
<1>1. WanPrompts(g) = g2
  BY DEF WanPrompts
<1> HIDE DEF p, n
<1>2. Steady(g, g1) /\ IsGraph(g1)
  BY PatchAtSteady DEF HasAnchors
<1> HIDE DEF g1
<1>3. HasAnchor(g1, "WAN_NEGATIVE")
  BY <1>2, WiringAnchors DEF Steady, HasAnchors
<1>4. Steady(g1, g2) /\ IsGraph(g2)
  BY <1>2, <1>3, PatchAtSteady
<1> HIDE DEF g2
<1> QED BY <1>1, <1>2, <1>4, SteadyTrans

\* What is wired from a graph is wired from any that differs from it in values.
LEMMA WiredAfter ==
    ASSUME NEW g, NEW w, SameWiring(g, w), NEW h, NEW loras, WanWired(w, h, loras)
    PROVE  WanWired(g, h, loras)
<1>1. \A a : HasAnchor(w, a) = HasAnchor(g, a) /\ find_anchor(w, a) = find_anchor(g, a)
  BY WiringAnchors
<1>2. IsDual(w) = IsDual(g)
  BY <1>1 DEF IsDual, HasAnchors
<1>3. HighPath(w, loras) = HighPath(g, loras) /\ LowPath(w, loras) = LowPath(g, loras)
  BY <1>2 DEF HighPath, LowPath
<1>4. DOMAIN w = DOMAIN g /\ \A i \in DOMAIN g : w[i].links = g[i].links
  BY DEF SameWiring
<1>5. \A l, m, s : PathChained(w, h, l, m, s) => PathChained(g, h, l, m, s)
  BY <1>4, PathOfLess
<1> DEFINE high == HighPath(g, loras)
           low == LowPath(g, loras)
<1>6. TwoPaths(w, h, high, low)
  BY <1>3 DEF WanWired
<1> HIDE DEF high, low
<1>7. TwoPaths(g, h, high, low)
  BY <1>1, <1>4, <1>5, <1>6 DEF TwoPaths
<1> QED BY <1>7 DEF WanWired, high, low

\* Values that are no loader's leave the paths as they are.
LEMMA PathSteady ==
    ASSUME NEW g, NEW h, NEW k, Steady(h, k), NEW loras, NEW m, NEW s,
           PathChained(g, h, loras, m, s)
    PROVE  PathChained(g, k, loras, m, s)
<1> PICK base \in Nat : PathFrom(g, h, loras, m, s, base)
  BY DEF PathChained
<1>1. \A i, l, x : ModelLoader(h, i, l, x) => ModelLoader(k, i, l, x)
  BY DEF Steady
<1>2. \A i \in DOMAIN h : i \in DOMAIN k /\ k[i].links = h[i].links
  BY DEF Steady, SameWiring
<1>3. PathFrom(g, k, loras, m, s, base)
  BY <1>1, <1>2 DEF PathFrom
<1> QED BY <1>3 DEF PathChained

LEMMA WiredSteady ==
    ASSUME NEW g, NEW h, NEW loras, WanWired(g, h, loras), NEW k, Steady(h, k)
    PROVE  WanWired(g, k, loras)
<1> DEFINE high == HighPath(g, loras)
           low == LowPath(g, loras)
<1>1. \A l, m, s : PathChained(g, h, l, m, s) => PathChained(g, k, l, m, s)
  BY PathSteady
<1>2. \A i \in DOMAIN h : i \in DOMAIN k /\ k[i].links = h[i].links
  BY DEF Steady, SameWiring
<1>3. TwoPaths(g, h, high, low)
  BY DEF WanWired
<1> HIDE DEF high, low
<1>4. TwoPaths(g, k, high, low)
  BY <1>1, <1>2, <1>3 DEF TwoPaths
<1> QED BY <1>4 DEF WanWired, high, low

LEMMA GrowsIsCore ==
    ASSUME NEW g, NEW h, Grows(g, h), IsCore(g)
    PROVE  IsCore(h)
BY DEF IsCore, Grows, SameNodes

\* The weights, the LoRAs and the advanced options of a WAN graph of core nodes.
LEMMA WanWeightsWired ==
    ASSUME NEW g, IsGraph(g), Fillable(g), IsCore(g), NEW v, NEW S, v.loras \in Seq(S), NEW task,
           WanWeights(g, v, task).err = "none"
    PROVE  WanWired(g, WanWeights(g, v, task).graph, v.loras)
<1> DEFINE m == v.model
           files == inject_video_weights(g, m)
           audio == inject_mmaudio_weights(files.graph, m)
           weights == Then(files, LAMBDA h : inject_mmaudio_weights(h, m))
           w == weights.graph
           chained == inject_wan_core_loras(w, v.loras)
           loras == Then(weights, LAMBDA h :
                        IF IsCore(g) THEN inject_wan_core_loras(h, v.loras)
                        ELSE inject_wan_lora_multi(h, v.loras, v.wan_advanced))
           patched == apply_wan_advanced_patches(loras.graph, v.wan_advanced, task)
           r == WanWeights(g, v, task)
<1>1. /\ weights = IF files.err = "none" THEN audio ELSE files
      /\ loras = IF weights.err = "none" THEN chained ELSE weights
      /\ r = IF loras.err = "none" THEN patched ELSE loras
  BY DEF WanWeights, Then
<1>2. Rewired(g, files)
  BY VideoWeightsInjected
<1> HIDE DEF files
<1>3. files.err = "none" => Rewired(files.graph, audio)
  BY <1>2, MmaudioWeightsInjected DEF Rewired
<1> HIDE DEF audio, weights
<1>4. Rewired(g, weights)
  BY <1>1, <1>2, <1>3, RewiredAfter
<1>5. r.err = "none"
  OBVIOUS
<1> HIDE DEF loras, patched, r, w
<1>6. weights.err = "none" /\ loras = chained /\ loras.err = "none" /\ r = patched
  <2> HIDE DEF chained
  <2> QED BY <1>1, <1>5
<1>7. SameWiring(g, w) /\ IsGraph(w) /\ Fillable(w)
  BY <1>4, <1>6, WiringFilled DEF Rewired, w
<1>8. WanWired(w, chained.graph, v.loras)
  BY <1>6, <1>7, CoreIsWired
<1>9. WanWired(g, chained.graph, v.loras)
  BY <1>7, <1>8, WiredAfter
<1>10. IsGraph(chained.graph)
  <2>1. Sound(w, WanSources, chained)
    BY <1>7, AllCoreLorasAreSpliced
  <2> QED BY <1>6, <2>1 DEF Sound
<1>11. Steady(loras.graph, patched.graph)
  <2>1. IsGraph(loras.graph) /\ patched.err = "none"
    BY <1>5, <1>6, <1>10
  <2> QED BY <2>1, AdvancedSteady DEF patched
<1>12. WanWired(g, patched.graph, v.loras)
  BY <1>6, <1>9, <1>11, WiredSteady
<1> QED BY <1>6, <1>12 DEF r

\* _run_video_pipeline with a template of core nodes.
LEMMA WanGraphIsWired ==
    ASSUME NEW g, IsGraph(g), Fillable(g), IsCore(g), NEW v, NEW S, v.loras \in Seq(S), NEW task, NEW seed,
           BuildWan(g, v, task, seed).err = "none"
    PROVE  WanWired(g, BuildWan(g, v, task, seed).graph, v.loras)
<1> DEFINE prompts == {"WAN_POSITIVE", "WAN_NEGATIVE"}
           rate == [frame_rate |-> "fps"]
           audio == [frames |-> v.frames, seed |-> seed]
           weights == WanWeights(g, v, task)
           h == weights.graph
           h1 == WanPrompts(h)
           h2 == WanDims(h1, v)
           h3 == WanSampler(h2, v, seed)
           h4 == PatchIfAny(h3, "VIDEO_OUTPUT", rate)
           h5 == PatchIfAny(h4, "MMAUDIO_SAMPLER", audio)
           blocked == \/ ~CanFillAll(h, prompts \cup {"WAN_DIMS", "WAN_SAMPLER"})
                      \/ \E a \in WanOptional(h) : Unfit(h, a)
           q == IF blocked THEN Raise("key") ELSE Ok(h5)
           r == BuildWan(g, v, task, seed)
<1>1. r = IF weights.err = "none" THEN q ELSE weights
  BY DEF BuildWan, Then
<1>2. r.err = "none"
  OBVIOUS
<1> HIDE DEF r
<1>3. weights.err = "none" /\ r = q
  <2> HIDE DEF q, weights
  <2> QED BY <1>1, <1>2
<1>4. WanWired(g, h, v.loras)
  BY <1>3, WanWeightsWired
<1>5. Grows(g, h) /\ IsGraph(h)
  BY <1>3, WanWeightsGrow
<1> HIDE DEF weights, rate, audio, h
<1>6. ~blocked /\ r = Ok(h5)
  <2> HIDE DEF blocked, h5
  <2> QED BY <1>2, <1>3 DEF Raise, Ok
<1>7. /\ HasAnchors(h, {"WAN_POSITIVE", "WAN_NEGATIVE"})
      /\ HasAnchor(h, "WAN_DIMS") /\ HasAnchor(h, "WAN_SAMPLER")
  BY <1>6 DEF HasAnchors, CanFillAll, CanFill
<1>8. IsCore(h)
  BY <1>5, GrowsIsCore
<1>9. Steady(h, h1) /\ IsGraph(h1)
  BY <1>5, <1>7, <1>8, WanPromptsSteady
<1>10. HasAnchor(h1, "WAN_DIMS") /\ HasAnchor(h1, "WAN_SAMPLER")
  BY <1>7, <1>9, WiringAnchors DEF Steady
<1> HIDE DEF h1
<1>11. Steady(h1, h2) /\ IsGraph(h2)
  BY <1>9, <1>10, PatchAtSteady DEF WanDims
<1>12. HasAnchor(h2, "WAN_SAMPLER")
  <2> HIDE DEF h2
  <2> QED BY <1>10, <1>11, WiringAnchors DEF Steady
<1> HIDE DEF h2
<1>13. Steady(h2, h3) /\ IsGraph(h3)
  BY <1>11, <1>12, WanSamplerSteady
<1> HIDE DEF h3
<1>14. Steady(h3, h4) /\ IsGraph(h4)
  BY <1>13, PatchIfAnySteady
<1> HIDE DEF h4
<1>15. Steady(h4, h5)
  BY <1>14, PatchIfAnySteady
<1> HIDE DEF h5
<1>16. Steady(h, h5)
  BY <1>9, <1>11, <1>13, <1>14, <1>15, SteadyTrans
<1>17. WanWired(g, h5, v.loras)
  BY <1>4, <1>16, WiredSteady
<1> QED BY <1>6, <1>17 DEF Ok, r

\* What a WAN job submits, where the template is of core nodes and the nodes to fill in
\* have inputs, is the template with the LoRAs of the validated request on their paths.
WanLorasChained ==
    LET g == Disks[job.built].templates[job.validated.workflow] IN
    (/\ job.phase \in {"uploading", "ready"} /\ job.req.kind = "video" /\ ~IsLtxv
     /\ IsCore(g) /\ ~InputsMissing(g)) =>
        WanWired(g, job.graph, job.validated.loras)

LEMMA BuildChainsWan ==
    ASSUME PreparationAssumption, IInv, Build
    PROVE  WanLorasChained'
<1> DEFINE path == job.validated.workflow
           templates == Disks[disk].templates
           g == templates[path]
<1>1. /\ DOMAIN job = DOMAIN Idle /\ job.phase = "validated" /\ job.req \in Requests
      /\ disk \in DOMAIN Disks
  BY DEF IInv, JobInv, Parsed, Types, Build, Idle
<1>2. PICK seed \in ActualSeeds(job.validated) :
         LET r == Graph(templates[path], seed) IN
         job' = IF path \notin DOMAIN templates
                THEN [job EXCEPT !.phase = "failed", !.code = "internal", !.built = disk]
                ELSE IF r.err # "none"
                THEN [job EXCEPT !.phase = "failed", !.code = ErrorCode(r.err), !.built = disk]
                ELSE [job EXCEPT !.phase = IF job.validated.init_image THEN "uploading"
                                           ELSE "ready",
                                 !.built = disk, !.graph = r.graph]
  BY DEF Build
<1> DEFINE r == Graph(g, seed)
           next == IF job.validated.init_image THEN "uploading" ELSE "ready"
<1>3. \/ job' = [job EXCEPT !.phase = "failed", !.code = "internal", !.built = disk]
      \/ job' = [job EXCEPT !.phase = "failed", !.code = ErrorCode(r.err), !.built = disk]
      \/ /\ path \in DOMAIN templates /\ r.err = "none"
         /\ job' = [job EXCEPT !.phase = next, !.built = disk, !.graph = r.graph]
  BY <1>2
<1>4. PICK v \in DOMAIN Disks : JobObeys(job.req, job.validated, Disks[v].loras)
  BY <1>1 DEF IInv, JobInv, JobsWithinLimits
<1>5. job.validated.loras \in Seq(STRING)
  BY <1>4 DEF JobObeys, ImageObeys, VideoObeys, WithinBudget
<1>6. ASSUME path \in DOMAIN templates, r.err = "none", job.req.kind = "video", ~IsLtxv,
             IsCore(g), ~InputsMissing(g)
      PROVE  WanWired(g, r.graph, job.validated.loras)
  <2>1. IsGraph(g) /\ Fillable(g)
    BY <1>1, <1>6, FillableMeans DEF PreparationAssumption, IsTemplate
  <2>2. r = BuildWan(g, job.validated, job.req.task, seed)
    BY <1>6 DEF Graph
  <2> HIDE DEF g, r
  <2> QED BY <1>5, <1>6, <2>1, <2>2, WanGraphIsWired
<1> HIDE DEF r, next
<1>7. \/ job'.phase = "failed"
      \/ /\ path \in DOMAIN templates /\ r.err = "none" /\ job'.graph = r.graph
         /\ job'.validated = job.validated /\ job'.req = job.req /\ job'.built = disk
  BY <1>1, <1>3 DEF Idle
<1> QED BY <1>6, <1>7 DEF WanLorasChained, IsLtxv

LEMMA UploadChainsWan ==
    ASSUME IInv, Graphs, WanLorasChained, UploadImage
    PROVE  WanLorasChained'
<1> DEFINE new == [image |-> "upload"]
           h == job.graph
           open == Opened(h, "INIT_IMAGE")
           graph == PatchIfAny(open, "INIT_IMAGE", new)
           g == Disks[job.built].templates[job.validated.workflow]
<1>1. DOMAIN job = DOMAIN Idle /\ job.phase = "uploading"
  BY UploadSteps
<1>2. IsGraph(h)
  BY <1>1 DEF Graphs
<1>3. Steady(h, open) /\ IsGraph(open)
  BY <1>2, OpenedSteady
<1>4. job'.phase = "failed" \/ job' = [job EXCEPT !.phase = "ready", !.graph = graph]
  BY UploadSteps
<1> HIDE DEF open
<1>5. Steady(h, graph)
  BY <1>3, PatchIfAnySteady, SteadyTrans
<1>6. ASSUME job.req.kind = "video", ~IsLtxv, IsCore(g), ~InputsMissing(g)
      PROVE  WanWired(g, graph, job.validated.loras)
  <2>1. WanWired(g, h, job.validated.loras)
    BY <1>1, <1>6 DEF WanLorasChained
  <2> HIDE DEF g, h, graph
  <2> QED BY <1>5, <2>1, WiredSteady
<1> HIDE DEF graph
<1>7. \/ job'.phase = "failed"
      \/ /\ job'.graph = graph /\ job'.validated = job.validated
         /\ job'.req = job.req /\ job'.built = job.built
  BY <1>1, <1>4 DEF Idle
<1> QED BY <1>6, <1>7 DEF WanLorasChained, IsLtxv

LEMMA WanLorasChainedKept ==
    ASSUME PreparationAssumption, IInv, Graphs, WanLorasChained, [Next]_vars
    PROVE  WanLorasChained'
<1>1. CASE Edit \/ reload_registry \/ setup_bundle \/ WarmedUp \/ close_bundle \/ Unloaded
  <2>1. job' = job
    BY <1>1, AdminKeepsTypes DEF IInv
  <2> QED BY <2>1 DEF WanLorasChained, IsLtxv
<1>2. ASSUME NEW r \in Requests, Arrive(r)
      PROVE  WanLorasChained'
  <2>1. job'.phase \in {"refused", "parsing"}
    BY <1>2 DEF Arrive, Idle
  <2> QED BY <2>1 DEF WanLorasChained
<1>3. CASE Admit
  <2>1. DOMAIN job = DOMAIN Idle
    BY DEF IInv, Types
  <2>2. job'.phase \in {"refused", "queued"}
    BY <1>3, <2>1 DEF Admit, Refuse, Idle
  <2> QED BY <2>2 DEF WanLorasChained
<1>4. CASE Revalidate
  <2>1. DOMAIN job = DOMAIN Idle
    BY DEF IInv, Types
  <2>2. job'.phase \in {"failed", "validated"}
    BY <1>4, <2>1 DEF Revalidate, Idle
  <2> QED BY <2>2 DEF WanLorasChained
<1>5. CASE Build
  BY <1>5, BuildChainsWan
<1>6. CASE UploadImage
  BY <1>6, UploadChainsWan
<1>7. CASE UNCHANGED vars
  BY <1>7 DEF vars, WanLorasChained, IsLtxv
<1> QED BY <1>1, <1>2, <1>3, <1>4, <1>5, <1>6, <1>7 DEF Next

\* Whatever the requests and the templates: where the nodes to fill in have inputs, a WAN
\* video of core nodes is submitted as the template the worker read, with one loader for
\* each LoRA, up to the limit of a path, in the order of the request, the first fed by the
\* path's loader, each next by the one before, and the last in place of what fed the
\* path's shift node; where the model has two experts the second LoRA goes on the path of
\* low noise and the others on that of high noise.  No other input of the template changes.
\* A path whose shift node has no inputs would lose its LoRAs without an error
\* (inject_wan_core_loras, _inject_wan_core_loras_between).
THEOREM WanLorasChainedHolds == Spec => []WanLorasChained
<1>1. Init => WanLorasChained
  BY DEF Init, Idle, WanLorasChained
<1>2. IInv /\ Graphs /\ WanLorasChained /\ [Next]_vars => WanLorasChained'
  BY PreparationAssumption, WanLorasChainedKept
<1> QED BY <1>1, <1>2, Invariant, GraphsInvariant, PTL DEF Spec
=============================================================================
