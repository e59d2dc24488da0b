----------------------------- MODULE Validation -----------------------------
(***************************************************************************)
(* Request validation (validation.py): the Pydantic limits of the request  *)
(* models, then resolve_and_validate for images and                        *)
(* resolve_and_validate_video for videos.  The first failed check gives    *)
(* the error code; a request that passes gives the job the worker builds   *)
(* from, with the model configuration copied into it.                      *)
(*                                                                         *)
(* A size is its number of pixels, the default filled in where the request *)
(* has none.  A LoRA is a name; one in Outside resolves to a path outside  *)
(* the LoRA root.  An init image is None, "good", "empty" (base64 of no    *)
(* bytes) or "bad" (not base64).                                           *)
(***************************************************************************)
EXTENDS Registry, Integers

CONSTANTS
    MaxSeed,        \* 2^53 in the request models
    Outside,        \* LoRA names that escape the LoRA root
    LoraVram,       \* _LORA_VRAM_OVERHEAD_GB
    AsyncEnabled    \* ASYNC_MODE_ENABLED

Given(x, default) == IF x # None THEN x ELSE default

\* GenerateRequest and VideoGenerateRequest; absent fields have their defaults.
model_validate(r) ==
    /\ r.n >= 1
    /\ r.steps = None \/ r.steps >= 1
    /\ r.seed \in -1..MaxSeed
    /\ Len(r.loras) <= IF r.kind = "image" THEN 20 ELSE WAN_MAX_LORAS
    /\ r.kind = "video" => r.frames \in 5..10000

\* Mutant: round down.
RoundsDown(raw) == raw - ((raw - 1) % 4)

normalize_wan_num_frames(raw) ==
    IF raw < 5 THEN 5 ELSE raw + ((4 - ((raw - 1) % 4)) % 4)

normalize_ltxv_num_frames(raw) ==
    IF raw < 9 THEN 9 ELSE raw + ((8 - ((raw - 1) % 8)) % 8)

\* Each name in turn: outside the root, then not there.
resolve_loras_for_job(names, loras) ==
    [i \in DOMAIN names |->
        IF names[i] \in Outside THEN <<"validation_error", TRUE>>
        ELSE <<"lora_missing", names[i] \notin loras>>]

WebhookChecks(r) == << <<"validation_error", r.webhook = "bad">> >>

VramCheck(m, loras) == << <<"vram_budget_exceeded", m.vram + LoraVram * Len(loras) > VramBudget>> >>

Rejected(code) == [code |-> code, job |-> None]
Accepted(job) == [code |-> "ok", job |-> job]

-----------------------------------------------------------------------------
ImageSteps(r, m) == Given(r.steps, Given(m.steps, 28))
ImageSampler(r, m) == Given(r.sampler, Given(m.sampler, "euler_ancestral"))
ImageScheduler(r, m) == Given(r.scheduler, Given(m.scheduler, "karras"))

ImageChecks(r, m, loras) ==
    << <<"validation_error", ImageSampler(r, m) \notin AllowedSamplers(m.family)>>,
       <<"validation_error", ImageScheduler(r, m) \notin AllowedSchedulers(m.family)>>,
       <<"validation_error", r.pixels > Given(m.limits.size_max_pixels, 1048576)>>,
       <<"validation_error", r.n > Given(m.limits.n_max, 1)>>,
       <<"validation_error", ImageSteps(r, m) > Given(m.limits.steps_max, 50)>>,
       <<"async_not_enabled", r.mode = "async" /\ ~AsyncEnabled>> >>
    \o WebhookChecks(r)
    \o resolve_loras_for_job(r.loras, loras)
    \o VramCheck(m, r.loras)
    \o << <<"validation_error", r.init_image = "bad">> >>

resolve_and_validate(r, models, loras) ==
    LET m == models[r.model]
        code == IF r.model \notin DOMAIN models THEN "validation_error"
                ELSE FirstFailure(ImageChecks(r, m, loras))
    IN  IF code # "ok" THEN Rejected(code)
        ELSE Accepted([model |-> m, pixels |-> r.pixels, n |-> r.n, steps |-> ImageSteps(r, m),
                       sampler |-> ImageSampler(r, m), scheduler |-> ImageScheduler(r, m),
                       seed |-> r.seed, loras |-> r.loras, workflow |-> m.workflow,
                       init_image |-> r.init_image = "good"])

-----------------------------------------------------------------------------
VideoSteps(r, m) == Given(r.steps, Given(m.steps, 30))
VideoScheduler(r, m) == Given(r.scheduler, Given(m.scheduler, "simple"))

\* Scheduler names that _WAN_SCHEDULER_RE does not match.
Malformed == {"not a name"}

VideoRequestChecks(r, m, task) ==
    << <<"validation_error", ~m.video_gen>>,
       <<"validation_error", m.task # task>>,
       <<"validation_error", m.family \notin VideoFamilies>>,
       <<"validation_error", r.frames > Given(m.limits.frames_max, 241)>>,
       <<"validation_error", VideoSteps(r, m) > Given(m.limits.steps_max, 50)>>,
       <<"validation_error", VideoScheduler(r, m) \in Malformed>>,
       <<"validation_error", r.pixels > Given(m.limits.size_max_pixels, 1920 * 1080)>>,
       <<"async_not_enabled", r.mode = "async" /\ ~AsyncEnabled>> >>
    \o WebhookChecks(r)
    \o << <<"validation_error", r.init_image = "bad">>,
          <<"validation_error", task = "i2v" /\ r.init_image # "good">>,
          <<"validation_error", task = "t2v" /\ r.init_image = "good" /\ m.family # "ltxv">> >>

\* Model-level LoRAs come first.
VideoLoras(r, m) == m.default_loras \o r.loras

VideoResourceChecks(r, m, task, loras) ==
    resolve_loras_for_job(r.loras, loras)
    \o resolve_loras_for_job(m.default_loras, loras)
    \o << <<"validation_error", task = "t2v" /\ r.wan_advanced \cap {"encode", "clip_encode"} # {}>> >>
    \o VramCheck(m, VideoLoras(r, m))
    \o << <<"validation_error", r.generate_audio /\ m.workflow_with_audio = None>> >>

resolve_and_validate_video(r, models, task, loras) ==
    LET m == models[r.model]
        code == IF r.model \notin DOMAIN models THEN "validation_error"
                ELSE FirstFailure(VideoRequestChecks(r, m, task)
                                    \o VideoResourceChecks(r, m, task, loras))
    IN  IF code # "ok" THEN Rejected(code)
        ELSE Accepted([model |-> m, pixels |-> r.pixels, steps |-> VideoSteps(r, m),
                       scheduler |-> VideoScheduler(r, m), seed |-> r.seed,
                       frames |-> IF m.family = "ltxv" THEN normalize_ltxv_num_frames(r.frames)
                                  ELSE normalize_wan_num_frames(r.frames),
                       loras |-> VideoLoras(r, m), wan_advanced |-> r.wan_advanced,
                       workflow |-> IF r.generate_audio THEN m.workflow_with_audio ELSE m.workflow,
                       init_image |-> r.init_image = "good"])
=============================================================================
