---------------------------- MODULE Preparation ----------------------------
(***************************************************************************)
(* From a request to the graph that is submitted: the generation handlers  *)
(* validate a request with the application's registry, the worker          *)
(* validates the stored request again, reads the workflow template from    *)
(* disk and injects the job into it (worker.py, the three pipelines up to  *)
(* submit).  Meanwhile the files change and an administrator reloads the   *)
(* registry or sets up and closes a bundle (api/admin.py).                 *)
(*                                                                         *)
(* Requests share only the disk, the registry and the lock, and none of    *)
(* them is written by a request, so one request at a time is followed.     *)
(* What happens to a job after submit is in JobQueue and ComfyWait.        *)
(***************************************************************************)
EXTENDS Validation

CONSTANTS
    Disks,      \* version -> contents of the disk
    Boot,       \* the version the service started from
    Requests,   \* what clients send
    Bundles,    \* model name sets an administrator asks for
    Template    \* a file name written in a template

VARIABLES
    disk,       \* the version on disk
    registry,   \* the version the registry in memory was loaded from
    lock,       \* runtime_reconfig_lock: "free" or the operation that holds it
    bundle,     \* runtime_bundle.active_models, and those being warmed up
    job         \* the request followed

vars == <<disk, registry, lock, bundle, job>>

Loaded == [v \in DOMAIN Disks |-> load_registry(Disks[v])]
ModelsOf(v) == Loaded[v].models

\* The service serves only after load_registry has succeeded.  Requests, entries and
\* templates have the fields their parsers give them.
ASSUME PreparationAssumption ==
    /\ Boot \in DOMAIN Disks /\ Loaded[Boot].stage = "ok"
    /\ None \notin DOMAIN Disks
    /\ SeedLimit \in Nat \ {0}
    /\ \A r \in Requests :
          /\ r.kind \in {"image", "video"} /\ r.loras \in Seq(STRING)
          /\ r.n \in Int /\ r.pixels \in Int /\ r.steps \in Int \cup {None}
    /\ \A v \in DOMAIN Disks :
          /\ Disks[v].yaml \in Seq(Range(Disks[v].yaml))
          /\ \A m \in Range(Disks[v].yaml) :
                /\ m.default_loras \in Seq(STRING) /\ DOMAIN m.mmaudio = Range(MmaudioFields)
                /\ DOMAIN m.assets = Range(AssetFields) /\ m.assets.checkpoint # None
          /\ \A p \in DOMAIN Disks[v].templates : IsTemplate(Disks[v].templates[p])

\* What is kept of a request: its phase, the answer or error code, the versions it was
\* admitted, validated and built with, the validated job and the graph.
Idle == [phase |-> "idle", req |-> None, code |-> "none", admitted |-> None, loras |-> {},
         validated |-> None, source |-> None, built |-> None, graph |-> None]

Init ==
    /\ disk = Boot
    /\ registry = Boot
    /\ lock = "free"
    /\ bundle = [active |-> {}, pending |-> {}]
    /\ job = Idle

-----------------------------------------------------------------------------
(* The disk and the admin API.                                             *)

Edit == /\ disk' \in DOMAIN Disks \ {disk}
        /\ UNCHANGED <<registry, lock, bundle, job>>

\* Mutant: the new registry is installed whatever load_registry says.
ReloadAnyway ==
    /\ lock = "free"
    /\ registry' = disk
    /\ UNCHANGED <<disk, lock, bundle, job>>

\* An error leaves the registry as it was.  There is no await under the lock.
reload_registry ==
    /\ lock = "free"
    /\ registry' = IF Loaded[disk].stage = "ok" THEN disk ELSE registry
    /\ UNCHANGED <<disk, lock, bundle, job>>

\* With warmup the smoke tests run under the lock.
setup_bundle ==
    /\ lock = "free"
    /\ \E names \in Bundles, warmup \in BOOLEAN :
          /\ names \subseteq DOMAIN ModelsOf(registry)
          /\ lock' = IF warmup THEN "setup" ELSE "free"
          /\ bundle' = IF warmup THEN [bundle EXCEPT !.pending = names]
                       ELSE [bundle EXCEPT !.active = names]
    /\ UNCHANGED <<disk, registry, job>>

\* The smoke tests end; a failed one raises and leaves the bundle.
WarmedUp ==
    /\ lock = "setup"
    /\ lock' = "free"
    /\ \E passed \in BOOLEAN :
          bundle' = [active |-> IF passed THEN bundle.pending ELSE bundle.active, pending |-> {}]
    /\ UNCHANGED <<disk, registry, job>>

\* close_bundle holds the lock until unload_models returns.
close_bundle ==
    /\ lock = "free"
    /\ lock' = "close"
    /\ UNCHANGED <<disk, registry, bundle, job>>

\* An unreachable ComfyUI raises and leaves the bundle as it was.
Unloaded ==
    /\ lock = "close"
    /\ lock' = "free"
    /\ bundle' \in {[bundle EXCEPT !.active = {}], bundle}
    /\ UNCHANGED <<disk, registry, job>>

-----------------------------------------------------------------------------
(* The handler.                                                            *)

Refuse(code) == job' = [job EXCEPT !.phase = "refused", !.code = code]

\* The lock is looked at before the body is read, and not again.
Arrive(r) ==
    /\ job.phase \in {"idle", "refused", "failed", "ready"}
    /\ job' = IF lock # "free"
              THEN [Idle EXCEPT !.phase = "refused", !.req = r, !.code = "runtime_reconfiguring"]
              ELSE [Idle EXCEPT !.phase = "parsing", !.req = r]
    /\ UNCHANGED <<disk, registry, lock, bundle>>

Validated(r, task) ==
    IF r.kind = "image" THEN resolve_and_validate(r, ModelsOf(registry), Disks[disk].loras)
    ELSE resolve_and_validate_video(r, ModelsOf(registry), task, Disks[disk].loras)

Admit ==
    LET outcome == Validated(job.req, job.req.task) IN
    /\ job.phase = "parsing"
    /\ IF ~model_validate(job.req) THEN Refuse("validation_error")
       ELSE IF outcome.code # "ok" THEN Refuse(outcome.code)
       ELSE job' = [job EXCEPT !.phase = "queued", !.admitted = registry,
                               !.loras = Disks[disk].loras]
    /\ UNCHANGED <<disk, registry, lock, bundle>>

-----------------------------------------------------------------------------
(* The worker.                                                             *)

Fail(code) == job' = [job EXCEPT !.phase = "failed", !.code = code]

\* Mutant: every stored video request is taken for text-to-video.
AlwaysText(r) == "t2v"

\* The task of the stored envelope.
StoredTask(r) == r.task

\* Re-validation of the stored request with the registry of now; the pipelines read no
\* registry after it.
Revalidate ==
    LET outcome == Validated(job.req, StoredTask(job.req)) IN
    /\ job.phase = "queued"
    /\ IF outcome.code # "ok"
       THEN job' = [job EXCEPT !.phase = "failed", !.code = outcome.code, !.source = registry,
                               !.built = disk]
       ELSE job' = [job EXCEPT !.phase = "validated", !.source = registry, !.admitted = None,
                               !.loras = {}, !.validated = outcome.job]
    /\ UNCHANGED <<disk, registry, lock, bundle>>

ActualSeeds(v) == IF v.seed >= 0 THEN {v.seed} ELSE 0..(MaxSeed - 1)

\* The images pipeline, up to the init image; only the first latent node is sized.
\* "key" is the KeyError or TypeError of a node that is not there or has no inputs.
BuildImage(g, v, seed) ==
    LET latents == {i \in DOMAIN g : g[i].class = "EmptyLatentImage"}
        g1 == PatchAt(PatchAt(g, "POSITIVE_PROMPT", [text |-> "prompt"]),
                      "NEGATIVE_PROMPT", [text |-> "negative"])
        g2 == PatchAt(g1, "KSAMPLER", [seed |-> seed, steps |-> v.steps, sampler_name |-> v.sampler,
                                       scheduler |-> v.scheduler])
        g3 == IF latents = {} THEN g2
              ELSE Patch(g2, Min(latents), [pixels |-> v.pixels, batch_size |-> v.n])
    IN  IF \/ ~CanFillAll(g, {"POSITIVE_PROMPT", "NEGATIVE_PROMPT", "KSAMPLER"})
           \/ latents # {} /\ g[Min(latents)].inputs # "object"
        THEN Raise("key")
        ELSE Then(Then(inject_model_source(g3, v.model), LAMBDA h : inject_vpred(h, v.model)),
                  LAMBDA h : inject_loras(h, v.loras))

\* _run_ltxv_pipeline; validated.loras is not used.
BuildLtxv(g, v, seed) ==
    LET Prompts(h) == IF ~CanFillAll(h, {"LTXV_POSITIVE", "LTXV_NEGATIVE"}) THEN Raise("key")
                      ELSE Ok(PatchAt(PatchAt(h, "LTXV_POSITIVE", [text |-> "prompt"]),
                                      "LTXV_NEGATIVE", [text |-> "negative"]))
        weights == Then(inject_ltxv_weights(g, v.model), inject_ltxv_video_vae)
        prompts == Then(weights, Prompts)
        seeded == Then(prompts, LAMBDA h : inject_ltxv_seed(h, seed))
        framed == Then(seeded, LAMBDA h : inject_ltxv_frames(h, v.frames))
        Rate(h) == IF Unfit(h, "LTXV_OUTPUT") THEN Raise("key")
                   ELSE Ok(PatchIfAny(h, "LTXV_OUTPUT", [frame_rate |-> "fps"]))
    IN  Then(framed, Rate)

\* Weights, LoRAs and the advanced options of a WAN graph.
WanWeights(g, v, task) ==
    LET weights == Then(inject_video_weights(g, v.model),
                        LAMBDA h : inject_mmaudio_weights(h, v.model))
        loras == Then(weights, LAMBDA h :
                     IF IsCore(g) THEN inject_wan_core_loras(h, v.loras)
                     ELSE inject_wan_lora_multi(h, v.loras, v.wan_advanced))
    IN  Then(loras, LAMBDA h : apply_wan_advanced_patches(h, v.wan_advanced, task))

WanPrompts(g) ==
    IF ~IsCore(g)
    THEN PatchAt(g, "WAN_PROMPTS", [positive_prompt |-> "prompt", negative_prompt |-> "negative"])
    ELSE PatchAt(PatchAt(g, "WAN_POSITIVE", [text |-> "prompt"]),
                 "WAN_NEGATIVE", [text |-> "negative"])

LengthField(class) == IF class = "WanImageToVideo" THEN "length" ELSE "num_frames"

WanDims(g, v) ==
    PatchAt(g, "WAN_DIMS",
            Over([pixels |-> v.pixels], [f \in {LengthField(ClassAt(g, "WAN_DIMS"))} |-> v.frames]))

\* A single step still leaves one for the first pass.
half_steps(steps) == Max({1, steps \div 2})

\* _CORE_WAN_SCHEDULER_MAP: names of the older nodes.
CoreScheduler(s) ==
    CASE s \in {"unipc", "flow_dpm"} -> "simple"
      [] s = "dpm++" -> "dpm_fast"
      [] OTHER -> s

\* Two passes: the first stops where the second starts.
WanSampler(g, v, seed) ==
    LET plan == [noise_seed |-> seed, steps |-> v.steps, scheduler |-> CoreScheduler(v.scheduler)]
        half == half_steps(v.steps)
        first == PatchAt(g, "WAN_SAMPLER", Over([end_at_step |-> half], plan))
        shifted == PatchIfAny(first, "WAN_SHIFT", [shift |-> "shift"])
    IN  IF ClassAt(g, "WAN_SAMPLER") = "KSamplerAdvanced"
        THEN PatchIfAny(shifted, "WAN_NAG_SAMPLER", Over([start_at_step |-> half], plan))
        ELSE PatchAt(g, "WAN_SAMPLER",
                     [seed |-> seed, steps |-> v.steps, scheduler |-> v.scheduler])

\* The optional nodes of a WAN graph: without inputs one is skipped.
WanOptional(g) ==
    {"VIDEO_OUTPUT", "MMAUDIO_SAMPLER"}
        \cup (IF ClassAt(g, "WAN_SAMPLER") = "KSamplerAdvanced"
              THEN {"WAN_SHIFT", "WAN_NAG_SAMPLER"} ELSE {})

\* _run_video_pipeline.
BuildWan(g, v, task, seed) ==
    LET prompts == IF IsCore(g) THEN {"WAN_POSITIVE", "WAN_NEGATIVE"} ELSE {"WAN_PROMPTS"}
        Rest(h) == PatchIfAny(PatchIfAny(WanSampler(WanDims(WanPrompts(h), v), v, seed),
                                         "VIDEO_OUTPUT", [frame_rate |-> "fps"]),
                              "MMAUDIO_SAMPLER", [frames |-> v.frames, seed |-> seed])
    IN  Then(WanWeights(g, v, task), LAMBDA h :
             IF \/ ~CanFillAll(h, prompts \cup {"WAN_DIMS", "WAN_SAMPLER"})
                \/ \E a \in WanOptional(h) : Unfit(h, a)
             THEN Raise("key") ELSE Ok(Rest(h)))

\* _run_pipeline asks the registry again for the family, in the same step as the
\* validation, so it is that of the validated model.
IsLtxv == job.req.kind = "video" /\ job.validated.model.family = "ltxv"

Graph(g, seed) ==
    CASE job.req.kind = "image" -> BuildImage(g, job.validated, seed)
      [] IsLtxv -> BuildLtxv(g, job.validated, seed)
      [] OTHER -> BuildWan(g, job.validated, job.req.task, seed)

\* Only the video pipelines expect a WorkflowValidationError, and only from injectors.
ErrorCode(err) == IF err = "workflow" /\ job.req.kind = "video" THEN "comfy_error" ELSE "internal"

\* The template is the one on disk now.
Build ==
    LET path == job.validated.workflow
        templates == Disks[disk].templates
    IN
    /\ job.phase = "validated"
    /\ \E seed \in ActualSeeds(job.validated) :
          LET r == Graph(templates[path], seed) IN
          job' = IF path \notin DOMAIN templates
                 THEN [job EXCEPT !.phase = "failed", !.code = "internal", !.built = disk]
                 ELSE IF r.err # "none"
                 THEN [job EXCEPT !.phase = "failed", !.code = ErrorCode(r.err), !.built = disk]
                 ELSE [job EXCEPT !.phase = IF job.validated.init_image THEN "uploading" ELSE "ready",
                                  !.built = disk, !.graph = r.graph]
    /\ UNCHANGED <<disk, registry, lock, bundle>>

\* adapter.upload_image, then the file name goes into the graph.  A response without
\* a name raises what no clause records.
UploadImage ==
    LET r == inject_init_image(job.graph, "upload") IN
    /\ job.phase = "uploading"
    /\ \/ Fail("comfy_unreachable")
       \/ Fail("unrecorded")
       \/ IF r.err # "none" THEN Fail("internal")
          ELSE job' = [job EXCEPT !.phase = "ready", !.graph = r.graph]
    /\ UNCHANGED <<disk, registry, lock, bundle>>

Next ==
    \/ Edit
    \/ reload_registry
    \/ setup_bundle
    \/ WarmedUp
    \/ close_bundle
    \/ Unloaded
    \/ \E r \in Requests : Arrive(r)
    \/ Admit
    \/ Revalidate
    \/ Build
    \/ UploadImage

Spec == Init /\ [][Next]_vars

-----------------------------------------------------------------------------
(* Properties.                                                             *)

\* The configuration a version has for a model name, if it has one.
Config(v, name) == {ModelsOf(v)[n] : n \in DOMAIN ModelsOf(v) \cap {name}}

\* The template the worker read is the one the registry had checked.
TemplateAsLoaded ==
    LET path == job.validated.workflow
        now == Disks[job.built].templates
        checked == Disks[job.source].templates
    IN  path \in DOMAIN now /\ now[path] = checked[path]

\* The registry in memory always comes from a version that passed every check, a
\* warm-up is pending only under the lock, a job in the worker has a model of the file it
\* was validated with, and what was built is a graph (load_registry, admin.py, the worker).
TypeOK ==
    /\ disk \in DOMAIN Disks
    /\ registry \in {v \in DOMAIN Disks : Loaded[v].stage = "ok"}
    /\ lock \in {"free", "setup", "close"}
    /\ bundle.active \in Bundles \cup {{}}
    /\ (bundle.pending # {}) => (lock = "setup")
    /\ job.phase \in {"idle", "parsing", "refused", "queued", "validated", "uploading",
                      "ready", "failed"}
    /\ (job.phase \in {"uploading", "ready"}) => IsGraph(job.graph)
    /\ (job.phase \in {"validated", "uploading", "ready"}) =>
          (job.validated.model \in Range(Disks[job.source].yaml))

\* A stored request fails re-validation in the worker only if the configuration of its
\* model or the LoRA files changed since the handler accepted it (validation.py is called
\* with the same inputs by _run_sync_job, _run_video_job and the three pipelines).
RevalidationStable ==
    (job.phase = "failed" /\ job.admitted # None) =>
        \/ Config(job.admitted, job.req.model) # Config(job.source, job.req.model)
        \/ job.loras # Disks[job.built].loras

\* A source loader inject_model_source cannot fill; load_registry does not look at it.
SourceUnsupported(g, m) ==
    \/ ClassAt(g, "MODEL_SOURCE") \notin DOMAIN ModelField
    \/ None \in Range(ClipVals(ClassAt(g, "CLIP_SOURCE"), m))

\* What load_registry does not ask of a video graph: LTX anchors of the workflow with
\* audio; core loaders, on which the prompt anchors to fill depend; MMAudio files and a
\* diffusion node of a workflow without audio that has the node of the other three.
VideoUnchecked(g, v) ==
    LET m == v.model IN
    \/ m.family = "ltxv" /\ v.workflow # m.workflow
    \/ m.family = "wan22" /\ ~IsCore(g)
    \/ /\ m.family = "wan22" /\ v.workflow = m.workflow
       /\ HasAnchor(g, "MMAUDIO_FEATURE_UTILS")
       /\ None \in Range(m.mmaudio) \/ ~HasAnchor(g, "MMAUDIO_DIFFUSION")

\* What load_registry does not ask of any graph: that the nodes the worker fills in, those
\* under anchors and the latent of an image, have inputs.
InputsMissing(g) ==
    \E i \in DOMAIN g :
        g[i].inputs # "object" /\ (g[i].anchors # {} \/ g[i].class = "EmptyLatentImage")

\* The checks of load_registry are enough for the worker: injecting a validated job into
\* a template fails only if the template was edited since the registry was loaded, if an
\* image request named a video model, or for what load_registry does not look at.
FailuresExplained ==
    (job.phase = "failed" /\ job.validated # None
        /\ job.code \notin {"comfy_unreachable", "unrecorded"}) =>
        LET v == job.validated
            g == Disks[job.built].templates[v.workflow]
        IN  \/ ~TemplateAsLoaded
            \/ InputsMissing(g)
            \/ /\ job.req.kind = "image"
               /\ v.model.family \in VideoFamilies \/ SourceUnsupported(g, v.model)
            \/ job.req.kind = "video" /\ VideoUnchecked(g, v)

ValueAt(a, k) == job.graph[find_anchor(job.graph, a)].vals[k]

WithinImageLimits(m) ==
    /\ ValueAt("KSAMPLER", "steps") \in 1..Given(m.limits.steps_max, 50)
    /\ \A i \in DOMAIN job.graph :
          job.graph[i].class = "EmptyLatentImage" =>
              /\ job.graph[i].vals.pixels <= Given(m.limits.size_max_pixels, 1048576)
              /\ job.graph[i].vals.batch_size \in 1..Given(m.limits.n_max, 1)

\* A legal frame count, never below what was asked for.
Rounded(frames, unit) ==
    frames % unit = 1 /\ job.req.frames <= frames /\ frames < job.req.frames + unit

WithinWanLimits(m) ==
    LET length == LengthField(ClassAt(job.graph, "WAN_DIMS")) IN
    /\ ValueAt("WAN_SAMPLER", "steps") \in 1..Given(m.limits.steps_max, 50)
    /\ ValueAt("WAN_DIMS", "pixels") <= Given(m.limits.size_max_pixels, 1920 * 1080)
    /\ Rounded(ValueAt("WAN_DIMS", length), 4)
    /\ ClassAt(job.graph, "WAN_SAMPLER") = "KSamplerAdvanced" =>
          /\ ValueAt("WAN_SAMPLER", "end_at_step") \in 1..ValueAt("WAN_SAMPLER", "steps")
          /\ ValueAt("WAN_NAG_SAMPLER", "start_at_step") = ValueAt("WAN_SAMPLER", "end_at_step")
          /\ ValueAt("WAN_NAG_SAMPLER", "noise_seed") = ValueAt("WAN_SAMPLER", "noise_seed")

WithinLtxvLimits ==
    Rounded(ValueAt("LTXV_FRAMES", "value"), 8) /\ ValueAt("LTXV_SEED", "seed") < SeedLimit

OneLatent(g) ==
    \A i, k \in DOMAIN g : {g[i].class, g[k].class} = {"EmptyLatentImage"} => i = k

TwoPasses(g) ==
    \A i \in Owners(g, "WAN_SAMPLER") :
        g[i].class = "KSamplerAdvanced" => CanFill(g, "WAN_NAG_SAMPLER")

\* What load_registry does not look at: default steps and limits that are numbers, and one
\* latent node to size.  What it asks of a WAN template it has loaded, but the worker not
\* of the one it reads: a second sampler, with inputs, where the first leaves steps over.
ConfigurationFits ==
    \A v \in DOMAIN Disks :
        /\ \A m \in Range(Disks[v].yaml) :
              /\ m.steps \in (Nat \ {0}) \cup {None}
              /\ {m.limits.size_max_pixels, m.limits.n_max, m.limits.steps_max}
                    \subseteq Int \cup {None}
        /\ \A p \in DOMAIN Disks[v].templates :
              LET g == Disks[v].templates[p] IN OneLatent(g) /\ TwoPasses(g)

\* What is submitted respects the limits of the model it was validated against.  An image:
\* steps, size, batch.  A WAN video: steps, size, a frame count its VAE accepts, rounded
\* up by less than one unit, and two sampling passes that share a seed and meet at a step
\* of the schedule.  An LTX video: such a frame count, and a seed below the bound of its
\* node; the pipeline writes neither size nor steps into the graph, so those of the
\* template are submitted whatever the limits (limits of config/models.yaml, normalize_*,
\* half_steps, _run_ltxv_pipeline).
ReadyWithinLimits ==
    job.phase = "ready" =>
        LET m == job.validated.model IN
        CASE job.req.kind = "image" -> WithinImageLimits(m)
          [] IsLtxv -> WithinLtxvLimits
          [] OTHER -> WithinWanLimits(m)

\* The nodes met from node i upwards along one input, the farthest first.
Upstream(g, i, input) ==
    LET n == Cardinality(DOMAIN g)
        at[k \in 0..n] ==
            IF k = 0 THEN i
            ELSE LET below == at[k - 1]
                 IN  IF input \in DOMAIN g[below].links THEN g[below].links[input][1] ELSE below
    IN  [k \in 1..(n + 1) |-> at[n + 1 - k]]

LorasOn(g, a, input) ==
    LET found == SelectSeq(Upstream(g, find_anchor(g, a), input),
                           LAMBDA i : g[i].class \in {"LoraLoader", "LoraLoaderModelOnly"})
    IN  [k \in DOMAIN found |-> g[found[k]].vals.lora]

\* The LoRAs take effect in the order of the validated job, each once: on the model and
\* both prompts of an image; in a WAN graph the second on the low-noise path and the
\* others on the high-noise path, where at most WAN_MAX_LORAS fit.  A path whose shift
\* node has no inputs loses them silently (inject_loras, inject_wan_core_loras).
LorasInOrder ==
    (job.phase = "ready" /\ TemplateAsLoaded
        /\ ~InputsMissing(Disks[job.built].templates[job.validated.workflow])) =>
        LET g == job.graph
            loras == job.validated.loras
            n == Len(loras)
        IN  CASE job.req.kind = "image" ->
                    /\ LorasOn(g, "KSAMPLER", "model") = loras
                    /\ LorasOn(g, "POSITIVE_PROMPT", "clip") = loras
                    /\ LorasOn(g, "NEGATIVE_PROMPT", "clip") = loras
              [] IsLtxv -> \A i \in DOMAIN g : g[i].class # "LoraLoader"
              [] OTHER ->
                    LET high == LorasOn(g, "WAN_SAMPLER", "model")
                        low == LorasOn(g, "WAN_NAG_SAMPLER", "model")
                        dropped == SelectSeq(loras, LAMBDA l : l \notin Range(high) \cup Range(low))
                    IN  /\ low = (IF n >= 2 THEN <<loras[2]>> ELSE <<>>)
                        /\ high = SelectSeq(loras, LAMBDA l : l \in Range(high))
                        /\ Len(dropped) = Max({0, n - 1 - WAN_MAX_LORAS})
                        /\ dropped = SubSeq(loras, n - Len(dropped) + 1, n)

\* The nodes that one node feeds from.
Inputs(g, i) == {l[1] : l \in Range(g[i].links)}

\* Nodes left after n times removing those fed by no node that is left.
Knotted(g) ==
    LET n == Cardinality(DOMAIN g)
        left[k \in 0..n] ==
            IF k = 0 THEN DOMAIN g
            ELSE LET rest == left[k - 1] IN {i \in rest : Inputs(g, i) \cap rest # {}}
    IN  left[n]

WellFormed(g) == (\A i \in DOMAIN g : Inputs(g, i) \subseteq DOMAIN g) /\ Knotted(g) = {}

\* What ComfyUI exports, with the loaders a LoRA chain starts from fed by nothing and not
\* the node it ends in.
Sources(g) == {"MODEL_SOURCE", "CLIP_SOURCE"}
                  \cup (IF IsCore(g) THEN {"WAN_MODEL", "WAN_MODEL_LOW"} ELSE {})

FedByNone(g, sources) ==
    \A i \in DOMAIN g : g[i].anchors \cap sources # {} =>
        Inputs(g, i) = {} /\ g[i].anchors \cap {"WAN_SHIFT", "WAN_SHIFT_LOW"} = {}

TemplatesWellFormed ==
    \A v \in DOMAIN Disks : \A p \in DOMAIN Disks[v].templates :
        LET g == Disks[v].templates[p] IN WellFormed(g) /\ FedByNone(g, Sources(g))

\* Whatever template was read, the injected graph has no link to a node that is not
\* there and no cycle (rewrite_inputs, LoraChain, disconnect_loader_lora).
GraphWellFormed == job.phase \in {"uploading", "ready"} => WellFormed(job.graph)

FileFields == {"ckpt_name", "unet_name", "model", "vae_name", "model_name", "clip_name",
               "clip_name1", "clip_name2", "text_encoder", "vae_model", "clip_model",
               "synchformer_model", "mmaudio_model", "image"}

FilesOf(m) == (Range(m.assets) \cup Range(m.mmaudio)) \ {None}

\* A submitted graph loads the files of the model it was validated with and none that
\* the template happens to name, except the VAE of a model that configures none
\* (inject_model_source, inject_video_weights, inject_mmaudio_weights, inject_ltxv_*).
GraphIsTheModels ==
    (job.phase = "ready" /\ TemplateAsLoaded) =>
        LET g == job.graph
            m == job.validated.model
        IN  \A i \in DOMAIN g : \A k \in DOMAIN g[i].vals \cap FileFields :
               \/ g[i].vals[k] \in FilesOf(m) \cup {LTXV_AUDIO_VAE, LTXV_VIDEO_VAE, "upload"}
               \/ g[i].class = "VAELoader" /\ m.assets.vae = None
               \/ k = "image" /\ ~job.validated.init_image

\* The fields of a loader that an image or a video pipeline fills in.
ImageFiles(n) ==
    {k \in FileFields :
        \/ /\ "MODEL_SOURCE" \in n.anchors
           /\ n.class \in DOMAIN ModelField => k = ModelField[n.class]
        \/ /\ "CLIP_SOURCE" \in n.anchors
           /\ \/ n.class = "DualCLIPLoader" /\ k \in {"clip_name1", "clip_name2"}
              \/ n.class = "CLIPLoader" /\ k = "clip_name"
        \/ n.class = "VAELoader" /\ k = "vae_name"}

WanFiles(n) ==
    {k \in FileFields :
        \/ /\ n.anchors \cap {"WAN_MODEL", "WAN_MODEL_LOW"} # {}
           /\ k = WanField(n.class, "UNETLoader", "unet_name", "model")
        \/ "WAN_VAE" \in n.anchors /\ k = WanField(n.class, "VAELoader", "vae_name", "model_name")
        \/ "WAN_T5" \in n.anchors /\ k = WanField(n.class, "CLIPLoader", "clip_name", "model_name")
        \/ "WAN_CLIP_VISION" \in n.anchors /\ k = "clip_name"
        \/ /\ "MMAUDIO_FEATURE_UTILS" \in n.anchors
           /\ k \in {"vae_model", "clip_model", "synchformer_model"}
        \/ "MMAUDIO_DIFFUSION" \in n.anchors /\ k = "mmaudio_model"}

LtxvFiles(n) ==
    {k \in FileFields :
        \/ "LTXV_CHECKPOINT" \in n.anchors /\ k = "ckpt_name"
        \/ "LTXV_TEXT_ENCODER" \in n.anchors /\ k \in {"ckpt_name", "text_encoder"}
        \/ "LTXV_VIDEO_VAE" \in n.anchors /\ k = "vae_name"
        \/ n.class = "LTXVAudioVAELoader" /\ k = "ckpt_name"}

\* Every file field of a graph is one of these, or the init image; a WAN graph that
\* takes none may have an image of its own.
FilesIn(g, Fields(_)) ==
    \A i \in DOMAIN g : \A k \in DOMAIN g[i].vals \cap FileFields :
        \/ k \in Fields(g[i])
        \/ /\ k = "image"
           /\ \/ i \in Owners(g, "INIT_IMAGE")
              \/ HasAnchor(g, "WAN_MODEL") /\ ~HasAnchor(g, "INIT_IMAGE")

\* Each of the anchors is on one node at most.
Unrepeated(g, as) == \A a \in as : \A i, k \in Owners(g, a) : i = k

\* What load_registry does not look at: a template is of one kind; it names files only on
\* the loaders its kind of pipeline fills in; anchors that are not required are on one
\* node at most, and those of MMAudio come together.  A WAN template whose prompts the
\* pipeline cannot fill is never submitted.
FilesUnderAnchors(g) ==
    /\ \A a, b \in {"MODEL_SOURCE", "WAN_MODEL", "LTXV_CHECKPOINT"} :
          HasAnchor(g, a) /\ HasAnchor(g, b) => a = b
    /\ HasAnchor(g, "MODEL_SOURCE") => FilesIn(g, ImageFiles)
    /\ HasAnchor(g, "WAN_MODEL") /\ (IsCore(g) \/ HasAnchor(g, "WAN_PROMPTS"))
          => FilesIn(g, WanFiles)
    /\ HasAnchor(g, "LTXV_CHECKPOINT") => FilesIn(g, LtxvFiles)
    /\ Unrepeated(g, {"INIT_IMAGE", "WAN_CLIP_VISION", "MMAUDIO_FEATURE_UTILS",
                      "MMAUDIO_DIFFUSION"})
    /\ HasAnchor(g, "MMAUDIO_DIFFUSION") => HasAnchor(g, "MMAUDIO_FEATURE_UTILS")

\* A template of an entry that the pipelines fill in: an entry names a clip vision model
\* if its template has the anchor for one.
Fits(g, m) ==
    /\ FilesUnderAnchors(g)
    /\ HasAnchor(g, "WAN_CLIP_VISION") => m.assets.wan_clip_vision # None

\* The template of the job, as it was when the registry was loaded, is of that kind.
TemplateFits ==
    Fits(Disks[job.source].templates[job.validated.workflow], job.validated.model)
=============================================================================
