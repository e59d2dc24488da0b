------------------------------ MODULE Registry ------------------------------
(***************************************************************************)
(* load_registry (registry/models.py).  A version of the disk holds the    *)
(* entries of models.yaml in file order, the model files, the workflow     *)
(* templates and the LoRA files.  An entry fails at its first bad check,   *)
(* and one failing entry rejects the whole file.                           *)
(*                                                                         *)
(* Sizes are in thousandths of a GB.                                       *)
(***************************************************************************)
EXTENDS Workflows

CONSTANT VramBudget     \* VRAM_BUDGET_GB

\* A check is <<name, failed>>; the first failed one names the outcome.
FirstFailure(checks) ==
    LET failed == {i \in DOMAIN checks : checks[i][2]}
    IN  IF failed = {} THEN "ok" ELSE checks[Min(failed)][1]

VideoFamilies == {"wan22", "ltxv"}
Families == {"sdxl", "flux", "qwen"} \cup VideoFamilies
VideoTasks == {"t2v", "i2v"}

\* The names the code lists, cut down to those that tell the families apart.
ALLOWED_SAMPLERS == {"euler_ancestral", "dpmpp_2m", "ddim"}
ALLOWED_SCHEDULERS == {"simple", "karras", "exponential"}
AllowedSamplers(family) ==
    IF family \in {"flux", "qwen"} THEN {"euler_ancestral", "dpmpp_2m"} ELSE ALLOWED_SAMPLERS
AllowedSchedulers(family) ==
    IF family \in {"flux", "qwen"} THEN {"simple", "karras"} ELSE ALLOWED_SCHEDULERS

\* Name and values of an entry.
EntryChecks(before, m) ==
    LET image == m.family \notin VideoFamilies IN
    << <<"duplicate_name", m.name \in before>>,
       <<"unknown_backend", m.backend # "comfyui">>,
       <<"unknown_prediction", m.prediction \notin {"eps", "vpred"}>>,
       <<"unknown_family", m.family \notin Families>>,
       <<"vpred_deferred", m.prediction = "vpred">>,
       <<"unknown_sampler", image /\ m.sampler \notin AllowedSamplers(m.family) \cup {None}>>,
       <<"unknown_scheduler", image /\ m.scheduler \notin AllowedSchedulers(m.family) \cup {None}>> >>

\* What the video families need.
VideoChecks(m) ==
    LET wan == m.family = "wan22"
        ltxv == m.family = "ltxv"
    IN
    << <<"wan22_video_task", wan /\ m.task \notin VideoTasks>>,
       <<"wan22_t5_missing", wan /\ m.assets.wan_t5_encoder = None>>,
       <<"wan22_clip_missing", wan /\ m.task = "i2v" /\ m.assets.wan_clip_vision = None>>,
       <<"wan22_vae_missing", wan /\ m.assets.vae = None>>,
       <<"ltxv_video_task", ltxv /\ m.task \notin VideoTasks>>,
       <<"ltxv_text_encoder_missing", ltxv /\ m.assets.ltxv_text_encoder = None>> >>

AssetFields == <<"checkpoint", "vae", "clip_l", "t5xxl", "wan_t5_encoder", "wan_clip_vision",
                 "wan_unet_low", "ltxv_text_encoder">>
MmaudioFields == <<"vae", "synchformer", "clip", "diffusion">>

\* A file the entry names must exist, unless asset validation is switched off.
Absent(files, m, file) == file # None /\ ~m.skip_asset_validation /\ file \notin files

AssetChecks(files, m) ==
    [i \in DOMAIN AssetFields |-> <<"asset_missing", Absent(files, m, m.assets[AssetFields[i]])>>]

\* With an audio workflow, each MMAudio file must be named and exist, in turn.
MmaudioChecks(files, m) ==
    [i \in 1..(2 * Len(MmaudioFields)) |->
        LET file == m.mmaudio[MmaudioFields[(i + 1) \div 2]]
        IN  IF i % 2 = 1
            THEN <<"mmaudio_config_incomplete", m.workflow_with_audio # None /\ file = None>>
            ELSE <<"mmaudio_asset_missing", m.workflow_with_audio # None /\ Absent(files, m, file)>>]

\* The templates must exist and carry the anchors the worker will look for.
WorkflowChecks(templates, m) ==
    LET wf == m.workflow
        audio == m.workflow_with_audio
        found == wf \in DOMAIN templates
        foundAudio == audio \in DOMAIN templates
        Low(path) == HasAnchor(templates[path], "WAN_MODEL_LOW")
        wan == m.family = "wan22"
    IN
    << <<"workflow_missing", ~found>>,
       <<"anchors_missing",
         found /\ ~validate_anchors(templates[wf], RequiredAnchors(m.family, m.task))>>,
       <<"wan22_wan_unet_low_missing",
         found /\ wan /\ Low(wf) /\ m.assets.wan_unet_low = None>>,
       <<"wan22_wan_unet_low_unused",
         found /\ wan /\ ~Low(wf) /\ m.assets.wan_unet_low # None>>,
       <<"workflow_audio_missing", audio # None /\ ~foundAudio>>,
       <<"anchors_audio_missing",
         foundAudio /\ \/ m.task \notin VideoTasks
                       \/ ~validate_anchors(templates[audio],
                                            required_anchors_for_wan22_audio_task(m.task))>>,
       <<"wan22_audio_low_mismatch", found /\ foundAudio /\ wan /\ Low(wf) # Low(audio)>>,
       <<"vram_over_budget", m.vram > VramBudget>> >>

EntryStage(disk, before, m) ==
    FirstFailure(EntryChecks(before, m) \o VideoChecks(m) \o AssetChecks(disk.files, m)
                    \o MmaudioChecks(disk.files, m) \o WorkflowChecks(disk.templates, m))

\* The registry, or the stage of the first error; nothing is kept of a bad file.
load_registry(disk) ==
    LET entries == disk.yaml
        Stage(i) == EntryStage(disk, {entries[k].name : k \in 1..(i - 1)}, entries[i])
        bad == {i \in DOMAIN entries : Stage(i) # "ok"}
        stage == IF ~disk.readable THEN "yaml_invalid"
                 ELSE IF entries = <<>> THEN "empty_registry"
                 ELSE IF bad # {} THEN Stage(Min(bad))
                 ELSE "ok"
    IN  [stage |-> stage,
         models |-> IF stage # "ok" THEN <<>>
                    ELSE [n \in {m.name : m \in Range(entries)} |->
                            CHOOSE m \in Range(entries) : m.name = n]]
=============================================================================
