--------------------------- MODULE MCPreparation ---------------------------
(***************************************************************************)
(* Versions of the disk and requests for Preparation.  The templates have  *)
(* the shape of the image, WAN and LTX graphs the service ships with.      *)
(***************************************************************************)
EXTENDS Preparation

Node(class, anchors, links, vals) ==
    [class |-> class, anchors |-> anchors, inputs |-> "object", links |-> links, vals |-> vals]

\* The graph with other inputs of some nodes: none, or no object.
WithInputs(g, nodes, kind) ==
    [i \in DOMAIN g |-> IF i \in nodes
                        THEN [g[i] EXCEPT !.inputs = kind, !.links = <<>>, !.vals = <<>>] ELSE g[i]]

-----------------------------------------------------------------------------
(* Templates.  Numbers are node ids.                                       *)

Prompt(a, clip) == Node("CLIPTextEncode", {a}, [clip |-> clip], <<>>)

\* Nodes 2 to 8 of an image graph; the model and clip come from the given outputs.
ImageTail(model, clip) ==
    << Prompt("POSITIVE_PROMPT", clip),
       Prompt("NEGATIVE_PROMPT", clip),
       Node("EmptyLatentImage", {}, <<>>, <<>>),
       Node("KSampler", {"KSAMPLER"},
            [model |-> model, positive |-> <<2, 0>>, negative |-> <<3, 0>>, latent |-> <<4, 0>>], <<>>),
       Node("VAELoader", {}, <<>>, [vae_name |-> Template]),
       Node("VAEDecode", {}, [samples |-> <<5, 0>>, vae |-> <<6, 0>>], <<>>),
       Node("SaveImage", {"OUTPUT"}, [images |-> <<7, 0>>], <<>>) >>

Sdxl == << Node("CheckpointLoaderSimple", {"MODEL_SOURCE", "CLIP_SOURCE", "LORA_INSERT"}, <<>>,
                [ckpt_name |-> Template]) >> \o ImageTail(<<1, 0>>, <<1, 1>>)

\* The anchor of the model source on two loaders; the sampler uses the second.
SdxlTwice == [Sdxl EXCEPT ![5].links["model"] = <<9, 0>>]
                \o << Node("CheckpointLoaderSimple", {"MODEL_SOURCE"}, <<>>, [ckpt_name |-> Template]) >>

SdxlNoNegative == [Sdxl EXCEPT ![3].anchors = {}]

\* Separate text encoders (clip in slot 0) and a guidance node before the sampler.
Flux == << Node("UnetLoaderGGUF", {"MODEL_SOURCE", "LORA_INSERT"}, <<>>, [unet_name |-> Template]) >>
            \o ImageTail(<<10, 0>>, <<9, 0>>)
            \o << Node("DualCLIPLoader", {"CLIP_SOURCE"}, <<>>,
                       [clip_name1 |-> Template, clip_name2 |-> Template]),
                  Node("NAGuidance", {}, [model |-> <<1, 0>>], <<>>) >>

\* A model source class that no injector knows.
Qwen == [Flux EXCEPT ![1].class = "DiffusionModelLoader"]

\* Two experts, two passes; dims is the class of the latent node.
Wan(dims, image) ==
    << Node("UNETLoader", {"WAN_MODEL"}, <<>>, [unet_name |-> Template]),
       Node("UNETLoader", {"WAN_MODEL_LOW"}, <<>>, [unet_name |-> Template]),
       Node("ModelSamplingSD3", {"WAN_SHIFT"}, [model |-> <<1, 0>>], <<>>),
       Node("ModelSamplingSD3", {"WAN_SHIFT_LOW"}, [model |-> <<2, 0>>], <<>>),
       Node("CLIPLoader", {"WAN_T5"}, <<>>, [clip_name |-> Template]),
       Prompt("WAN_POSITIVE", <<5, 0>>),
       Prompt("WAN_NEGATIVE", <<5, 0>>),
       Node("VAELoader", {"WAN_VAE"}, <<>>, [vae_name |-> Template]),
       Node("LoadImage", image, <<>>, [image |-> Template]),
       Node(dims, {"WAN_DIMS"},
            [positive |-> <<6, 0>>, negative |-> <<7, 0>>, vae |-> <<8, 0>>, start_image |-> <<9, 0>>],
            <<>>),
       Node("KSamplerAdvanced", {"WAN_SAMPLER"}, [model |-> <<3, 0>>, latent |-> <<10, 2>>], <<>>),
       Node("KSamplerWithNAG", {"WAN_NAG_SAMPLER"}, [model |-> <<4, 0>>, latent |-> <<11, 0>>], <<>>),
       Node("VAEDecode", {"WAN_DECODE"}, [samples |-> <<12, 0>>, vae |-> <<8, 0>>], <<>>),
       Node("VHS_VideoCombine", {"VIDEO_OUTPUT"}, [images |-> <<13, 0>>], <<>>) >>

\* The anchors of a core graph on quantized loaders.
WanGguf == [[Wan("EmptyHunyuanLatentVideo", {}) EXCEPT ![1].class = "UnetLoaderGGUF"]
               EXCEPT ![2].class = "UnetLoaderGGUF"]

WanI2V == Wan("WanImageToVideo", {"INIT_IMAGE"})
WanT2V == Wan("EmptyHunyuanLatentVideo", {})

WanAudio == WanI2V \o
    << Node("MMAudioFeatureUtilsLoader", {"MMAUDIO_FEATURE_UTILS"}, <<>>,
            [vae_model |-> Template, clip_model |-> Template, synchformer_model |-> Template]),
       Node("MMAudioModelLoader", {"MMAUDIO_DIFFUSION"}, <<>>, [mmaudio_model |-> Template]),
       Node("MMAudioSampler", {"MMAUDIO_SAMPLER"},
            [images |-> <<13, 0>>, feature_utils |-> <<15, 0>>, model |-> <<16, 0>>], <<>>) >>

\* The wrapper nodes that WAN workflows used before.
WanLegacy ==
    << Node("WanVideoModelLoader", {"WAN_MODEL"}, [lora |-> <<2, 0>>], [model |-> Template]),
       Node("WanVideoLoraSelectMulti", {"WAN_LORA_MULTI"}, <<>>, <<>>),
       Node("LoadWanVideoT5TextEncoder", {"WAN_T5"}, <<>>, [model_name |-> Template]),
       Node("WanVideoTextEncode", {"WAN_PROMPTS"}, [t5 |-> <<3, 0>>], <<>>),
       Node("WanVideoVAELoader", {"WAN_VAE"}, <<>>, [model_name |-> Template]),
       Node("LoadImage", {"INIT_IMAGE"}, <<>>, [image |-> Template]),
       Node("WanVideoImageToVideoEncode", {"WAN_DIMS"}, [vae |-> <<5, 0>>, image |-> <<6, 0>>], <<>>),
       Node("WanVideoSampler", {"WAN_SAMPLER"},
            [model |-> <<1, 0>>, text_embeds |-> <<4, 0>>, image_embeds |-> <<7, 0>>], <<>>),
       Node("WanVideoDecode", {"WAN_DECODE"}, [samples |-> <<8, 0>>, vae |-> <<5, 0>>], <<>>),
       Node("VHS_VideoCombine", {"VIDEO_OUTPUT"}, [images |-> <<9, 0>>], <<>>) >>

Ltxv ==
    << Node("CheckpointLoaderSimple", {"LTXV_CHECKPOINT"}, <<>>, [ckpt_name |-> Template]),
       Node("LTXAVTextEncoderLoader", {"LTXV_TEXT_ENCODER"}, <<>>,
            [ckpt_name |-> Template, text_encoder |-> Template]),
       Node("VAELoader", {"LTXV_VIDEO_VAE"}, <<>>, [vae_name |-> Template]),
       Prompt("LTXV_POSITIVE", <<2, 0>>),
       Prompt("LTXV_NEGATIVE", <<2, 0>>),
       Node("Seed (rgthree)", {"LTXV_SEED"}, <<>>, <<>>),
       Node("PrimitiveInt", {"LTXV_FRAMES"}, <<>>, <<>>),
       Node("LTXVAudioVAELoader", {}, <<>>, [ckpt_name |-> Template]),
       Node("LoadImage", {"INIT_IMAGE"}, <<>>, [image |-> Template]),
       Node("KSampler", {}, [model |-> <<1, 0>>, positive |-> <<4, 0>>, negative |-> <<5, 0>>,
                             seed |-> <<6, 0>>, length |-> <<7, 0>>, image |-> <<9, 0>>], <<>>),
       Node("VHS_VideoCombine", {"LTXV_OUTPUT"}, [images |-> <<10, 0>>], <<>>) >>

-----------------------------------------------------------------------------
(* Entries of models.yaml.                                                 *)

NoAssets == [f \in Range(AssetFields) |-> None]
NoAudio == [f \in Range(MmaudioFields) |-> None]

Entry(name, family, workflow, assets) ==
    [name |-> name, family |-> family, workflow |-> workflow, assets |-> assets @@ NoAssets,
     backend |-> "comfyui", prediction |-> "eps", sampler |-> None, scheduler |-> None,
     task |-> None, video_gen |-> FALSE, steps |-> None, default_loras |-> <<>>,
     dual_clip_type |-> None, clip_loader_type |-> None, vae_precision |-> None,
     mmaudio |-> NoAudio, workflow_with_audio |-> None, skip_asset_validation |-> FALSE,
     vram |-> 9000,
     limits |-> [size_max_pixels |-> None, n_max |-> 2, steps_max |-> 6, frames_max |-> None]]

SdxlEntry == [Entry("sdxl", "sdxl", "sdxl.json", [checkpoint |-> "noob"])
                EXCEPT !.steps = 4, !.vram = 11850]
FluxEntry == [Entry("flux", "flux", "flux.json",
                    [checkpoint |-> "flux_q8", vae |-> "ae", clip_l |-> "clip_l", t5xxl |-> "t5"])
                EXCEPT !.dual_clip_type = "flux", !.scheduler = "simple", !.steps = 4]
QwenEntry == [Entry("qwen", "qwen", "qwen.json",
                    [checkpoint |-> "qwen_aio", clip_l |-> "clip_l", t5xxl |-> "t5"])
                EXCEPT !.steps = 4]

WanAssets == [checkpoint |-> "wan_high", wan_unet_low |-> "wan_low", vae |-> "wan_vae",
              wan_t5_encoder |-> "umt5", wan_clip_vision |-> "clip_vision"]

WanI2VEntry ==
    [Entry("wan_i2v", "wan22", "wan_i2v.json", WanAssets)
        EXCEPT !.task = "i2v", !.video_gen = TRUE, !.steps = 4, !.default_loras = <<"d1", "d2">>,
               !.workflow_with_audio = "wan_audio.json", !.limits.frames_max = 10,
               !.mmaudio = [f \in Range(MmaudioFields) |-> "mmaudio_" \o f]]
WanT2VEntry ==
    [Entry("wan_t2v", "wan22", "wan_t2v.json", WanAssets)
        EXCEPT !.task = "t2v", !.video_gen = TRUE, !.scheduler = "unipc", !.steps = 5]
LtxvEntry ==
    [Entry("eros", "ltxv", "ltxv.json", [checkpoint |-> "eros_v1", ltxv_text_encoder |-> "gemma"])
        EXCEPT !.task = "t2v", !.video_gen = TRUE, !.steps = 4, !.default_loras = <<"d1">>]

-----------------------------------------------------------------------------
(* Versions of the disk.                                                   *)

Shipped ==
    [readable |-> TRUE,
     yaml |-> <<SdxlEntry, FluxEntry, QwenEntry, WanI2VEntry, WanT2VEntry, LtxvEntry>>,
     files |-> {"noob", "flux_q8", "ae", "clip_l", "t5", "qwen_aio", "wan_high", "wan_low",
                "wan_vae", "umt5", "clip_vision", "eros_v1", "gemma"}
                \cup {"mmaudio_" \o f : f \in Range(MmaudioFields)},
     loras |-> {"a", "b", "c", "e", "f", "d1", "d2"},
     templates |-> [p \in {"sdxl.json"} |-> Sdxl] @@ ("flux.json" :> Flux) @@ ("qwen.json" :> Qwen)
                    @@ ("wan_i2v.json" :> WanI2V) @@ ("wan_t2v.json" :> WanT2V)
                    @@ ("wan_audio.json" :> WanAudio) @@ ("ltxv.json" :> Ltxv)]

MCDisks ==
    [shipped |-> Shipped,
     \* another checkpoint, tighter limits, models gone, one of another family with a
     \* workflow for audio; WAN graphs with loaders or MMAudio nodes nobody asked for
     retuned |-> [Shipped EXCEPT
        !.yaml = <<[SdxlEntry EXCEPT !.assets.checkpoint = "illustrious", !.limits.steps_max = 4],
                   WanI2VEntry,
                   [LtxvEntry EXCEPT !.name = "wan_t2v", !.default_loras = <<>>,
                                     !.workflow_with_audio = "wan_audio.json",
                                     !.mmaudio = WanI2VEntry.mmaudio],
                   [WanI2VEntry EXCEPT !.name = "eros", !.workflow = "wan_audio.json",
                                       !.workflow_with_audio = None, !.mmaudio = NoAudio],
                   [WanT2VEntry EXCEPT !.name = "flux", !.workflow = "wan_gguf.json"]>>,
        !.files = @ \cup {"illustrious"},
        !.loras = @ \ {"c"},
        !.templates = @ @@ ("wan_gguf.json" :> WanGguf)],
     \* accepted, though nodes to be filled in have no inputs: the sampler of an image, a
     \* clip source, the image of a video, a shift, a VAE; the image of a video is no object
     hollow |-> [Shipped EXCEPT
        !.templates["sdxl.json"] = WithInputs(@, {5}, "none"),
        !.templates["flux.json"] = WithInputs(@, {9}, "none"),
        !.templates["wan_i2v.json"] = WithInputs(@, {9}, "none"),
        !.templates["wan_t2v.json"] = WithInputs(WithInputs(@, {3}, "none"), {14}, "none"),
        !.templates["wan_audio.json"] = WithInputs(@, {17}, "other"),
        !.templates["ltxv.json"] = WithInputs(@, {9}, "other")],
     \* rejected: an anchor on two nodes
     twice |-> [Shipped EXCEPT !.templates["sdxl.json"] = SdxlTwice],
     \* rejected: a prompt anchor missing
     unlabelled |-> [Shipped EXCEPT !.templates["sdxl.json"] = SdxlNoNegative],
     \* rejected: a WAN workflow of the older kind, two that lack an anchor, a template and a
     \* file gone
     legacy |-> [Shipped EXCEPT
        !.templates = [p \in DOMAIN @ \ {"ltxv.json"} |->
                         CASE p = "wan_i2v.json" -> WanLegacy
                           [] p = "wan_t2v.json" -> [WanT2V EXCEPT ![10].anchors = {}]
                           [] p = "wan_audio.json" -> [WanAudio EXCEPT ![8].anchors = {}]
                           [] OTHER -> @[p]],
        !.files = @ \ {"gemma"}]]

-----------------------------------------------------------------------------
(* Requests.                                                               *)

Image(model) ==
    [kind |-> "image", task |-> None, model |-> model, pixels |-> 1048576, n |-> 1, steps |-> None,
     sampler |-> None, scheduler |-> None, mode |-> "sync", webhook |-> None, loras |-> <<>>,
     init_image |-> None, frames |-> 81, seed |-> 1, wan_advanced |-> {}, generate_audio |-> FALSE]

Video(model, task) ==
    [Image(model) EXCEPT !.kind = "video", !.task = task,
                         !.init_image = IF task = "i2v" THEN "good" ELSE None]

MCRequests ==
    { [Image("sdxl") EXCEPT !.n = 2, !.steps = 6, !.loras = <<"c", "a">>],
      [Image("sdxl") EXCEPT !.seed = -1, !.init_image = "good"],
      [Image("sdxl") EXCEPT !.loras = <<"a", "b", "c">>],
      [Image("sdxl") EXCEPT !.loras = <<"outside">>],
      [Image("sdxl") EXCEPT !.n = 3],
      [Image("sdxl") EXCEPT !.pixels = 1048577],
      [Image("sdxl") EXCEPT !.init_image = "bad"],
      [Image("flux") EXCEPT !.loras = <<"b", "a", "c">>, !.mode = "async", !.webhook = "ok"],
      [Image("flux") EXCEPT !.sampler = "ddim"],
      [Image("flux") EXCEPT !.webhook = "bad"],
      [Image("flux") EXCEPT !.n = 0],
      Image("qwen"),
      Image("wan_t2v"),
      [Video("wan_i2v", "i2v") EXCEPT !.frames = 10, !.loras = <<"a", "b", "c", "e", "f">>],
      [Video("wan_i2v", "i2v") EXCEPT !.frames = 9, !.steps = 1, !.loras = <<"b">>,
            !.wan_advanced = {"encode", "clip_encode", "decode", "block_swap", "export", "lora"}],
      [Video("wan_i2v", "i2v") EXCEPT !.frames = 5, !.generate_audio = TRUE, !.seed = -1],
      [Video("wan_i2v", "i2v") EXCEPT !.frames = 11],
      [Video("wan_i2v", "i2v") EXCEPT !.frames = 10, !.init_image = "empty"],
      [Video("wan_t2v", "t2v") EXCEPT !.steps = 5],
      [Video("wan_t2v", "t2v") EXCEPT !.loras = <<"a">>, !.wan_advanced = {"decode", "export"}],
      [Video("wan_t2v", "t2v") EXCEPT !.init_image = "good"],
      [Video("wan_t2v", "t2v") EXCEPT !.wan_advanced = {"encode"}],
      [Video("wan_t2v", "t2v") EXCEPT !.generate_audio = TRUE],
      [Video("eros", "t2v") EXCEPT !.frames = 12, !.seed = 3],
      [Video("eros", "t2v") EXCEPT !.frames = 6, !.init_image = "good", !.seed = -1],
      [Video("eros", "i2v") EXCEPT !.frames = 9],
      Video("flux", "t2v") }

MCBundles == {{"qwen", "wan_i2v"}}
MCOutside == {"outside"}
-----------------------------------------------------------------------------
\* The templates above are graphs in which LoRAs can be chained.
ASSUME TemplatesAreWellFormed == TemplatesWellFormed

\* The entries have numbers, one latent node and two passes.
ASSUME ConfigurationIsFit == ConfigurationFits

\* Where load_registry succeeds, the templates of the entries name files only where a
\* pipeline fills them in.
ASSUME TemplatesFit ==
    \A v \in {w \in DOMAIN Disks : Loaded[w].stage = "ok"} :
        \A m \in Range(Disks[v].yaml) :
            \A p \in {m.workflow, m.workflow_with_audio} \cap DOMAIN Disks[v].templates :
                Fits(Disks[v].templates[p], m)
=============================================================================
