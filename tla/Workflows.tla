------------------------------ MODULE Workflows ------------------------------
(***************************************************************************)
(* Workflow graphs and their injectors (registry/workflows.py and          *)
(* registry/wan_advanced.py).  A graph maps node ids to nodes; a node has  *)
(* a class, the anchors its title declares, what the file gives as its     *)
(* inputs (an object, nothing, or another value) and, of an object, links  *)
(* (input name to <<node, output slot>>) and plain values.  Only the       *)
(* fields an injector reads or writes are kept, and a file is named by its *)
(* model value.                                                            *)
(*                                                                         *)
(* An injector returns the patched graph, or the exception it raises.      *)
(***************************************************************************)
EXTENDS Naturals, Sequences, FiniteSets, FiniteSetsExt, Functions, TLC

CONSTANTS
    None,       \* an unset option
    SeedLimit   \* 2^50 in inject_ltxv_seed

WAN_MAX_LORAS == 5

\* What the injectors work on.
IsGraph(g) ==
    /\ DOMAIN g \subseteq Nat /\ IsFiniteSet(DOMAIN g)
    /\ \A i \in DOMAIN g : DOMAIN g[i] = {"class", "anchors", "inputs", "links", "vals"}

\* What load_workflow returns.  It asks for a JSON object only, and nothing later asks
\* that a node has inputs.  That ids are numbers in ascending order, that a node is an
\* object and that a field an injector writes is no link is how ComfyUI exports a file.
IsTemplate(g) ==
    /\ IsGraph(g)
    /\ \A i \in DOMAIN g :
          /\ g[i].inputs \in {"object", "none", "other"}
          /\ g[i].inputs # "object" => g[i].links = <<>> /\ g[i].vals = <<>>

\* f, and g where f has no value: f @@ g, spelled out for the proofs.
Over(f, g) == [x \in DOMAIN f \cup DOMAIN g |-> IF x \in DOMAIN f THEN f[x] ELSE g[x]]

Ok(g) == [graph |-> g, err |-> "none"]
Raise(e) == [graph |-> <<>>, err |-> e]

\* Sequencing: the next injector runs only if nothing was raised.
Then(r, Inject(_)) == IF r.err = "none" THEN Inject(r.graph) ELSE r

-----------------------------------------------------------------------------
(* Anchors.                                                                *)

ImageAnchors == {"MODEL_SOURCE", "CLIP_SOURCE", "LORA_INSERT", "POSITIVE_PROMPT",
                 "NEGATIVE_PROMPT", "KSAMPLER", "OUTPUT"}

WanAnchors == {"WAN_T5", "WAN_POSITIVE", "WAN_NEGATIVE", "WAN_DIMS", "WAN_MODEL",
               "WAN_SHIFT", "WAN_MODEL_LOW", "WAN_SHIFT_LOW", "WAN_VAE", "WAN_SAMPLER",
               "WAN_NAG_SAMPLER", "WAN_DECODE", "VIDEO_OUTPUT"}

required_anchors_for_video_task(task) ==
    IF task = "i2v" THEN WanAnchors \cup {"INIT_IMAGE"} ELSE WanAnchors

required_anchors_for_wan22_audio_task(task) ==
    required_anchors_for_video_task(task)
        \cup {"MMAUDIO_FEATURE_UTILS", "MMAUDIO_DIFFUSION", "MMAUDIO_SAMPLER"}

LtxvAnchors == {"LTXV_CHECKPOINT", "LTXV_TEXT_ENCODER", "LTXV_VIDEO_VAE", "LTXV_POSITIVE",
                "LTXV_NEGATIVE", "LTXV_SEED", "LTXV_FRAMES", "LTXV_OUTPUT", "INIT_IMAGE"}

\* Mutant: an image workflow needs only what the LoRA chain hangs on.
LoraAnchorsOnly(family, task) ==
    CASE family = "wan22" -> required_anchors_for_video_task(task)
      [] family = "ltxv" -> LtxvAnchors
      [] OTHER -> {"MODEL_SOURCE", "CLIP_SOURCE", "LORA_INSERT"}

\* What load_registry asks of the primary workflow of a model.
RequiredAnchors(family, task) ==
    CASE family = "wan22" -> required_anchors_for_video_task(task)
      [] family = "ltxv" -> LtxvAnchors
      [] OTHER -> ImageAnchors

Owners(g, a) == {i \in DOMAIN g : a \in g[i].anchors}
HasAnchor(g, a) == Owners(g, a) # {}
HasAnchors(g, as) == \A a \in as : HasAnchor(g, a)

\* Mutant: presence is enough.
AnchorsPresent(g, required) == HasAnchors(g, required)

validate_anchors(g, required) == \A a \in required : Cardinality(Owners(g, a)) = 1

\* The first owner; ids are listed in ascending order in the files.
find_anchor(g, a) == Min(Owners(g, a))

ClassAt(g, a) == g[find_anchor(g, a)].class

\* The node of the anchor has inputs to write to; it has none; it has something else.
CanFill(g, a) == HasAnchor(g, a) /\ g[find_anchor(g, a)].inputs = "object"
CanFillAll(g, as) == \A a \in as : CanFill(g, a)
Bare(g, a) == HasAnchor(g, a) /\ g[find_anchor(g, a)].inputs # "object"
Unfit(g, a) == HasAnchor(g, a) /\ g[find_anchor(g, a)].inputs = "other"

-----------------------------------------------------------------------------
(* Patches.                                                                *)

\* Overwrites values of one node.
Patch(g, i, new) == [g EXCEPT ![i].vals = Over(new, @)]
PatchAt(g, a, new) == Patch(g, find_anchor(g, a), new)

\* Overwrites values of each of some nodes.
PatchAll(g, nodes, new) ==
    [i \in DOMAIN g |-> IF i \in nodes THEN [g[i] EXCEPT !.vals = Over(new, @)] ELSE g[i]]

\* The nodes of a class that have inputs.
OfClass(g, class) == {i \in DOMAIN g : g[i].class = class /\ g[i].inputs = "object"}

\* A patch that is skipped when no node has the anchor, or that node no inputs.
PatchIfAny(g, a, new) == IF CanFill(g, a) THEN PatchAt(g, a, new) ELSE g

Links(g) == UNION {Range(g[i].links) : i \in DOMAIN g}

-----------------------------------------------------------------------------
(* Image graphs.                                                           *)

ModelField == [CheckpointLoaderSimple |-> "ckpt_name", UnetLoaderGGUF |-> "unet_name"]

\* The text encoder files, for the loader classes that have some.
ClipVals(class, m) ==
    CASE class = "DualCLIPLoader" ->
            Over([clip_name1 |-> m.assets.clip_l, clip_name2 |-> m.assets.t5xxl],
                 IF m.dual_clip_type # None THEN [type |-> m.dual_clip_type] ELSE <<>>)
      [] class = "CLIPLoader" ->
            [clip_name |-> m.assets.clip_l, type |-> m.clip_loader_type]
      [] OTHER -> <<>>

inject_model_source(g, m) ==
    IF ~CanFillAll(g, {"MODEL_SOURCE", "CLIP_SOURCE"}) THEN Raise("workflow")
    ELSE LET clip == ClipVals(ClassAt(g, "CLIP_SOURCE"), m)
             g1 == PatchAt(g, "MODEL_SOURCE",
                           [f \in {ModelField[ClassAt(g, "MODEL_SOURCE")]} |-> m.assets.checkpoint])
             g2 == PatchAt(g1, "CLIP_SOURCE", clip)
             vaes == {i \in OfClass(g2, "VAELoader") : "vae_name" \in DOMAIN g2[i].vals}
         IN  IF ClassAt(g, "MODEL_SOURCE") \notin DOMAIN ModelField \/ None \in Range(clip)
             THEN Raise("workflow")
             ELSE Ok(IF m.assets.vae = None THEN g2
                     ELSE PatchAll(g2, vaes, [vae_name |-> m.assets.vae]))

\* The one output slot that consumers use, else the usual one.
infer_output_slot(g, src, fallback) ==
    LET seen == {l[2] : l \in {k \in Links(g) : k[1] = src}}
    IN  IF Cardinality(seen) = 1 THEN Min(seen) ELSE fallback

\* Mutant: the chain is rewritten too and loses its head.
RewriteAll(g, from, to, skip) ==
    [i \in DOMAIN g |-> [g[i] EXCEPT !.links =
        [k \in DOMAIN @ |-> IF @[k] = from THEN to ELSE @[k]]]]

rewrite_inputs(g, from, to, skip) ==
    [i \in DOMAIN g |->
        IF i \in skip THEN g[i]
        ELSE [g[i] EXCEPT !.links = [k \in DOMAIN @ |-> IF @[k] = from THEN to ELSE @[k]]]]

\* Mutant: the loaders are chained in reverse.
ChainReversed(g, class, loras, heads) ==
    LET base == Max(DOMAIN g) IN
    [i \in (base + 1)..(base + Len(loras)) |->
        [class |-> class, anchors |-> {}, inputs |-> "object",
         links |-> [k \in DOMAIN heads |->
                      IF i = base + 1 THEN heads[k] ELSE <<i - 1, IF k = "clip" THEN 1 ELSE 0>>],
         vals |-> [lora |-> loras[Len(loras) + 1 - (i - base)]]]]

\* New loader nodes, one per LoRA, each fed by the one before; output slot 0 is the
\* model and slot 1 the clip.
LoraChain(g, class, loras, heads) ==
    LET base == Max(DOMAIN g) IN
    [i \in (base + 1)..(base + Len(loras)) |->
        [class |-> class, anchors |-> {}, inputs |-> "object",
         links |-> [k \in DOMAIN heads |->
                      IF i = base + 1 THEN heads[k] ELSE <<i - 1, IF k = "clip" THEN 1 ELSE 0>>],
         vals |-> [lora |-> loras[i - base]]]]

inject_loras(g, loras) ==
    IF loras = <<>> THEN Ok(g)
    ELSE IF ~HasAnchors(g, {"MODEL_SOURCE", "CLIP_SOURCE"}) THEN Raise("workflow")
    ELSE LET ms == find_anchor(g, "MODEL_SOURCE")
             cs == find_anchor(g, "CLIP_SOURCE")
             model == <<ms, infer_output_slot(g, ms, 0)>>
             clip == <<cs, infer_output_slot(g, cs, 1)>>
             chain == LoraChain(g, "LoraLoader", loras, [model |-> model, clip |-> clip])
             new == DOMAIN chain
             g1 == rewrite_inputs(Over(g, chain), model, <<Max(new), 0>>, new)
         IN  Ok(rewrite_inputs(g1, clip, <<Max(new), 1>>, new))

\* Rejected by load_registry already; here only as a second line.
inject_vpred(g, m) == IF m.prediction = "vpred" THEN Raise("not_implemented") ELSE Ok(g)

\* Gives the node of an anchor inputs.
Opened(g, a) == IF HasAnchor(g, a) THEN [g EXCEPT ![find_anchor(g, a)].inputs = "object"] ELSE g

\* Inputs that are missing are created; into what is no object nothing can be written.
inject_init_image(g, file) ==
    IF Unfit(g, "INIT_IMAGE") THEN Raise("key")
    ELSE Ok(PatchIfAny(Opened(g, "INIT_IMAGE"), "INIT_IMAGE", [image |-> file]))

-----------------------------------------------------------------------------
(* WAN graphs, core nodes or the older wrapper nodes.                      *)

IsCore(g) == \E i \in DOMAIN g : g[i].class = "UNETLoader"

WanField(class, core, field, legacy) == IF class = core THEN field ELSE legacy

WanUnet(g, a, file) ==
    PatchAt(g, a, [f \in {WanField(ClassAt(g, a), "UNETLoader", "unet_name", "model")} |-> file])

\* Older VAE loaders also get the precision the file name suggests, if any.
VaeVals(class, m) ==
    IF class = "VAELoader" THEN [vae_name |-> m.assets.vae]
    ELSE Over([model_name |-> m.assets.vae],
              IF class = "WanVideoVAELoader" /\ m.vae_precision # None
              THEN [precision |-> m.vae_precision] ELSE <<>>)

inject_video_weights(g, m) ==
    IF \/ ~CanFillAll(g, {"WAN_MODEL", "WAN_VAE", "WAN_T5"})
       \/ Bare(g, "WAN_MODEL_LOW") \/ Bare(g, "WAN_CLIP_VISION")
       \/ HasAnchor(g, "WAN_MODEL_LOW") /\ m.assets.wan_unet_low = None
       \/ None \in {m.assets.vae, m.assets.wan_t5_encoder}
    THEN Raise("workflow")
    ELSE LET g1 == WanUnet(g, "WAN_MODEL", m.assets.checkpoint)
             g2 == IF HasAnchor(g, "WAN_MODEL_LOW")
                   THEN WanUnet(g1, "WAN_MODEL_LOW", m.assets.wan_unet_low) ELSE g1
             g3 == PatchAt(g2, "WAN_VAE", VaeVals(ClassAt(g, "WAN_VAE"), m))
             g4 == PatchAt(g3, "WAN_T5",
                           [f \in {WanField(ClassAt(g, "WAN_T5"), "CLIPLoader", "clip_name",
                                            "model_name")} |-> m.assets.wan_t5_encoder])
         IN  Ok(IF m.assets.wan_clip_vision = None THEN g4
                ELSE PatchIfAny(g4, "WAN_CLIP_VISION", [clip_name |-> m.assets.wan_clip_vision]))

inject_mmaudio_weights(g, m) ==
    IF ~HasAnchor(g, "MMAUDIO_FEATURE_UTILS") THEN Ok(g)
    ELSE IF \/ None \in Range(m.mmaudio)
            \/ ~CanFillAll(g, {"MMAUDIO_FEATURE_UTILS", "MMAUDIO_DIFFUSION"})
    THEN Raise("workflow")
    ELSE LET g1 == PatchAt(g, "MMAUDIO_FEATURE_UTILS",
                           [vae_model |-> m.mmaudio.vae, clip_model |-> m.mmaudio.clip,
                            synchformer_model |-> m.mmaudio.synchformer])
         IN  Ok(PatchAt(g1, "MMAUDIO_DIFFUSION", [mmaudio_model |-> m.mmaudio.diffusion]))

FirstN(s, n) == SubSeq(s, 1, Min({n, Len(s)}))

\* A shift node without inputs is left as it is, and the chain feeds nothing.
inject_wan_core_loras_between(g, loras, model, shift) ==
    IF loras = <<>> THEN Ok(g)
    ELSE IF ~HasAnchors(g, {model, shift}) THEN Raise("workflow")
    ELSE LET chain == LoraChain(g, "LoraLoaderModelOnly", FirstN(loras, WAN_MAX_LORAS),
                                [model |-> <<find_anchor(g, model), 0>>])
         IN  IF Bare(g, shift) THEN Ok(Over(g, chain))
             ELSE Ok([Over(g, chain) EXCEPT ![find_anchor(g, shift)].links =
                         Over([model |-> <<Max(DOMAIN chain), 0>>], @)])

\* With a low-noise expert the second LoRA goes there and the others to the high path.
HighLoras(loras) == IF Len(loras) >= 2 THEN <<loras[1]>> \o SubSeq(loras, 3, Len(loras)) ELSE loras
LowLoras(loras) == IF Len(loras) >= 2 THEN <<loras[2]>> ELSE <<>>

IsDual(g) == HasAnchors(g, {"WAN_MODEL_LOW", "WAN_SHIFT_LOW"})

inject_wan_core_loras(g, loras) ==
    IF ~IsDual(g) THEN inject_wan_core_loras_between(g, loras, "WAN_MODEL", "WAN_SHIFT")
    ELSE Then(inject_wan_core_loras_between(g, HighLoras(loras), "WAN_MODEL", "WAN_SHIFT"),
              LAMBDA h : inject_wan_core_loras_between(h, LowLoras(loras),
                                                       "WAN_MODEL_LOW", "WAN_SHIFT_LOW"))

\* Unplugs the idle multi-LoRA node from the model loaders it feeds.
disconnect_loader_lora(g, multi) ==
    [i \in DOMAIN g |->
        IF g[i].class = "WanVideoModelLoader" /\ "lora" \in DOMAIN g[i].links
           /\ g[i].links["lora"][1] = multi
        THEN [g[i] EXCEPT !.links = [k \in DOMAIN @ \ {"lora"} |-> @[k]]]
        ELSE g[i]]

\* The slots of the multi-LoRA node, in request order; merge_loras and low_mem_load
\* override its options when given.
inject_wan_lora_multi(g, loras, adv) ==
    IF ~HasAnchor(g, "WAN_LORA_MULTI")
    THEN IF loras # <<>> THEN Raise("workflow") ELSE Ok(g)
    ELSE IF Bare(g, "WAN_LORA_MULTI") THEN Raise("workflow")
    ELSE LET multi == find_anchor(g, "WAN_LORA_MULTI")
             g1 == Patch(g, multi,
                         Over([slots |-> FirstN(loras, WAN_MAX_LORAS)],
                              IF "lora" \in adv THEN [options |-> "requested"] ELSE <<>>))
         IN  Ok(IF loras = <<>> THEN disconnect_loader_lora(g1, multi) ELSE g1)

\* wan_advanced.py: a group of options reaches the node of its anchor only if that
\* node has the class that knows them; adv is the set of groups in the request.
AdvancedGroups ==
    [encode |-> "WAN_DIMS", clip_encode |-> "WAN_CLIP_ENCODE", decode |-> "WAN_DECODE",
     block_swap |-> "WAN_BLOCK_SWAP", export |-> "VIDEO_OUTPUT"]

Knows(class, group) ==
    CASE group = "encode" -> class = "WanVideoImageToVideoEncode"
      [] group = "decode" -> class = "WanVideoDecode"
      [] OTHER -> TRUE

\* Groups whose anchor must be there; the others are skipped silently.
MustHaveAnchor == {"encode", "decode", "export"}

apply_wan_advanced_patches(g, adv, task) ==
    LET groups == (adv \cap DOMAIN AdvancedGroups)
                      \ (IF task = "i2v" THEN {} ELSE {"encode", "clip_encode"})
        reached == {x \in groups : /\ HasAnchor(g, AdvancedGroups[x])
                                   /\ Knows(ClassAt(g, AdvancedGroups[x]), x)}
    IN  IF \/ \E x \in groups \cap MustHaveAnchor : ~HasAnchor(g, AdvancedGroups[x])
           \/ \E x \in reached : Bare(g, AdvancedGroups[x])
        THEN Raise("workflow")
        ELSE Ok([i \in DOMAIN g |->
                   LET here == {x \in reached : find_anchor(g, AdvancedGroups[x]) = i}
                   IN  [g[i] EXCEPT !.vals = Over([x \in here |-> "requested"], @)]])

-----------------------------------------------------------------------------
(* LTX Video graphs.                                                       *)

LTXV_AUDIO_VAE == "LTX23_audio_vae"
LTXV_VIDEO_VAE == "LTX23_video_vae"

inject_ltxv_weights(g, m) ==
    IF ~CanFillAll(g, {"LTXV_CHECKPOINT", "LTXV_TEXT_ENCODER"}) THEN Raise("workflow")
    ELSE LET g1 == PatchAt(g, "LTXV_CHECKPOINT", [ckpt_name |-> m.assets.checkpoint])
             g2 == PatchAt(g1, "LTXV_TEXT_ENCODER", [ckpt_name |-> m.assets.checkpoint])
             g3 == IF m.assets.ltxv_text_encoder = None THEN g2
                   ELSE PatchAt(g2, "LTXV_TEXT_ENCODER", [text_encoder |-> m.assets.ltxv_text_encoder])
         IN  Ok(PatchAll(g3, OfClass(g3, "LTXVAudioVAELoader"), [ckpt_name |-> LTXV_AUDIO_VAE]))

\* inject_ltxv_video_vae, inject_ltxv_seed and inject_ltxv_frames.
PatchOrRaise(g, a, new) == IF CanFill(g, a) THEN Ok(PatchAt(g, a, new)) ELSE Raise("workflow")

inject_ltxv_video_vae(g) == PatchOrRaise(g, "LTXV_VIDEO_VAE", [vae_name |-> LTXV_VIDEO_VAE])
inject_ltxv_seed(g, seed) == PatchOrRaise(g, "LTXV_SEED", [seed |-> seed % SeedLimit])
inject_ltxv_frames(g, frames) == PatchOrRaise(g, "LTXV_FRAMES", [value |-> frames])
=============================================================================
