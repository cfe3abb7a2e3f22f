----------------------------- MODULE RunSettings -----------------------------
(***************************************************************************)
(* What a run may be started with: the value rules of the run config       *)
(* (training/settings.py) and of the model architecture config             *)
(* (model/config.py), the checks train() makes between them, the dataset   *)
(* config and the tokenizer (training/execution/setup.py,                  *)
(* training/tokenizer_contract.py), and the steps the intervals pick.      *)
(*                                                                         *)
(* A settings or model record is indexed by field name. A real number is   *)
(* an integer over a unit, so only its sign and its bounds matter; an      *)
(* optional value is a set of at most one; the int shorthand of a          *)
(* per-block field is a sequence of one.                                   *)
(***************************************************************************)
EXTENDS DatasetResolution

CONSTANTS EllisEps, AdamWEps \* the optimizers' own defaults, 1e-6 and 1e-8

-----------------------------------------------------------------------------
(* The run config alone                                                     *)

RequiredPaths == {"dataset_config", "model_architecture_config"}
PositiveSettings == {
    "log_step_interval", "eval_step_interval", "eval_iters", "grad_clip",
    "tokens_per_micro_batch", "micro_batches_per_step", "validation_batch_size",
    "prepare_pass_workers", "sample_batch_size", "sample_max_new_tokens",
    "benchmark_batch_size"}
NonNegativeSettings == {
    "log_gradient_metrics_interval", "save_step_interval", "warmup_steps",
    "cooldown_steps", "sample_step_interval", "benchmark_step_interval"}
Progresses == {"sample_at_training_progress", "benchmark_at_training_progress"}
Recurrences == {"sample_recurrences", "benchmark_recurrences"}

EllisOptimizers == {"ELLISAdam", "ELLISAdam8bit"}
Optimizers == EllisOptimizers \union {"AdamW"}
CorrelationTargets == {"adapter", "attention", "mlp"}
CheckpointModes == {"none", "selective", "full"}

Values(sequence) == {sequence[i] : i \in DOMAIN sequence}

\* ELLISAdam divides by its learning rate; an omitted eps is the optimizer's own.
OptimizerConfigHolds(o, optimizer, unit) ==
    /\ o.lr >= 0 /\ (optimizer \in EllisOptimizers => o.lr > 0)
    /\ Len(o.betas) = 2 /\ Values(o.betas) \subseteq 0..(unit - 1)
    /\ \A eps \in o.eps : eps >= 0
    /\ o.weight_decay >= 0

SampleTemperaturesHold(temperatures) ==
    temperatures # <<>> /\ \A t \in Values(temperatures) : t >= 0

IntervalsHold(s) ==
    /\ s.eval_step_interval % s.log_step_interval = 0
    /\ s.log_gradient_metrics_interval % s.log_step_interval = 0

BenchmarksHold(s) ==
    /\ \A limit \in s.benchmark_limit : limit > 0
    /\ s.benchmark_num_fewshot >= -1
    /\ s.benchmark_at_training_progress # {} \/ s.benchmark_step_interval > 0 =>
           s.benchmark_tasks # {}

SettingsHold(s, unit) ==
    /\ s.log_correlations \subseteq CorrelationTargets
    /\ \A f \in RequiredPaths : s[f] # None
    /\ s.stage_base_lrs # <<>> /\ \A lr \in Values(s.stage_base_lrs) : lr >= 0
    /\ \A f \in PositiveSettings : s[f] > 0
    /\ \A f \in NonNegativeSettings : s[f] >= 0
    /\ s.optimizer \in Optimizers
    /\ s.optimizer_sharding \in {"none", "zero1"}
    /\ s.optimizer_sharding = "zero1" => s.backend = "ddp"
    /\ s.lr_schedule = "trapezoid"
    /\ \A depth \in Values(s.partial_depth_eval) : depth > 0
    /\ OptimizerConfigHolds(s.optim_config, s.optimizer, unit)
    /\ s.loss_normalization = "supervised_token_v1"
    /\ s.gradient_checkpointing \in CheckpointModes
    /\ s.training_max_sequence_length <= s.tokens_per_micro_batch
    /\ IntervalsHold(s)
    /\ s.resume_checkpoint_path # None => s.resume
    /\ SampleTemperaturesHold(s.sample_temperature)
    /\ BenchmarksHold(s)
    /\ \A f \in Progresses : s[f] \subseteq 0..(100 * unit)
    /\ \A f \in Recurrences : \A setting \in Values(s[f]) :
           setting # <<>> /\ \A steps \in Values(setting) : steps > 0

-----------------------------------------------------------------------------
(* Counts of the whole world, and the step numbers they pick                *)

SplitsOverRanks(total, world) == world >= 1 /\ total % world = 0

WorldSizeHolds(s, world) ==
    SplitsOverRanks(s.micro_batches_per_step, world) /\ SplitsOverRanks(s.eval_iters, world)

MicroBatchesPerRank(s, world) == s.micro_batches_per_step \div world
TokensPerOptimizerStep(s) == s.micro_batches_per_step * s.tokens_per_micro_batch

IsEvaluationStep(s, step, totalSteps) ==
    step % s.eval_step_interval = 0 \/ step >= totalSteps

\* The steps whose metrics are written.
IsLogged(s, step, totalSteps) == step % s.log_step_interval = 0 \/ step >= totalSteps

\* The steps whose gradients and representations are probed.
IsProbed(s, step) ==
    s.log_gradient_metrics_interval > 0 /\ step % s.log_gradient_metrics_interval = 0

-----------------------------------------------------------------------------
(* The model architecture                                                   *)

ModelDefaults == [
    model_max_sequence_length |-> 2048, n_embd |-> 1024, intermediate_size |-> None,
    num_attention_heads |-> 16, vocab_size |-> 32000, padding_multiple |-> 2048,
    padded_vocab_size |-> None, tie_embeddings |-> TRUE, rope_base |-> 50000,
    attn_impl |-> "sdpa", norm_eps |-> 1, qk_bias |-> TRUE, use_custom_kernels |-> TRUE,
    bf16_residual_stream |-> "none", residual_scaling |-> "none",
    init_strategy |-> "takase", init_orthogonal |-> TRUE,
    activation_checkpoint_impl |-> "per-iteration", injection_type |-> "linear",
    n_layers_in_prelude |-> 2, n_layers_in_coda |-> 2,
    n_layers_in_recurrent_block |-> <<4>>, state_init |-> "normal",
    use_trainable_initial_state |-> FALSE,
    sampling_scheme |-> "poisson-lognormal-filling",
    mean_recurrence |-> <<12>>, mean_backprop_depth |-> <<8>>]

FixedFields == {"attn_impl", "init_strategy", "activation_checkpoint_impl",
                "injection_type", "state_init", "sampling_scheme"}
PositiveSizes == {"model_max_sequence_length", "n_embd", "num_attention_heads",
                  "vocab_size", "padding_multiple", "norm_eps", "rope_base"}

\* The fields of f, the other fields of g.
Overlay(f, g) == [x \in DOMAIN f \union DOMAIN g |-> IF x \in DOMAIN f THEN f[x] ELSE g[x]]

FromYaml(loaded, overrides) == Overlay(overrides, Overlay(loaded, ModelDefaults))
KeysHold(loaded, overrides) ==
    DOMAIN loaded \subseteq DOMAIN ModelDefaults /\ DOMAIN overrides \subseteq DOMAIN ModelDefaults

\* train() builds the model of the run's own choice of kernels.
Overrides(s) == Overlay([use_custom_kernels |-> s.use_custom_kernels], s.model_overwrite)

LeastMultiple(value, multiple) ==
    IF value % multiple = 0 THEN value ELSE value + multiple - (value % multiple)

NumBlocks(m) == Len(m.n_layers_in_recurrent_block)
BroadcastPerBlock(values, blocks) ==
    IF Len(values) = 1 /\ blocks > 1 THEN [b \in 1..blocks |-> values[1]] ELSE values

\* The config its constructor leaves behind.
Constructed(m) == [m EXCEPT
    !.padded_vocab_size =
        Some(OrElse(m.padded_vocab_size, LeastMultiple(m.vocab_size, m.padding_multiple))),
    !.intermediate_size = Some(OrElse(m.intermediate_size, 4 * m.n_embd)),
    !.mean_recurrence = BroadcastPerBlock(m.mean_recurrence, NumBlocks(m)),
    !.mean_backprop_depth = BroadcastPerBlock(m.mean_backprop_depth, NumBlocks(m))]

HeadSizeHolds(m) ==
    m.n_embd % m.num_attention_heads = 0 /\ (m.n_embd \div m.num_attention_heads) % 2 = 0

SizesHold(m) ==
    /\ \A f \in PositiveSizes : m[f] >= 1
    /\ \A size \in m.intermediate_size : size >= 1
    /\ \A padded \in m.padded_vocab_size : padded >= m.vocab_size

\* A block has layers, some gradient, and no more of it than it runs on average.
RecurrenceHolds(m) ==
    /\ m.n_layers_in_prelude >= 0 /\ m.n_layers_in_coda >= 0
    /\ Len(m.mean_recurrence) = NumBlocks(m) /\ Len(m.mean_backprop_depth) = NumBlocks(m)
    /\ \A b \in 1..NumBlocks(m) :
           /\ m.n_layers_in_recurrent_block[b] >= 1
           /\ m.mean_backprop_depth[b] >= 1
           /\ m.mean_backprop_depth[b] <= m.mean_recurrence[b]

ModelHolds(m) ==
    /\ \A f \in FixedFields : m[f] = ModelDefaults[f]
    /\ m.bf16_residual_stream \in {"none", "core", "all"}
    /\ m.residual_scaling \in {"none", "inverse_sqrt_depth"}
    /\ SizesHold(m) /\ HeadSizeHolds(m) /\ RecurrenceHolds(Constructed(m))

-----------------------------------------------------------------------------
(* What train() checks, in its order                                        *)

EvaluationRecurrencesHold(s, model) ==
    \A f \in Recurrences : \A setting \in Values(s[f]) : Len(setting) = NumBlocks(model)

ProfileVocabulary == 32002
ProfileHolds(c, model) ==
    c.tokenizer.profile # None => model.vocab_size = ProfileVocabulary

\* Before any resource is taken, on the dataset config as it is then. The schedule's
\* own validation is ValidSchedule of StageSchedule.
PlanHolds(s, loaded, c) ==
    LET m == FromYaml(loaded, Overrides(s)) IN
    /\ KeysHold(loaded, Overrides(s)) /\ ModelHolds(m)
    /\ EvaluationRecurrencesHold(s, Constructed(m))
    /\ DatasetHolds(c) /\ ProfileHolds(c, Constructed(m)) /\ ValidateSettings(c, s)

\* The dataset config is read again under the dataset lock; its stages must not have
\* changed since.
StagePlan(c, s) ==
    [i \in DOMAIN c.stages |-> [c.stages[i] EXCEPT !.val = {}]]
SchedulesAgree(c, d, s) == StagePlan(c, s) = StagePlan(d, s)

\* contract: the chat profile the tokenizer files carry, if any.
ContractHolds(contract, model) ==
    /\ \A k \in contract : model.vocab_size = k.vocab_size
    /\ \E padded \in model.padded_vocab_size : model.vocab_size <= padded

\* tokens: len(tokenizer).
TokenizerVocabularyHolds(tokens, model) == tokens <= model.vocab_size

SequenceLengthsHold(s, c, model) ==
    /\ s.training_max_sequence_length <= model.model_max_sequence_length
    /\ s.training_max_sequence_length <= c.dataset_max_sequence_length

\* The four switches of ELLISAdam stay at their defaults under AdamW.
OptimizerOptionsHold(s) == s.optimizer \notin EllisOptimizers =>
    /\ ~s.optim_config.update_clipping /\ ~s.optim_config.atan_adam
    /\ ~s.optim_config.running_init /\ s.optim_config.decouple_wd

\* A run that reaches its first step: planned on c, its dataset resolved from d.
Starts(s, loaded, c, d, world, tokens, contract) ==
    LET model == Constructed(FromYaml(loaded, Overrides(s))) IN
    /\ SettingsHold(s, d.unit) /\ PlanHolds(s, loaded, c)
    /\ WorldSizeHolds(s, world)
    /\ DatasetHolds(d) /\ ValidateSettings(d, s) /\ SchedulesAgree(c, d, s)
    /\ ContractHolds(contract, model)
    /\ TokenizerVocabularyHolds(tokens, model)
    /\ SequenceLengthsHold(s, d, model)
    /\ OptimizerOptionsHold(s)

-----------------------------------------------------------------------------
(* What a resumed run may change (training/checkpoint.py,                   *)
(* execution/checkpoints.py). The comparison of the dataset is              *)
(* DatasetUnchanged of DatasetResolution. The parameter groups of an        *)
(* optimizer are compared without their parameters and learning rate.       *)
AllowedToDiffer == {
    "run_name", "out_dir", "resume", "resume_checkpoint_path",
    "allow_settings_change", "allow_dataset_change", "backend", "dataset_config",
    "dataset_dir", "model_architecture_config", "model_overwrite", "auto_prepare",
    "prepare_num_workers", "prepare_pass_workers", "prepare_max_parallel_downloads",
    "log_step_interval", "log_gradient_metrics_interval", "log_correlations",
    "eval_step_interval", "eval_iters", "partial_depth_eval", "save_step_interval",
    "save_last_step", "logger_project", "wandb_offline", "wandb_enabled",
    "export_to_hf", "export_hf_path", "sample_step_interval",
    "sample_at_training_progress", "sample_batch_size", "sample_max_new_tokens",
    "sample_temperature", "sample_use_cache", "sample_recurrences",
    "benchmark_step_interval", "benchmark_at_training_progress", "benchmark_tasks",
    "benchmark_limit", "benchmark_num_fewshot", "benchmark_apply_chat_template",
    "benchmark_batch_size", "benchmark_recurrences"}
ParamGroupingSetting == "no_weight_decay_for_bias_and_norm_params"

\* What an older checkpoint that lacks the field stands for.
LegacySettings == [use_custom_kernels |-> FALSE, loss_normalization |-> "legacy_pack_v0",
                   optimizer_sharding |-> "none"]
LegacyModel == [use_custom_kernels |-> FALSE, residual_scaling |-> "none",
                use_trainable_initial_state |-> FALSE]

Get(f, key) == IF key \in DOMAIN f THEN Some(f[key]) ELSE None

-----------------------------------------------------------------------------
(* Parameter groups                                                         *)

\* 1 the matrices, 2 the embeddings, 3 norms, biases and initial states.
Groups == 1..3
EmbeddingGroup == 2

Eps(s) == OrElse(s.optim_config.eps, IF s.optimizer = "AdamW" THEN AdamWEps ELSE EllisEps)

WeightDecay(s, g) ==
    IF g = 3 /\ s[ParamGroupingSetting] THEN 0 ELSE s.optim_config.weight_decay

CommonOptions(s, g) == [
    betas |-> s.optim_config.betas, eps |-> Eps(s), weight_decay |-> WeightDecay(s, g)]

EllisOptions(s) == [
    init_lr |-> s.optim_config.lr, update_clipping |-> s.optim_config.update_clipping,
    running_init |-> s.optim_config.running_init, atan_adam |-> s.optim_config.atan_adam,
    decouple_wd |-> s.optim_config.decouple_wd]

\* ELLISAdam8bit keeps the moments of the embeddings in 32 bits.
StateBits(g) == [state_bits |-> IF g = EmbeddingGroup THEN 32 ELSE 8]

Hyperparameters(s, g) ==
    IF s.optimizer = "AdamW" THEN CommonOptions(s, g)
    ELSE IF s.optimizer = "ELLISAdam" THEN Overlay(EllisOptions(s), CommonOptions(s, g))
    ELSE Overlay(StateBits(g), Overlay(EllisOptions(s), CommonOptions(s, g)))

GroupHyperparameters(s) == [g \in Groups |-> Hyperparameters(s, g)]

ParamGroupsUnchanged(expected, loaded) ==
    /\ DOMAIN expected = DOMAIN loaded
    /\ \A g \in DOMAIN expected :
           \A key \in DOMAIN expected[g] \union DOMAIN loaded[g] :
               Get(expected[g], key) = Get(loaded[g], key)

-----------------------------------------------------------------------------
(* Saving and restoring                                                     *)

\* What save_run_checkpoint writes of the run besides its progress.
MetadataOf(s, model, world, contract) == [
    settings |-> s, model_config |-> model, world_size |-> world,
    tokenizer_contract |-> contract, groups |-> GroupHyperparameters(s)]

ChangedSettings(stored, s) ==
    {key \in DOMAIN s \ AllowedToDiffer : Get(stored, key) # Some(s[key])}

SettingsUnchanged(metadata, s, model) ==
    LET stored == Overlay(metadata.settings, LegacySettings)
        changed == ChangedSettings(stored, s)
    IN  /\ ParamGroupingSetting \in changed => ParamGroupingSetting \notin DOMAIN stored
        /\ \/ changed = {} /\ model = Overlay(metadata.model_config, LegacyModel)
           \/ s.allow_settings_change

\* The checks of load_training_checkpoint and restore_checkpoint, the dataset's aside.
Restores(metadata, s, model, world, contract) ==
    /\ metadata.tokenizer_contract = contract
    /\ OrElse(Get(metadata.settings, "optimizer_sharding"), "none") = s.optimizer_sharding
    /\ ParamGroupsUnchanged(GroupHyperparameters(s), metadata.groups)
    /\ ContractHolds(contract, model)
    /\ SettingsUnchanged(metadata, s, model)
    /\ metadata.world_size = world

-----------------------------------------------------------------------------
(* Properties                                                               *)

\* What RecurrentForward takes for granted: a document fits a pack and the position
\* table of the model, every id the tokenizer gives has a trained row, and a block
\* gets gradient in some of its iterations.
ForwardFits(s, model, tokens) ==
    /\ s.training_max_sequence_length <= s.tokens_per_micro_batch
    /\ s.training_max_sequence_length <= model.model_max_sequence_length
    /\ \E padded \in model.padded_vocab_size :
           tokens <= model.vocab_size /\ model.vocab_size <= padded
    /\ \A b \in 1..NumBlocks(model) :
           model.mean_backprop_depth[b] \in 1..model.mean_recurrence[b]

\* What OptimizerStep takes for granted: the ranks' packs make up the step, and the
\* budget unit counts all of their tokens.
SharesAreWhole(s, world) ==
    /\ MicroBatchesPerRank(s, world) \in Nat \ {0}
    /\ MicroBatchesPerRank(s, world) * world = s.micro_batches_per_step
    /\ TokensPerOptimizerStep(s) \in Nat \ {0}

\* No validation result and no probe is computed and then not written.
ResultsAreLogged(s, totalSteps) ==
    \A step \in Nat :
        IsEvaluationStep(s, step, totalSteps) \/ IsProbed(s, step) => IsLogged(s, step, totalSteps)

\* What no resume changes, allow_settings_change or not: the optimizer, everything its
\* update reads but the scheduled learning rate, its groups and its sharding.
SameOptimizer(a, b) ==
    /\ a.optimizer = b.optimizer /\ a.optimizer_sharding = b.optimizer_sharding
    /\ a.optim_config.betas = b.optim_config.betas /\ Eps(a) = Eps(b)
    /\ a.optim_config.weight_decay = b.optim_config.weight_decay
    /\ a[ParamGroupingSetting] = b[ParamGroupingSetting]
    /\ a.optimizer # "AdamW" => EllisOptions(a) = EllisOptions(b)

\* What a resume without allow_settings_change keeps: every setting that is not exempt.
SameSettings(a, b) ==
    \A key \in (DOMAIN a \intersect DOMAIN b) \ AllowedToDiffer : a[key] = b[key]
=============================================================================
