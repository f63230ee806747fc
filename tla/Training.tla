------------------------------ MODULE Training ------------------------------
(***************************************************************************)
(* A training process: the optimizers, schedulers and clipping of          *)
(* rustorch-optim and the GradScaler of rustorch-amp, driven by the usual  *)
(* loop, with crashes and resumption from a checkpoint.                    *)
(* Arithmetic is symbolic.  A parameter's value is the sequence of the     *)
(* updates made to it, an update being the tuple of what its formula       *)
(* reads; a moment buffer is the sequence of the gradients it has folded   *)
(* in, so that zeros are <<>>; a learning rate is <<schedule, steps>>.     *)
(* Equal terms are equal numbers.                                          *)
(***************************************************************************)
EXTENDS Integers, Sequences, FiniteSets, SequencesExt, FiniteSetsExt

CONSTANTS
  Setups,          \* how the caller builds the process: [rule, decay, device, schedule, clip, scale]
  Param,           \* the parameters, 1 .. n
  MaxIterations,   \* of the loop, along one lineage
  GrowthInterval,  \* clean steps before the scale grows
  MaxScale,        \* log2 of the largest loss scale
  MaxNormSquared,  \* of the clipping
  StepSize,        \* of StepLR, t_max of the cosine, warmup_steps
  RectifiedFrom    \* the first step at which RAdam's rho_t > 4

TrainAssumption ==
  /\ Param \subseteq Int /\ IsFiniteSet(Param)
  /\ StepSize \in Nat \ {0} /\ MaxScale \in Int
  /\ Setups \subseteq
       [rule : {"sgd", "momentum", "nesterov", "adam", "adamw", "nadam", "radam", "adamax", "adagrad", "rmsprop",
                "lion", "adafactor"},
        decay : BOOLEAN, device : {"cpu", "wgpu", "metal"}, clip : {"no", "global", "each"}, scale : Int,
        schedule : {"none", "StepLR", "ExponentialLR", "CosineAnnealingLR", "LinearWarmup"}]
ASSUME TrainAssumption

VARIABLES
  setup,    \* the one in use
  trainAt,    \* the loop's next call
  value,    \* parameter -> its value
  slot,     \* parameter -> its gradient slot
  opt,      \* [lr, step_t, bufs, devs]: the optimizer; devs its buffers on the GPU
  count,    \* the scheduler's step_count
  scaler,   \* [scale, growth_tracker], scale as a power of two
  disk,     \* the last checkpoint
  history,  \* the iterations that the parameters should reflect
  torn      \* parameters whose moments are split between host and device

trainVars == <<setup, trainAt, value, slot, opt, count, scaler, disk, history, torn>>

EmptySlot == [present |-> FALSE]
Gradient(g, finite, scale) == [present |-> TRUE, g |-> g, finite |-> finite, scale |-> scale, clip |-> 0]
NoBuffers == [b \in {} |-> <<>>]
NoSlots == [i \in Param |-> EmptySlot]

(* new() of every optimizer, scheduler and scaler.                          *)
Fresh == [lr |-> <<"base", 0>>, step_t |-> 0, bufs |-> [i \in Param |-> NoBuffers], devs |-> [i \in Param |-> NoBuffers]]
FreshScaler(s) == [scale |-> s.scale, growth_tracker |-> 0]
Untrained == [i \in Param |-> <<>>]
NoCheckpoint == [value |-> Untrained, sd |-> <<>>, meta |-> <<>>, history |-> <<>>]

TrainInit ==
  /\ setup \in Setups
  /\ trainAt = "backward"
  /\ value = Untrained /\ slot = NoSlots
  /\ opt = Fresh /\ count = 0 /\ scaler = FreshScaler(setup)
  /\ disk = NoCheckpoint
  /\ history = <<>> /\ torn = {}

(* ---------------------------- the formulas ----------------------------- *)

(* take().unwrap_or(zeros)                                                  *)
Held(bufs, b) == IF b \in DOMAIN bufs THEN bufs[b] ELSE <<>>

(* g + weight_decay * p, when there is decay and it is coupled.             *)
Effective(g, p) == IF setup.decay THEN <<g, p>> ELSE <<g>>

Stepped(p, update, bufs) == [value |-> Append(p, update), bufs |-> bufs]

Sgd(p, g, bufs) ==
  LET eff == Effective(g, p)
      v == Append(Held(bufs, "velocity"), eff)
  IN  CASE setup.rule = "sgd" -> Stepped(p, <<opt.lr, eff>>, bufs)
        [] setup.rule = "momentum" -> Stepped(p, <<opt.lr, v>>, [velocity |-> v])
        [] setup.rule = "nesterov" -> Stepped(p, <<opt.lr, eff, v>>, [velocity |-> v])

(* The pair of exponential moments that Adam, NAdam and RAdam keep.         *)
Moments(bufs, eff) == [m |-> Append(Held(bufs, "m"), eff), v |-> Append(Held(bufs, "v"), eff)]

(* The kernel works element by element: a chunk of the parallel pass is     *)
(* stepped as the whole is.                                                 *)
cpu_adamw_kernel(p, g, bufs, t) ==
  LET eff == IF setup.rule = "adamw" THEN <<g>> ELSE Effective(g, p)
      b == Moments(bufs, eff)
  IN  Stepped(p, <<opt.lr, b.m, b.v, t>> \o (IF setup.rule = "adamw" /\ setup.decay THEN <<p>> ELSE <<>>), b)

NAdam(p, g, bufs, t) ==
  LET b == Moments(bufs, Effective(g, p)) IN Stepped(p, <<opt.lr, b.m, Effective(g, p), b.v, t>>, b)

RAdam(p, g, bufs, t) ==
  LET b == Moments(bufs, Effective(g, p))
  IN  Stepped(p, <<opt.lr, b.m, t>> \o (IF t >= RectifiedFrom THEN <<b.v>> ELSE <<>>), b)

Adamax(p, g, bufs, t) ==
  LET eff == Effective(g, p)
      b == [m |-> Append(Held(bufs, "m"), eff), u |-> Append(Held(bufs, "u"), eff)]
  IN  Stepped(p, <<opt.lr, b.m, b.u, t>>, b)

Adagrad(p, g, bufs) ==
  LET acc == Append(Held(bufs, "acc"), Effective(g, p)) IN Stepped(p, <<opt.lr, Effective(g, p), acc>>, [acc |-> acc])

RMSprop(p, g, bufs) ==
  LET v == Append(Held(bufs, "v"), Effective(g, p)) IN Stepped(p, <<opt.lr, Effective(g, p), v>>, [v |-> v])

(* The sign of a mix of the old moment and the gradient; then the moment.   *)
Lion(p, g, bufs) ==
  LET m == Held(bufs, "m")
  IN  Stepped(p, <<opt.lr, m, g>> \o (IF setup.decay THEN <<p>> ELSE <<>>), [m |-> Append(m, <<g>>)])

(* Row and column means for a matrix (parameter 1 is one), a full second    *)
(* moment otherwise, of the gradient without the decay.                     *)
Adafactor(i, p, g, bufs) ==
  LET Grown(b) == Append(Held(bufs, b), <<g>>)
  IN  IF i = 1
      THEN Stepped(p, <<opt.lr, Effective(g, p), Grown("r"), Grown("c")>>, [r |-> Grown("r"), c |-> Grown("c")])
      ELSE Stepped(p, <<opt.lr, Effective(g, p), Grown("v")>>, [v |-> Grown("v")])

Rule(i, p, g, bufs, t) ==
  CASE setup.rule \in {"sgd", "momentum", "nesterov"} -> Sgd(p, g, bufs)
    [] setup.rule \in {"adam", "adamw"} -> cpu_adamw_kernel(p, g, bufs, t)
    [] setup.rule = "nadam" -> NAdam(p, g, bufs, t)
    [] setup.rule = "radam" -> RAdam(p, g, bufs, t)
    [] setup.rule = "adamax" -> Adamax(p, g, bufs, t)
    [] setup.rule = "adagrad" -> Adagrad(p, g, bufs)
    [] setup.rule = "rmsprop" -> RMSprop(p, g, bufs)
    [] setup.rule = "lion" -> Lion(p, g, bufs)
    [] setup.rule = "adafactor" -> Adafactor(i, p, g, bufs)
Counting == {"adam", "adamw", "nadam", "radam", "adamax"}  \* the optimizers with a step_t

(* ------------------------------ the loop ------------------------------- *)

(* A gradient's term as the formulas read it: scaled by 2^scale, clipped.   *)
Read(x) == <<x.g, x.scale, x.clip>>

(* scale_loss and backward: some parameters get no gradient, some overflow. *)
Backward ==
  /\ trainAt = "backward" /\ Len(history) < MaxIterations
  /\ \E reached \in SUBSET Param : \E bad \in SUBSET reached :
       /\ LET g(i) == ((Len(history) + i) % 3) + 1
          IN  /\ slot' = [i \in Param |-> IF i \in reached THEN Gradient(g(i), i \notin bad, scaler.scale) ELSE EmptySlot]
              /\ history' = Append(history, [grads |-> [i \in Param |-> IF i \in reached THEN g(i) ELSE 0], ok |-> bad = {}])
  /\ trainAt' = "unscale"
  /\ UNCHANGED <<setup, value, opt, count, scaler, disk, torn>>

(* GradScaler::step: unscale, or skip the step and back off.                *)
ScalerStep ==
  /\ trainAt = "unscale"
  /\ IF \E i \in Param : slot[i].present /\ ~slot[i].finite
     THEN /\ scaler' = [scale |-> Max({scaler.scale - 1, 0}), growth_tracker |-> 0]
          /\ trainAt' = "zero"
          /\ UNCHANGED slot
     ELSE /\ slot' = [i \in Param |-> IF slot[i].present THEN [slot[i] EXCEPT !.scale = @ - scaler.scale] ELSE EmptySlot]
          /\ scaler' = [scaler EXCEPT !.growth_tracker = @ + 1]
          /\ trainAt' = "clip"
  /\ UNCHANGED <<setup, value, opt, count, disk, history, torn>>

SquaredNorm(S) == SumFunctionOnSet([i \in S |-> slot[i].g * slot[i].g], S)
Present == {i \in Param : slot[i].present}

(* A gradient is scaled by max_norm / norm: the norm of them all, or its    *)
(* own.                                                                     *)
clip_grad_norm_ ==
  IF SquaredNorm(Present) > MaxNormSquared
  THEN [i \in Param |-> IF i \in Present THEN [slot[i] EXCEPT !.clip = SquaredNorm(Present)] ELSE slot[i]]
  ELSE slot
clip_grad_norm_per_param_ ==
  [i \in Param |-> IF i \in Present /\ SquaredNorm({i}) > MaxNormSquared
                   THEN [slot[i] EXCEPT !.clip = SquaredNorm({i})] ELSE slot[i]]
Clip ==
  /\ trainAt = "clip"
  /\ slot' = CASE setup.clip = "no" -> slot
               [] setup.clip = "global" -> clip_grad_norm_
               [] setup.clip = "each" -> clip_grad_norm_per_param_
  /\ trainAt' = "step"
  /\ UNCHANGED <<setup, value, opt, count, scaler, disk, history, torn>>

(* Whether the device steps parameter i, with moments of its own: it is the *)
(* parameter's, the decay is decoupled and no upload, allocation or kernel  *)
(* of it failed.                                                            *)
try_step_wgpu(i, failing) == setup.device = "wgpu" /\ i \notin failing
try_step_metal(i, failing) == setup.device = "metal" /\ i \notin failing
OnDevice(i, failing) == setup.rule = "adamw" /\ (try_step_wgpu(i, failing) \/ try_step_metal(i, failing))

(* Optimizer::step: parameters without a gradient are skipped, step_t is    *)
(* not.  A device step that fails falls through to the host's moments.      *)
OptimizerStep ==
  /\ trainAt = "step"
  /\ \E failing \in SUBSET (IF setup.device = "cpu" THEN {} ELSE Param) :
       LET t == IF setup.rule \in Counting THEN opt.step_t + 1 ELSE opt.step_t
           from(i) == IF OnDevice(i, failing) THEN opt.devs[i] ELSE opt.bufs[i]
           next(i) == Rule(i, value[i], Read(slot[i]), from(i), t)
           device(i) == i \in Present /\ OnDevice(i, failing)
           host(i) == i \in Present /\ ~OnDevice(i, failing)
       IN  /\ value' = [i \in Param |-> IF i \in Present THEN next(i).value ELSE value[i]]
           /\ opt' = [opt EXCEPT !.step_t = t,
                        !.bufs = [i \in Param |-> IF host(i) THEN next(i).bufs ELSE @[i]],
                        !.devs = [i \in Param |-> IF device(i) THEN next(i).bufs ELSE @[i]]]
           /\ torn' = torn \cup {i \in Param : (device(i) /\ opt.bufs[i] # NoBuffers) \/ (host(i) /\ opt.devs[i] # NoBuffers)}
  /\ trainAt' = "schedule"
  /\ UNCHANGED <<setup, slot, count, scaler, disk, history>>

(* get_lr of each scheduler, after n steps.                                 *)
StepLR(n) == <<"gamma", n \div StepSize>>
ExponentialLR(n) == <<"gamma", n>>
CosineAnnealingLR(n) == <<"cos", Min({n, StepSize})>>
LinearWarmup(n) == IF n >= StepSize THEN <<"base", 0>> ELSE <<"ramp", n>>

get_lr(n) ==
  CASE setup.schedule = "StepLR" -> StepLR(n)
    [] setup.schedule = "ExponentialLR" -> ExponentialLR(n)
    [] setup.schedule = "CosineAnnealingLR" -> CosineAnnealingLR(n)
    [] setup.schedule = "LinearWarmup" -> LinearWarmup(n)

SchedulerStep ==
  /\ trainAt = "schedule"
  /\ IF setup.schedule = "none" THEN UNCHANGED <<count, opt>>
     ELSE count' = count + 1 /\ opt' = [opt EXCEPT !.lr = get_lr(count + 1)]
  /\ trainAt' = "zero"
  /\ UNCHANGED <<setup, value, slot, scaler, disk, history, torn>>

(* zero_grad, and GradScaler::update.                                       *)
ZeroAndUpdate ==
  /\ trainAt = "zero"
  /\ slot' = NoSlots
  /\ scaler' = IF scaler.growth_tracker >= GrowthInterval
               THEN [scale |-> Min({scaler.scale + 1, MaxScale}), growth_tracker |-> 0] ELSE scaler
  /\ trainAt' = "backward"
  /\ UNCHANGED <<setup, value, opt, count, disk, history, torn>>

(* ----------------------------- checkpoints ----------------------------- *)

(* Only these have state_dict, meta and their inverses.                     *)
Resumable == {"sgd", "momentum", "nesterov", "adam"}

flatten_buffers(prefixes) ==
  [k \in {p \in prefixes \X Param : p[1] \in DOMAIN opt.bufs[p[2]]} |-> opt.bufs[k[2]][k[1]]]
unflatten_buffers(map, prefixes) ==
  [i \in Param |-> [p \in {b \in prefixes : <<b, i>> \in DOMAIN map} |-> map[<<p, i>>]]]

(* What Adam and Sgd save and load: neither the moments on a device nor the *)
(* builder's choices (nesterov), which the caller makes again.              *)
AdamState == flatten_buffers({"m", "v"})
AdamLoaded(sd) == unflatten_buffers(sd, {"m", "v"})
AdamMeta == [lr |-> opt.lr, step_t |-> opt.step_t]
MutAdamMetaLoaded(o, m) == [o EXCEPT !.lr = m.lr]
AdamMetaLoaded(o, m) == [o EXCEPT !.lr = m.lr, !.step_t = m.step_t]
SgdState == flatten_buffers({"velocity"})
SgdLoaded(sd) == unflatten_buffers(sd, {"velocity"})
SgdMeta == [lr |-> opt.lr]
SgdMetaLoaded(o, m) == [o EXCEPT !.lr = m.lr]

Adaptive == setup.rule = "adam"
Save ==
  /\ trainAt = "backward" /\ setup.rule \in Resumable
  /\ disk' = [value |-> value, sd |-> IF Adaptive THEN AdamState ELSE SgdState,
              meta |-> IF Adaptive THEN AdamMeta ELSE SgdMeta, history |-> history]
  /\ UNCHANGED <<setup, trainAt, value, slot, opt, count, scaler, history, torn>>

(* The process dies; the caller builds it anew and loads what there is.  No *)
(* scheduler and no scaler can be saved.                                    *)
Crash ==
  /\ trainAt' = "backward" /\ slot' = NoSlots
  /\ value' = disk.value /\ history' = disk.history
  /\ opt' = IF disk = NoCheckpoint THEN Fresh
            ELSE IF Adaptive THEN AdamMetaLoaded([Fresh EXCEPT !.bufs = AdamLoaded(disk.sd)], disk.meta)
            ELSE SgdMetaLoaded([Fresh EXCEPT !.bufs = SgdLoaded(disk.sd)], disk.meta)
  /\ count' = 0 /\ scaler' = FreshScaler(setup) /\ torn' = {}
  /\ UNCHANGED <<setup, disk>>

TrainNext ==
  \/ Backward \/ ScalerStep \/ Clip \/ OptimizerStep \/ SchedulerStep \/ ZeroAndUpdate
  \/ Save \/ Crash

TrainSpec == TrainInit /\ [][TrainNext]_trainVars

(* --------------------------- the definition ---------------------------- *)

(* What the papers' recurrences give, in setup s, for the iterations of h,  *)
(* with no optimizer, crash or scaler in sight: the j-th gradient of        *)
(* parameter i comes at iteration Reached(h, i)[j], at the t-th step that   *)
(* was not skipped.                                                         *)
Completed == IF trainAt \in {"backward", "schedule", "zero"} THEN history ELSE Front(history)
Clean(h) == {k \in 1 .. Len(h) : h[k].ok}
UpTo(S, k) == Cardinality({l \in S : l <= k})
Occasion(h, k) == UpTo(Clean(h), k)
Hits(h, i) == {k \in Clean(h) : h[k].grads[i] # 0}
Ranked(S, j) == {k \in S : UpTo(S, k) = j}
Reached(h, i) == [j \in 1 .. Cardinality(Hits(h, i)) |-> CHOOSE k \in Ranked(Hits(h, i), j) : TRUE]

SumOfSquares(grads, S) == SumFunctionOnSet([i \in S |-> grads[i] * grads[i]], S)
Norm(s, grads, i) == SumOfSquares(grads, IF s.clip = "each" THEN {i} ELSE Param)
Clipped(s, grads, i) ==
  <<grads[i], 0, IF s.clip # "no" /\ Norm(s, grads, i) > MaxNormSquared THEN Norm(s, grads, i) ELSE 0>>

(* The rate of the t-th step: the scheduler has been called t - 1 times.    *)
Drops(t) == Cardinality({n \in 1 .. t - 1 : n % StepSize = 0})
Rate(s, t) ==
  CASE t = 1 \/ s.schedule = "none" -> <<"base", 0>>
    [] t > 1 /\ s.schedule = "StepLR" -> <<"gamma", Drops(t)>>
    [] t > 1 /\ s.schedule = "ExponentialLR" -> <<"gamma", t - 1>>
    [] t > 1 /\ s.schedule = "CosineAnnealingLR" -> <<"cos", IF t > StepSize THEN StepSize ELSE t - 1>>
    [] t > 1 /\ s.schedule = "LinearWarmup" -> IF t > StepSize THEN <<"base", 0>> ELSE <<"ramp", t - 1>>

(* The gradients of parameter i up to its j-th, and these as the formulas   *)
(* fold them in, with the values x that they decay.                         *)
Received(s, h, i, j) == [l \in 1 .. j |-> <<Clipped(s, h[Reached(h, i)[l]].grads, i)>>]
Folded(s, h, i, x, j) ==
  [l \in 1 .. j |-> IF s.decay /\ s.rule \notin {"adamw", "lion"}
                    THEN Append(Received(s, h, i, j)[l], x[l - 1]) ELSE Received(s, h, i, j)[l]]

(* The t-th step, the parameter at p: g is its last gradient, all are the   *)
(* ones folded in, eff the last of these.                                   *)
Formula(s, i, t, p, g, plain, eff, all) ==
  LET shrink == IF s.decay THEN <<p>> ELSE <<>>
      rate == Rate(s, t)
  IN  CASE s.rule = "sgd" -> <<rate, eff>>
        [] s.rule = "momentum" -> <<rate, all>>
        [] s.rule = "nesterov" -> <<rate, eff, all>>
        [] s.rule \in {"adam", "adamax"} -> <<rate, all, all, t>>
        [] s.rule = "adamw" -> <<rate, all, all, t>> \o shrink
        [] s.rule = "nadam" -> <<rate, all, eff, all, t>>
        [] s.rule = "radam" -> <<rate, all, t>> \o (IF t >= RectifiedFrom THEN <<all>> ELSE <<>>)
        [] s.rule \in {"adagrad", "rmsprop"} -> <<rate, eff, all>>
        [] s.rule = "lion" -> <<rate, Front(plain), g>> \o shrink
        [] s.rule = "adafactor" -> <<rate, eff>> \o (IF i = 1 THEN <<plain, plain>> ELSE <<plain>>)

Update(s, h, i, x, j) ==
  LET plain == Received(s, h, i, j)
      all == Folded(s, h, i, x, j)
  IN  Formula(s, i, Occasion(h, Reached(h, i)[j]), x[j - 1], plain[j][1], plain, all[j], all)

(* x_j = x_(j-1) updated by the gradients up to j, at the rate of its step. *)
Defined(s, h, i) ==
  LET x[j \in 0 .. Len(Reached(h, i))] ==
        IF j = 0 THEN <<>> ELSE Append(x[j - 1], Update(s, h, i, x, j))
  IN  x[Len(Reached(h, i))]

(* A resumed scheduler starts again from step 0: there is no way to restore *)
(* it, and the rates after it are not the schedule's.                       *)
Restarted == setup.schedule # "none" /\ disk # NoCheckpoint

(* However gradients are missing or overflow, whatever the loss scale does  *)
(* meanwhile, and wherever the process crashed and resumed, each parameter  *)
(* has the value that its optimizer's recurrence gives for the gradients it *)
(* received: no moment is lost or taken from another parameter, and no      *)
(* bias-correction step is missed or counted twice.  Excepted are resumed   *)
(* schedules, and moments split between host and device.                    *)
TrainingFollowsItsRule ==
  ~Restarted => \A i \in Param \ torn : value[i] = Defined(setup, Completed, i)
=============================================================================
