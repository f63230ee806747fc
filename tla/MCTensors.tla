----------------------------- MODULE MCTensors -----------------------------
(* The instances of the tensor core, of the CPU kernels with their          *)
(* gradients, of training, the memory planner and the inference loops that TLC     *)
(* checks.  They share no state, so each behaviour exercises one of them.   *)
EXTENDS MemoryPlanner, Tensors, GradOps, MCInference, Training

VARIABLE part  \* the component that this behaviour exercises

libraryVars == <<part, vars, tensorVars, call, inferenceVars, trainVars>>

(* A small tensor, and an odd-sized one that needs aligned storage.         *)
SmallAndAligned == {[bytes |-> 3, align |-> 1], [bytes |-> 1, align |-> 2]}

NewShapes == {<<2, 3>>, <<3>>}

(* Shapes that broadcast with each other, along leading and inner axes.     *)
ShapeSet == {<<2, 3>>, <<3>>, <<2, 1, 3>>}

(* Products below and above GemmMin, and images of several channels.        *)
GemmSet == {<<1, 2, 3>>, <<2, 2, 2>>, <<3, 2, 2>>}
ImageSet == {<<1, 2, 2, 3>>, <<2, 1, 3, 2>>}
KernelSet == {<<2, 2>>, <<3, 2>>}

(* Singular, and in need of row exchanges.                                  *)
MatrixSet == {<<<<3, 1>>, <<4, 2>>>>, <<<<3, 6>>, <<4, 8>>>>,
              <<<<0, 2, 1>>, <<1, 0, 3>>, <<2, 1, 1>>>>, <<<<1, 2, 3>>, <<3, 1, 2>>, <<2, 2, 1>>>>}

(* Every optimizer, with and without decay, schedules, both clippings,      *)
(* loss scales at the ends of their range, moments on host and device.      *)
With(rule, decay, device, schedule, clip, scale) ==
  [rule |-> rule, decay |-> decay, device |-> device, schedule |-> schedule, clip |-> clip, scale |-> scale]
Vanilla == With("sgd", FALSE, "cpu", "none", "no", 0)
SetupSet ==
  {Vanilla, With("momentum", TRUE, "cpu", "none", "global", 23), With("nesterov", FALSE, "cpu", "StepLR", "no", 1),
   With("adam", TRUE, "cpu", "none", "each", 24), With("adam", FALSE, "metal", "ExponentialLR", "global", 0),
   With("adamw", TRUE, "metal", "none", "no", 0),
   With("adamw", FALSE, "wgpu", "none", "global", 0), With("adamw", TRUE, "cpu", "CosineAnnealingLR", "no", 2),
   With("nadam", TRUE, "cpu", "none", "no", 0), With("radam", FALSE, "cpu", "LinearWarmup", "no", 0),
   With("adamax", FALSE, "cpu", "none", "each", 0), With("adagrad", TRUE, "cpu", "none", "no", 0),
   With("rmsprop", FALSE, "cpu", "none", "global", 0), With("lion", TRUE, "cpu", "none", "no", 0),
   With("adafactor", TRUE, "cpu", "none", "no", 0)}

LibraryInit ==
  /\ part \in {"planner", "tensors", "kernels", "inference", "training"}
  /\ Init /\ TensorInit /\ CpuInit
  /\ part # "planner" => /\ \A o \in Op : reads[o] = {}
                         /\ \A o, u \in Op : kind[o] = kind[u] /\ kind[o].align = 1
  /\ InferenceInit
  /\ part # "inference" => net = Dense0
  /\ TrainInit
  /\ part # "training" => setup = Vanilla

InferenceStep(A) == part = "inference" /\ A /\ UNCHANGED <<part, vars, tensorVars, call, trainVars>>

LibraryNext ==
  \/ part = "planner" /\ Next /\ UNCHANGED <<part, tensorVars, call, inferenceVars, trainVars>>
  \/ part = "tensors" /\ TensorNext /\ UNCHANGED <<part, vars, call, inferenceVars, trainVars>>
  \/ /\ part = "kernels" /\ (CpuNext \/ NnNext \/ GradNext)
     /\ UNCHANGED <<part, vars, tensorVars, inferenceVars, trainVars>>
  \/ InferenceStep(InferenceNext)
  \/ part = "training" /\ TrainNext /\ UNCHANGED <<part, vars, tensorVars, call, inferenceVars>>

(* The GPU and each thread of an inference process go on.                   *)
LibrarySpec ==
  /\ LibraryInit /\ [][LibraryNext]_libraryVars
  /\ WF_libraryVars(InferenceStep(HostRuns)) /\ WF_libraryVars(InferenceStep(DeviceRuns))
  /\ WF_libraryVars(InferenceStep(WorkerRuns)) /\ WF_libraryVars(InferenceStep(LoopRuns))

(* DecodingEnds: the inference loop delivers its n tokens, or ends its      *)
(* chat: no drain waits for a command that waits for the host, and no wait  *)
(* on the shared event is for a value that nobody signals.                  *)
DecodingEnds == part = "inference" => <>(doing = "done")
=============================================================================
