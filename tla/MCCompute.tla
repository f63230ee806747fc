----------------------------- MODULE MCCompute -----------------------------
(* The instances of the tensor library, of device memory and of the GPU     *)
(* kernels that TLC checks.  The units share no state, so each behaviour    *)
(* exercises one of them.                                                   *)
EXTENDS CachingAllocator, BufferPool, StagingRing, Autograd, TopK,
        ElementKernels, GemvKernels, DecodeKernels, RoutingKernels,
        CudaLlmKernels, LlmHost, DataLoading

VARIABLE unit  \* the component that this behaviour exercises

computeVars == <<unit, vars, poolVars, ringVars, agVars, tkVars, job>>

StreamSymmetry == Permutations(Stream)

(* A byte cap that two buffers exceed, and a tight bucket cap.              *)
Roomy == [max_bytes |-> 2, max_per_bucket |-> 2]
Tight == [max_bytes |-> 2, max_per_bucket |-> 1]
Policies == {Roomy, Tight}

XandW == <<[data |-> 2, req |-> TRUE], [data |-> 3, req |-> TRUE]>>

(* Shapes on both sides of every tile, vector width, threadgroup and split. *)
LengthSet == {1, 255, 256, 257, 513}
MatrixSet == {<<3, 40>>, <<33, 17>>, <<16, 16>>}
GemmSet == {<<16, 16, 256>>, <<16, 8, 512>>, <<32, 8, 256>>, <<8, 16, 64>>, <<24, 8, 256>>, <<8, 12, 8>>}
GemvSet == {<<1, 1>>, <<65, 70>>, <<129, 5>>}
TileSet == {<<8, 512, 8>>, <<16, 256, 16>>, <<16, 256, 128>>, <<8, 32, 64>>}
BlockSet == {<<64, 256, 128>>, <<128, 256, 64>>, <<32, 256, 64>>}
RowSet == {<<256, 1>>, <<512, 8>>, <<1280, 3>>, <<2304, 1>>, <<8448, 1>>}
BatchSet == {<<512, 8, 2>>, <<256, 3, 3>>}
TripleSet == {<<256, 3, 2, 2>>, <<2304, 1, 1, 1>>}
NormSet == {<<1, 1>>, <<3, 7>>, <<2, 130>>}
HeadSet == {<<2, 8, 4, 3, 2>>, <<3, 66, 66, 0, 2>>, <<2, 128, 64, 5, 1>>, <<2, 8, 3, 3, 2>>}
CacheSet == {<<2, 4, 1, 3, 2>>, <<3, 8, 0, 2, 1>>, <<2, 6, 1, 2, 2>>, <<2, 4, 2, 2, 1>>}
AttnSet == {<<4, 2, 8, 1, 2>>, <<3, 2, 4, 2, 2>>, <<4, 2, 6, 70, 71>>, <<2, 1, 4, 1025, 1025>>, <<2, 2, 64, 5, 6>>, <<1, 1, 4, 2049, 2050>>}
BatchAttnSet == {<<4, 2, 4, 2, 6, 3>>, <<2, 1, 4, 31, 40, 2>>}
ConvSet == {<<1, 3, 2>>, <<2, 3, 3>>, <<4, 66, 3>>, <<9, 2, 1>>}
DeltaSet == {<<4, 32, 2, 2>>, <<2, 6, 2, 1>>, <<1, 128, 1, 1>>, <<1, 160, 1, 1>>, <<3, 4, 2, 1>>}
RouteSet == {<<1, 1, 1>>, <<3, 2, 3>>, <<2, 1, 2>>}
WidthSet == {1, 130}
SkewedRouting == [i \in 0 .. 67 |-> IF i % 2 = 0 THEN 1 ELSE IF i < 40 THEN 0 ELSE 2]
ExpertSet == {<<SkewedRouting, 2, 4, 64, 256, 64>>}
GateSet == {<<1, 1>>, <<33, 2>>}
SplitSet == {<<3, 5, 2>>, <<1, 1, 1>>, <<64, 2, 1>>}
VocabSet == {<<1, 1>>, <<2, 300>>}

(* Grids of one workgroup, of a full row of them and of two rows and a bit; *)
(* broadcasts in each direction, scalars, empty tensors and refused ones.   *)
GridLengthSet == {0, 1, 64, 193, 257, 449}
BroadcastSet ==
  {<<<<3, 1, 2>>, <<4, 1>>>>, <<<<2>>, <<5, 3, 2>>>>, <<<<>>, <<3>>>>, <<<<1, 0>>, <<3, 1>>>>,
   <<<<7, 10>>, <<7, 10>>>>, <<<<2, 3>>, <<3, 2>>>>, <<<<1, 1, 1, 1, 1, 1, 1, 1, 1>>, <<1>>>>}
WgpuRowSet == {<<1, 1>>, <<3, 7>>, <<2, 300>>, <<17, 16>>}
ArgRowSet ==
  {[i \in 0 .. 0 |-> 4], [i \in 0 .. 6 |-> i % 3], [i \in 0 .. 299 |-> IF i \in {44, 256, 299} THEN 9 ELSE 1],
   [i \in 0 .. 299 |-> IF i = 256 THEN -2 ELSE 0 - (i % 2)], [i \in 0 .. 3 |-> -100]}
MatmulSet == {<<1, 1, 1>>, <<17, 20, 3>>, <<16, 16, 16>>}
ConvolutionSet ==
  {Conv(2, 2, 4, 3, 2, 3, 2, <<1, 1>>, <<1, 0>>, <<1, 1>>, 1), Conv(1, 1, 5, 6, 3, 2, 3, <<2, 1>>, <<0, 1>>, <<2, 2>>, 1),
   Conv(2, 4, 3, 3, 2, 2, 2, <<1, 2>>, <<0, 0>>, <<1, 1>>, 2), Conv(1, 3, 2, 2, 3, 1, 1, <<1, 1>>, <<0, 0>>, <<1, 1>>, 3),
   Conv(1, 3, 2, 2, 4, 1, 1, <<1, 1>>, <<0, 0>>, <<1, 1>>, 2), Conv(1, 1, 2, 3, 2, 3, 2, <<1, 1>>, <<0, 0>>, <<1, 1>>, 1)}
CudaNormSet == {<<2, 3>>, <<1, 300>>}
CudaHeadSet == {<<2, 6, 1, 3>>, <<2, 132, 2, 3>>, <<1, 1, 0, 3>>, <<2, 4, 3, 3>>}
CudaTextSet == {<<<<2, 0, 2>>, 3>>, <<<<1>>, 257>>}
CudaAttnSet == {<<4, 2, 8, 3, 4>>, <<3, 3, 2, 1, 1>>, <<4, 2, 6, 2, 3>>, <<2, 1, 256, 2, 2>>, <<3, 2, 4, 1, 1>>}
Fp4Set == {<<>>, <<5>>, [i \in 1 .. 17 |-> 2 * i - 17], [i \in 1 .. 40 |-> IF i < 17 THEN 0 ELSE ((i * 37) % 97) - 48],
           <<-2000, 1999, 500, 83, 84, 0>>}
AttentionSet == {<<1, 1, 1>>, <<3, 6, 2>>, <<5, 18, 3>>, <<2, 257, 2>>, <<2, 256, 0>>}

(* Query and key tiles with tails, rows whose maximum moves from tile to    *)
(* tile, padding that masks a whole tile after the first, a row with no key.*)
Flash(b, h, n, d, br, bc, mask) ==
  [batch |-> b, heads |-> h, seq |-> n, dim |-> d, br |-> br, bc |-> bc, mask |-> mask,
   rank |-> [p \in Upto(n) \X Upto(n) |-> ((p[1] * 2) + (p[2] * 3) + b + n) % 5]]
Unmasked == [kind |-> "none"]
Causal == [kind |-> "causal"]
Padding(keep) == [kind |-> "padding", keep |-> keep]
FlashSet ==
  {Flash(2, 2, 5, 2, 2, 3, Unmasked), Flash(1, 2, 6, 1, 4, 2, Causal), Flash(1, 1, 0, 2, 2, 2, Causal),
   Flash(1, 1, 5, 2, 2, 2, Padding(<<TRUE, TRUE, FALSE, FALSE, TRUE>>)), Flash(1, 1, 3, 1, 2, 2, Padding(<<TRUE>>)),
   Flash(1, 1, 4, 1, 8, 8, Padding(<<FALSE, FALSE, FALSE, FALSE>>))}
GroupedSet ==
  {<<2, 4, 2, 3, 3, 2>>, <<1, 6, 2, 1, 4, 2>>, <<2, 2, 1, 2, 5, 1>>, <<1, 3, 2, 1, 1, 1>>, <<1, 1, 0, 1, 1, 1>>,
   <<1, 1, 1, 66, 66, 1>>}
RopeSet == {<<2, 2, 3, 4, 2, 5>>, <<1, 1, 2, 6, 4, 5>>, <<1, 1, 1, 3, 0, 4>>}
KvSet == {<<2, 2, 6, 2, <<3, 1, 1>>>>, <<1, 2, 4, 2, <<2, 1, 3, 1>>>>, <<1, 1, 3, 1, <<3, -1, 2, 1, 1>>>>}
ScoreRowSet == {<<<<1, 3, 2, 3>>, 2>>, <<<<2, NegInf, 5, 1>>, 0>>, <<<<4, NegInf, 1, 9, 9>>, 3>>}
LlamaSet == {<<4, 2, 3, 5>>, <<2, 2, 1, 3>>}
Hybrid(d, hd, q, kv, k, v, st, ker, f, e) ==
  [d |-> d, head_dim |-> hd, n_q |-> q, n_kv |-> kv, n_k |-> k, n_v |-> v, state |-> st, kernel |-> ker, f |-> f,
   experts |-> e]
HybridSet ==
  {Hybrid(4, 2, 4, 2, 1, 2, 2, 4, 3, 3), Hybrid(3, 2, 2, 2, 2, 2, 3, 2, 2, 0), Hybrid(2, 1, 3, 2, 2, 3, 1, 1, 2, 0)}
HostRowSet == {<<2, 6, 4>>, <<3, 2, 2>>, <<1, 2, 4>>}
TiedLogits == [i \in 0 .. 4 |-> <<0, 4, -2, 4, 2>>[i + 1]]
Draw(pen, inv, k, p, recent) ==
  [logits |-> TiedLogits, penalty |-> pen, inv_t |-> inv, top_k |-> k, top_p |-> p, recent |-> recent]
DrawSet ==
  {Draw(1, 0, 0, NoNucleus, <<>>), Draw(1, 1, 2, NoNucleus, <<>>), Draw(1, 1, 0, <<9, 10>>, <<>>),
   Draw(2, 1, 3, <<1, 2>>, <<1, 1, 9, 2>>), Draw(1, 2, 1, <<1, 2>>, <<>>), Draw(2, 2, 0, NoNucleus, <<3>>)}

(* Ranks of unequal shares, short last batches, items past the end.         *)
Loader(n, world, batch, drop, len) ==
  [order |-> [i \in Upto(n) |-> ((i * 3) + 1) % n], world |-> world, batch |-> batch, drop_last |-> drop, len |-> len]
LoaderSet ==
  {Loader(n, world, batch, drop, len) : n \in {7, 8}, world \in {1, 3}, batch \in {1, 2, 3}, drop \in BOOLEAN, len \in {6, 8}}
  \cup {Loader(0, 2, 2, FALSE, 0)}
WeightSet == {<<1, 0, 3>>, <<0, 2>>, <<4>>, <<0>>}

ComputeInit ==
  /\ unit \in {"cuda", "pool", "ring", "autograd", "topk", "gpu"}
  /\ Init /\ PoolInit /\ RingInit /\ AgInit /\ GpuInit /\ TkInit
  /\ unit # "topk" => tkVariant = "serial" /\ tkLogits = [i \in Experts |-> 0]

GpuNext ==
  \/ ElementNext \/ MatmulNext \/ TileNext \/ GemvNext \/ DecodeNext
  \/ SsmNext \/ RoutingNext \/ GlueNext \/ WgpuElementNext \/ WgpuMatmulNext
  \/ CudaLlmNext \/ CpuAttentionNext \/ LlmHostNext \/ DataNext \/ Retire

ComputeNext ==
  \/ unit = "cuda" /\ Next /\ UNCHANGED <<unit, poolVars, ringVars, agVars, tkVars, job>>
  \/ unit = "pool" /\ PoolNext /\ UNCHANGED <<unit, vars, ringVars, agVars, tkVars, job>>
  \/ unit = "ring" /\ RingNext /\ UNCHANGED <<unit, vars, poolVars, agVars, tkVars, job>>
  \/ unit = "autograd" /\ AgNext /\ UNCHANGED <<unit, vars, poolVars, ringVars, tkVars, job>>
  \/ unit = "topk" /\ TkNext /\ UNCHANGED <<unit, vars, poolVars, ringVars, agVars, job>>
  \/ unit = "gpu" /\ GpuNext /\ UNCHANGED <<unit, vars, poolVars, ringVars, agVars, tkVars>>

ComputeSpec == ComputeInit /\ [][ComputeNext]_computeVars
=============================================================================
