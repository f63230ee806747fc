--------------------------- MODULE RoutingKernels ---------------------------
(***************************************************************************)
(* The mixture-of-experts kernels of the Metal backend (kernels.rs).       *)
(* Route i = b * n_used + slot sends token b to expert idx[i]; a token's   *)
(* routes have distinct experts.  The routes are sorted by expert, the     *)
(* experts multiply their tokens, and the results return to their tokens,  *)
(* weighted: whatever the routing, a token must meet each of its experts   *)
(* exactly once.                                                           *)
(***************************************************************************)
EXTENDS TileKernels

CONSTANTS
  RouteShapes,   \* <<B, n_used, n_experts>>, each with all its routings
  Widths,        \* row lengths
  ExpertShapes   \* <<idx, n_used, n_experts, M_max, K, N>>

Sentinel == -1

Routings(B, n_used, E) ==
  {idx \in [Upto(B * n_used) -> Upto(E)] :
     \A i, j \in Upto(B * n_used) : i # j /\ i \div n_used = j \div n_used => idx[i] # idx[j]}

Routes(idx, e) == {i \in DOMAIN idx : idx[i] = e}
Place(idx, i) == Cardinality({j \in Routes(idx, idx[i]) : j < i})  \* among its expert's routes
Padded(idx, e) == 8 * CeilDiv(Cardinality(Routes(idx, e)), 8)
Start(idx, e) ==                                                   \* of the expert's padded rows
  LET below[x \in 0 .. e] == IF x = 0 THEN 0 ELSE below[x - 1] + Padded(idx, x - 1) IN below[e]
Packed(idx, i) == Start(idx, idx[i]) + Place(idx, i)               \* the route's row
TotalRows(idx, E) == Start(idx, E)

(* The logits of the fused router: eight simdgroups, ceil(N / 8) logits     *)
(* each, 32 strided lanes a logit.                                          *)
routing_logits(K_dim, N) ==
  LET n_per_sg == (N + 7) \div 8
      mine == {p \in Upto(8) \X Upto(n_per_sg) : p[1] * n_per_sg + p[2] < N}
  IN  Kernel(N \in 1 .. 256 /\ K_dim > 0,
        <<Part({<<n, n * K_dim + k>> : n \in Upto(N), k \in Upto(K_dim)},
               {<<p[1] * n_per_sg + p[2], (p[1] * n_per_sg + p[2]) * K_dim + l[2], p[1], l[1]>>
                  : p \in mine, l \in Strided(32, K_dim)})>>,
        <<Array({<<0, p[1] * n_per_sg + p[2], p[1]>> : p \in mine},
                {<<1, lid, lid \div 32>> : lid \in Upto(N)})>>)

(* -------------------------- sorting the routes -------------------------- *)

(* The scan of an expert's thread: the routes seen before route i.          *)
Scanned(idx, e) ==
  LET count[i \in 0 .. Cardinality(DOMAIN idx)] ==
        IF i = 0 THEN 0 ELSE count[i - 1] + (IF idx[i - 1] = e THEN 1 ELSE 0)
  IN  count

mul_mm_id_map0(idx, n_used, E, max_per_expert) ==
  LET routes == DOMAIN idx
      B == Cardinality(routes) \div n_used
      experts == {x \in Upto(32 * CeilDiv(E, 32)) : x < E}
      count == [x \in experts |-> Scanned(idx, x)]
      hits == {p \in experts \X routes : idx[p[2]] = p[1] /\ count[p[1]][p[2]] < max_per_expert}
  IN  Kernel(E \in 1 .. 1024 /\ B > 0 /\ max_per_expert > 0,
        <<Part({<<idx[i], i>> : i \in routes}, {<<h[1], h[2], h[1], 0>> : h \in hits}),          \* tpe
          Part({<<idx[i] * max_per_expert + Place(idx, i), i>> : i \in routes},
               {<<h[1] * max_per_expert + count[h[1]][h[2]], h[2], h[1], 0>> : h \in hits}),     \* ids
          Part({<<i, Place(idx, i)>> : i \in routes},
               {<<h[2], count[h[1]][h[2]], h[1], 0>> : h \in hits})>>,                           \* pos
        <<>>)

(* Expert-major rows, each expert's padded to a multiple of eight: the      *)
(* padding and the rows after the last expert hold the sentinel.            *)
build_em_perm_f32(idx, n_used, E, max_padded) ==
  LET routes == DOMAIN idx
      threads == Upto(32 * CeilDiv(E, 32))
      experts == {x \in threads : x < E}
      count == [x \in experts |-> Scanned(idx, x)[Cardinality(routes)]]
      padded == [x \in experts |-> ((count[x] + 7) \div 8) * 8]
      acc[x \in 0 .. E] == IF x = 0 THEN 0 ELSE acc[x - 1] + padded[x - 1]  \* thread 0
      live == {x \in experts : acc[x] + padded[x] <= max_padded}
      routed == {<<x, i, acc[x] + Scanned(idx, x)[i]>> : x \in live, i \in routes}
      written == {r \in routed : idx[r[2]] = r[1]}
      padding == UNION {{<<x, acc[x] + i>> : i \in count[x] .. padded[x] - 1} : x \in live}
      tail == acc[E] .. max_padded - 1
      Rows(Value(_)) ==
        {<<r[3], Value(r[2]), r[1], 0>> : r \in written}
        \cup {<<p[2], Sentinel, p[1], 0>> : p \in padding} \cup {<<i, Sentinel, 0, 0>> : i \in tail}
      Expected(Value(_)) ==
        LET at == [i \in routes |-> Packed(idx, i)]
            used == {at[i] : i \in routes}
        IN  {<<at[i], Value(i)>> : i \in routes}
            \cup {<<r, Sentinel>> : r \in Upto(max_padded) \ used}
      Route(i) == i
      Token(i) == i \div n_used
  IN  Kernel(/\ E \in 1 .. 1024 /\ routes # {}
             /\ max_padded >= Cardinality(routes) + 7 * E,
        <<Part(Expected(Route), Rows(Route)),                                            \* src_indices
          Part(Expected(Token), Rows(Token)),                                            \* gather_src
          Part({<<r \div 8, IF \E e \in Upto(E) : r \in Start(idx, e) .. Start(idx, e) + Padded(idx, e) - 1
                            THEN CHOOSE e \in Upto(E) : r \in Start(idx, e) .. Start(idx, e) + Padded(idx, e) - 1
                            ELSE 0>> : r \in Upto((max_padded \div 8) * 8)},
               UNION {{<<(acc[x] \div 8) + t, x, x, 0>> : t \in Upto(padded[x] \div 8)} : x \in live}
               \cup {<<t, 0, 0, 0>> : t \in (acc[E] \div 8) .. (max_padded \div 8) - 1})>>,  \* tile_expert_ids
        <<Array({<<0, t, t>> : t \in threads} \cup {<<1, e, 0>> : e \in experts},
                {<<1, e, 0>> : e \in experts} \cup {<<2, e, e>> : e \in experts})>>)

(* ------------------- moving rows by the permutation --------------------- *)

SrcIndices(idx, E, max_padded) ==
  [r \in Upto(max_padded) |->
     IF \E i \in DOMAIN idx : Packed(idx, i) = r THEN CHOOSE i \in DOMAIN idx : Packed(idx, i) = r
     ELSE Sentinel]

(* The rows of the padded layout that hold a route, one thread an element.  *)
RowThreads(src, width) == {r \in DOMAIN src : src[r] # Sentinel} \X Upto(width)

(* x_packed[row] is the activation of the row's token, or zeros.            *)
gather_pack_rows_f32(idx, n_used, E, max_padded, K) ==
  LET src == SrcIndices(idx, E, max_padded)
      gather_src == [r \in DOMAIN src |-> IF src[r] = Sentinel THEN Sentinel ELSE src[r] \div n_used]
      routes == {<<Packed(idx, i), i \div n_used>> : i \in DOMAIN idx}
      empty == Upto(max_padded) \ {p[1] : p \in routes}
  IN  Simple(K > 0 /\ max_padded > 0,
        {<<p[1] * K + k, p[2] * K + k>> : p \in routes, k \in Upto(K)}
          \cup {<<r * K + k, Sentinel>> : r \in empty, k \in Upto(K)},
        {<<t[2] * K + t[1], IF gather_src[t[2]] = Sentinel THEN Sentinel ELSE gather_src[t[2]] * K + t[1], t, 0>>
           : t \in Upto(K) \X Upto(max_padded)})

(* dst[route] is its row.                                                   *)
unpermute_rows_f32(idx, E, max_padded, D) ==
  LET src == SrcIndices(idx, E, max_padded)
  IN  Simple(D > 0 /\ max_padded > 0,
        {<<i * D + d, Packed(idx, i) * D + d>> : i \in DOMAIN idx, d \in Upto(D)},
        {<<src[t[1]] * D + t[2], t[1] * D + t[2], t, 0>> : t \in RowThreads(src, D)})

(* moe_acc[token] += topw[route] * row: the n_used routes of a token add    *)
(* atomically, so that the cell has one writer (-1), the atomic unit.       *)
weighted_scatter_add_f32(idx, n_used, E, max_padded, D) ==
  LET src == SrcIndices(idx, E, max_padded)
  IN  Simple(D > 0 /\ max_padded > 0 /\ n_used > 0,
        {<<(i \div n_used) * D + d, <<i, Packed(idx, i) * D + d>>>> : i \in DOMAIN idx, d \in Upto(D)},
        {<<(src[t[1]] \div n_used) * D + t[2], <<src[t[1]], t[1] * D + t[2]>>, -1, 0>> : t \in RowThreads(src, D)})

(* With mul_mm_id_map0's tables: a threadgroup a token, no atomics.         *)
scatter_moe_acc_f32(idx, n_used, M_max, K) ==
  LET pos == [i \in DOMAIN idx |-> Place(idx, i)]
      B == Cardinality(DOMAIN idx) \div n_used
  IN  Simple(B > 0 /\ n_used > 0 /\ M_max > 0 /\ K > 0,
        {<<(i \div n_used) * K + k, <<i, (idx[i] * M_max + Place(idx, i)) * K + k>>>>
           : i \in DOMAIN idx, k \in Upto(K)},
        {<<b * K + p[2], <<b * n_used + s, idx[b * n_used + s] * M_max * K + pos[b * n_used + s] * K + p[2]>>, p[1], s>>
           : b \in Upto(B), s \in Upto(n_used), p \in Strided(256, K)})

(* ------------------ the experts' matrices, mul_mm_id -------------------- *)

(* Tile t = <<row tile, column tile, expert>>; tiles past the expert's      *)
(* routes return at once, rows past them load zeros.                        *)
ExpertTiles(idx, E, M_max, N) ==
  {t \in Quotients(M_max, 32) \X Quotients(N, 64) \X Upto(E) : 32 * t[1] < Cardinality(Routes(idx, t[3]))}

mul_mm_id(idx, n_used, E, M_max, K, N, Weight(_, _, _), Decode(_, _, _, _)) ==
  LET tpe == [e \in Upto(E) |-> Scanned(idx, e)[Cardinality(DOMAIN idx)]]
      ids == [p \in {<<idx[i], Place(idx, i)>> : i \in DOMAIN idx} |->
                CHOOSE i \in DOMAIN idx : <<idx[i], Place(idx, i)>> = p]
      Act(t, r) ==
        LET here == {i \in Routes(idx, t[3]) : Place(idx, i) = 32 * t[1] + r}
        IN  IF here = {} THEN -1 ELSE (CHOOSE i \in here : TRUE) \div n_used
      act == [t \in ExpertTiles(idx, E, M_max, N) |-> [r \in Upto(32) |-> Act(t, r)]]
      Expected(t, r) == act[t][r]
      act_row(t, r) ==
        LET m_global == 32 * t[1] + r
        IN  IF m_global < tpe[t[3]] THEN ids[<<t[3], m_global>>] \div n_used ELSE -1
      Out(t, row, col) == t[3] * M_max * N + (32 * t[1] + row) * N + 64 * t[2] + col
  IN  BlockMMA(/\ E > 0 /\ n_used > 0
               /\ Divides(M_max, K, N, 32, 64, 256),
               ExpertTiles(idx, E, M_max, N), K, Weight, Decode, Expected, act_row, Out)

mul_mm_id_q4_k_f32(idx, n_used, E, M_max, K, N) ==
  LET stride == RowBytes(K, 256, 144)
      Weight(t, n, k) == Q4_K((t[3] * N + n) * stride, k)
      Decode(t, n, k0, l) == StripQ4_K(t[3] * N * stride + n * stride, k0, l)
  IN  mul_mm_id(idx, n_used, E, M_max, K, N, Weight, Decode)

mul_mm_id_q5_k_f32(idx, n_used, E, M_max, K, N) ==
  LET stride == RowBytes(K, 256, 176)
      Weight(t, n, k) == Q5_K((t[3] * N + n) * stride, k)
      Decode(t, n, k0, l) == StripQ5_K(t[3] * N * stride + n * stride, k0, l)
  IN  mul_mm_id(idx, n_used, E, M_max, K, N, Weight, Decode)

(* Gate and up against the same strip of activations; each simdgroup passes *)
(* its fragments through a scratch of its own, eight in turn, a lane two    *)
(* elements.                                                                *)
mul_mm_id_q4_k_q4_k_swiglu_f32(idx, n_used, E, M_max, K, N) ==
  LET gate == mul_mm_id_q4_k_f32(idx, n_used, E, M_max, K, N)
      up == gate
      turns == Upto(4) \X Upto(8)
      scratch == {<<<<s, 8 * (lane \div 4) + 2 * (lane % 4) + d>>,
                    <<lane \div 4, 2 * (lane % 4) + d>>, <<s, lane>>, 0>>
                    : s \in turns, lane \in Lanes, d \in Upto(2)}
  IN  IF ~gate.ok THEN gate
      ELSE Kernel(TRUE,
             gate.parts \o SubSeq(up.parts, 1, 1) \o SubSeq(up.parts, 3, 3)
             \o <<Part({<<<<s, 8 * r + c>>, <<r, c>>>> : s \in turns, r \in Upto(8), c \in Upto(8)}, scratch)>>,
             gate.shared \o SubSeq(up.shared, 2, 2)
             \o <<Array({<<2 * s[2], 64 * s[1] + c, s[1]>> : s \in turns, c \in Upto(64)},
                        {<<2 * d[1][1][2] + 1, 64 * d[1][1][1] + d[1][2], d[3]>> : d \in scratch})>>)

(* -------------------- back into the residual stream --------------------- *)

(* xd += moe_acc + sigmoid(gate . h) * shared_out.  The dot product: 128    *)
(* strided threads, four simdgroup sums; two barriers before all read it.   *)
Dot128(tokens, d) ==
  Part({<<b, b * d + i>> : b \in tokens, i \in Upto(d)},
       {<<b, b * d + p[2], b, p[1]>> : b \in tokens, p \in Strided(128, d)})
FourSums(slot) ==
  Array({<<0, sg, sg>> : sg \in Upto(4)} \cup {<<1, slot, 0>>},
        {<<1, sg, 0>> : sg \in Upto(4)} \cup {<<2, slot, sg>> : sg \in Upto(4)})
AddShared(tokens, d) ==
  Part({<<b * d + i, <<b * d + i, b>>>> : b \in tokens, i \in Upto(d)},
       {<<b * d + p[2], <<b * d + p[2], b>>, p[1], 0>> : b \in tokens, p \in Strided(128, d)})

sigmoid_add_moe_f32(d) ==
  Simple(d > 0, {<<i, <<i, 0>>>> : i \in Upto(d)}, {<<gid, <<gid, 0>>, gid, 0>> : gid \in GuardedGrid(d, 64)})
sigmoid_add_moe_dot_fused_f32(d) ==
  Kernel(d > 0, <<Dot128({0}, d), AddShared({0}, d)>>, <<FourSums(4)>>)  \* dot_tg, after s_red[4]
sigmoid_add_moe_batched_f32(d, B) ==
  Kernel(d > 0 /\ B > 0, <<Dot128(Upto(B), d), AddShared(Upto(B), d)>>, <<FourSums(0)>>)

(* acc[t, d] (+)= sum of weights[t, b] * src[t, b, d].                      *)
weighted_reduce_add_batched_f32(B, D, T) ==
  Simple(B > 0 /\ D > 0 /\ T > 0,
    {<<t * D + d, <<t * B + b, (t * B + b) * D + d>>>> : t \in Upto(T), b \in Upto(B), d \in Upto(D)},
    {<<g[2] * D + g[1], <<g[2] * B + b, g[2] * B * D + b * D + g[1]>>, g, b>>
       : g \in Upto(D) \X Upto(T), b \in Upto(B)})
weighted_reduce_add_f32(B, D) == weighted_reduce_add_batched_f32(B, D, 1)
weighted_reduce_store_f32(B, D) == weighted_reduce_add_batched_f32(B, D, 1)

RoutingNext ==
  /\ job = NoJob
  /\ \/ \E s \in RouteShapes : LET B == s[1] n_used == s[2] E == s[3] IN
        \E idx \in Routings(B, n_used, E), extra \in {0, 8} :
          LET rows == B * n_used + 7 * E + extra IN
          \/ Launch("map0", <<idx, extra>>, mul_mm_id_map0(idx, n_used, E, B + extra))
          \/ Launch("em_perm", <<idx, extra>>, build_em_perm_f32(idx, n_used, E, rows))
          \/ Launch("gather_pack", <<idx, extra>>, gather_pack_rows_f32(idx, n_used, E, rows, 2))
          \/ Launch("unpermute", <<idx, extra>>, unpermute_rows_f32(idx, E, rows, 2))
          \/ Launch("scatter_add", <<idx, extra>>, weighted_scatter_add_f32(idx, n_used, E, rows, 2))
          \/ Launch("scatter_acc", <<idx, extra>>, scatter_moe_acc_f32(idx, n_used, B + extra, 2))
     \/ \E s \in ExpertShapes :
          \/ Launch("mm_id_q4_k", s, mul_mm_id_q4_k_f32(s[1], s[2], s[3], s[4], s[5], s[6]))
          \/ Launch("mm_id_q5_k", s, mul_mm_id_q5_k_f32(s[1], s[2], s[3], s[4], s[5], s[6]))
          \/ Launch("mm_id_swiglu", s, mul_mm_id_q4_k_q4_k_swiglu_f32(s[1], s[2], s[3], s[4], s[5], s[6]))
     \/ \E d \in Widths :
          \/ Launch("sigmoid_add", d, sigmoid_add_moe_f32(d))
          \/ Launch("sigmoid_add_fused", d, sigmoid_add_moe_dot_fused_f32(d))
          \/ Launch("sigmoid_add_batched", d, sigmoid_add_moe_batched_f32(d, 2))
          \/ Launch("routing_logits", d, routing_logits(d, 20))
          \/ Launch("reduce_add_batched", d, weighted_reduce_add_batched_f32(3, d, 2))
          \/ Launch("reduce_add", d, weighted_reduce_add_f32(3, d))
          \/ Launch("reduce_store", d, weighted_reduce_store_f32(3, d))
=============================================================================
