---------------------------- MODULE CpuAttention ----------------------------
(***************************************************************************)
(* Attention on the CPU: the tiled forward pass, its masks, the online     *)
(* softmax and the backward pass (rustorch-attention), grouped queries,    *)
(* rotary embeddings and the key/value cache (rustorch-nn).  The scores    *)
(* have ranks, which decide the running maxima: a weight is a key with the *)
(* maximum its exponential was taken against, and is right when that is    *)
(* the maximum of the row.                                                 *)
(***************************************************************************)
EXTENDS GpuLaunch

CONSTANTS
  FlashCases,    \* [batch, heads, seq, dim, br, bc, mask, rank]
  GroupedCases,  \* <<batch, n_heads, n_kv_heads, seq_q, seq_kv, head_dim>>
  RopeCases,     \* <<batch, n_heads, seq, head_dim, position_offset, max_seq>>
  CacheCases,    \* <<batch, n_heads, max_seq, head_dim, operations>>
  ScoreRows      \* <<values, how many of them are in the first tile>>

NegInf == -1000
Larger2(a, b) == IF a > b THEN a ELSE b
LeastOf(a, b) == IF a < b THEN a ELSE b
Peak(score, keys) == CHOOSE m \in {NegInf} \cup {score[j] : j \in keys} : \A j \in keys : score[j] <= m

(* The element (b, h, i, d) of a row-major [B, H, N, D] tensor.             *)
BHND(H, N, D, b, h, i, d) == ((((((b * H) + h) * N) + i) * D)) + d

strides(s) == [s_n |-> s.dim, s_h |-> s.seq * s.dim, s_b |-> s.heads * s.seq * s.dim]
buffer_len(s) == s.batch * s.heads * s.seq * s.dim
validate(s, len) == s.dim # 0 /\ len = buffer_len(s)

is_masked(mask, qi, kj) ==
  \/ mask.kind = "causal" /\ kj > qi
  \/ mask.kind = "padding" /\ kj < Len(mask.keep) /\ ~mask.keep[kj + 1]
mask_validate(mask, seq) == mask.kind = "padding" => Len(mask.keep) = seq

Score(s, i, j) == IF is_masked(s.mask, i, j) THEN NegInf ELSE s.rank[<<i, j>>]

(* --------------------------- the online softmax ------------------------- *)

(* exp(x - m) of two minus infinities is not a number, and stays so: the    *)
(* sums are lost once a row has met nothing but masked keys in a tile.      *)
EMPTY == [m |-> NegInf, terms |-> {}, nan |-> FALSE]
Rescale(terms, from, to) == {<<x[1], (x[2] - from) + to>> : x \in terms}

absorb(state, i, x) ==
  IF x > state.m
  THEN [state EXCEPT !.m = x, !.terms = Rescale(@, state.m, x) \cup {<<i, x>>}]
  ELSE [state EXCEPT !.nan = @ \/ state.m = NegInf,
                     !.terms = @ \cup (IF x = NegInf THEN {} ELSE {<<i, state.m>>})]

online_softmax_full(xs, first, last) ==
  LET at[i \in first - 1 .. last] == IF i = first - 1 THEN EMPTY ELSE absorb(at[i - 1], i, xs[i])
  IN  at[last]

is_empty(state) == state.m = NegInf /\ state.terms = {} /\ ~state.nan
combine_tiles(a, b) ==
  IF is_empty(a) THEN b ELSE IF is_empty(b) THEN a
  ELSE LET m == Larger2(a.m, b.m)
       IN  [m |-> m, nan |-> a.nan \/ b.nan, terms |-> Rescale(a.terms, a.m, m) \cup Rescale(b.terms, b.m, m)]

online_softmax(xs, split) ==
  LET got == combine_tiles(online_softmax_full(xs, 1, split), online_softmax_full(xs, split + 1, Len(xs)))
      top == Peak(xs, DOMAIN xs)
  IN  Simple(TRUE,
             {<<"m", top>>, <<"nan", FALSE>>} \cup {<<"l", <<i, top>>>> : i \in {j \in DOMAIN xs : xs[j] # NegInf}},
             {<<"m", got.m, 0, 0>>, <<"nan", got.nan, 0, 0>>} \cup {<<"l", x, 0, 0>> : x \in got.terms})

(* A query row against one key tile: alpha is 0 for a row that has no       *)
(* maximum yet, so that what it holds is dropped.                           *)
TileStep(state, score, keys) ==
  LET m == Larger2(state.m, Peak(score, keys))
  IN  [m |-> m, nan |-> state.nan \/ m = NegInf,
       terms |-> (IF state.m = NegInf THEN {} ELSE Rescale(state.terms, state.m, m))
                   \cup {<<j, m>> : j \in {k \in keys : score[k] # NegInf}}]

KeyTile(seq, bc, t) == t * bc .. LeastOf((t + 1) * bc, seq) - 1
FlashRow(score, seq, bc) ==
  LET at[t \in 0 .. CeilDiv(seq, bc)] ==
        IF t = 0 THEN EMPTY ELSE TileStep(at[t - 1], score, KeyTile(seq, bc, t - 1))
  IN  at[CeilDiv(seq, bc)]

(* ------------------------------ the forward ----------------------------- *)

(* The definition, over the keys and values kv maps the head's offsets to.  *)
RowAnswer(s, i) ==
  LET top == Peak([j \in Upto(s.seq) |-> Score(s, i, j)], Upto(s.seq))
  IN  {<<j, top>> : j \in {k \in Upto(s.seq) : ~is_masked(s.mask, i, k)}}
At4(s, b, h, i, d) == BHND(s.heads, s.seq, s.dim, b, h, i, d)
Points(s) == Upto(s.batch) \X Upto(s.heads) \X Upto(s.seq) \X Upto(s.dim)

ScoresAsked(s, kv) ==
  {<<<<p[1], p[2], p[3], j>>, <<At4(s, p[1], p[2], p[3], p[4]), kv[At4(s, p[1], p[2], j, p[4])]>>>>
     : p \in Points(s), j \in Upto(s.seq)}
OutAsked(s, kv) ==
  UNION {LET cell == At4(s, p[1], p[2], p[3], p[4])
             row == RowAnswer(s, p[3])
         IN  IF row = {} THEN {<<cell, <<"nan">>>>}
             ELSE {<<cell, <<x, kv[At4(s, p[1], p[2], x[1], p[4])]>>>> : x \in row}
         : p \in Points(s)}

(* What a row stores: its weights over their sum, or nan when the sum is    *)
(* not positive and finite.                                                 *)
RowStored(state) == IF state.nan \/ state.terms = {} THEN {<<"nan">>} ELSE state.terms
Out(cell, w, v) == <<cell, IF w = <<"nan">> THEN w ELSE <<w, v>>>>

(* Q K^T of m rows and n keys, and a row of P V: offsets from the start of  *)
(* the tiles, whose leading dimensions are dim for Q, K, V and n for S, P.  *)
sgemm_score_tile(dim, m, n, q0, k0) ==
  {<<(r * n) + c, q0 + (r * dim) + d, k0 + (c * dim) + d, d>> : r \in Upto(m), c \in Upto(n), d \in Upto(dim)}
sgemm_value_accumulate(dim, n, r, v0) ==
  {<<(r * n) + c, (r * dim) + d, v0 + (c * dim) + d>> : c \in Upto(n), d \in Upto(dim)}

QueryTiles(s) == From(0, s.br, s.seq)
KeyTiles(s) == From(0, s.bc, s.seq)
Tall(s, qi) == LeastOf(qi + s.br, s.seq) - qi
Wide(s, kj) == LeastOf(kj + s.bc, s.seq) - kj
RowState(s, i) == FlashRow([j \in Upto(s.seq) |-> Score(s, i, j)], s.seq, s.bc)

TileScores(s, kv, bh, qi, kj) ==
  LET base == bh * strides(s).s_h
      n == Wide(s, kj)
  IN  {<<<<bh \div s.heads, bh % s.heads, qi + (x[1] \div n), kj + (x[1] % n)>>, <<x[2], kv[x[3]]>>, bh, x[4]>>
         : x \in sgemm_score_tile(s.dim, Tall(s, qi), n, base + (qi * s.dim), base + (kj * s.dim))}

TileValues(s, kv, bh, qi, kj, r, state) ==
  LET base == bh * strides(s).s_h
      n == Wide(s, kj)
      of == {w \in RowStored(state) : w = <<"nan">> \/ w[1] \in kj .. kj + n - 1}
      held == {y \in {<<x, w>> : x \in sgemm_value_accumulate(s.dim, n, r, base + (kj * s.dim)), w \in of}
                 : y[2] = <<"nan">> \/ y[2][1] = kj + (y[1][1] - (r * n))}
  IN  {Out(base + (qi * s.dim) + y[1][2], y[2], kv[y[1][3]]) : y \in held}

flash_forward_bh_blas(s, kv, bh) ==
  [scores |-> UNION {TileScores(s, kv, bh, qi, kj) : qi \in QueryTiles(s), kj \in KeyTiles(s)},
   out |-> UNION {LET state == RowState(s, qi + r)
                  IN  {Append(Append(x, bh), 0) : x \in UNION {TileValues(s, kv, bh, qi, kj, r, state) : kj \in KeyTiles(s)}}
                  : <<qi, r>> \in {p \in QueryTiles(s) \X Upto(s.br) : p[2] < Tall(s, p[1])}}]

(* The same row by row, for the target that has no matrix product.          *)
flash_forward_bh_scalar(s, kv, bh) ==
  LET base == bh * strides(s).s_h
      Rows == UNION {qi .. LeastOf(qi + s.br, s.seq) - 1 : qi \in QueryTiles(s)}
      Keys == UNION {KeyTile(s.seq, s.bc, t) : t \in Upto(CeilDiv(s.seq, s.bc))}
  IN  [scores |->
         {<<<<bh \div s.heads, bh % s.heads, i, kk>>, <<base + (i * s.dim) + d, kv[base + (kk * s.dim) + d]>>, bh, d>>
            : i \in Rows, kk \in Keys, d \in Upto(s.dim)},
       out |->
         UNION {{Append(Append(Out(base + (i * s.dim) + d, w, kv[base + (w[1] * s.dim) + d]), bh), 0)
                   : w \in RowStored(RowState(s, i)), d \in Upto(s.dim)} : i \in Rows}]

(* One task per head, each over its own slab of the output.                 *)
flash_forward_masked(s, len, kv, target) ==
  LET tasks == {IF target = "wasm32" THEN flash_forward_bh_scalar(s, kv, bh) ELSE flash_forward_bh_blas(s, kv, bh)
                  : bh \in Upto(s.batch * s.heads)}
  IN  Kernel(validate(s, len) /\ mask_validate(s.mask, s.seq),
             <<Part(ScoresAsked(s, kv), UNION {t.scores : t \in tasks}),
               Part(OutAsked(s, kv), UNION {t.out : t \in tasks})>>, <<>>)

Itself(s) == [x \in Upto(buffer_len(s)) |-> x]

naive_forward_masked(s, len) ==
  LET heads == Upto(s.batch) \X Upto(s.heads)
      base(b, h) == (b * strides(s).s_b) + (h * strides(s).s_h)
      Sum(i) == LET m == Peak([j \in Upto(s.seq) |-> Score(s, i, j)], Upto(s.seq))
                IN  [m |-> m, nan |-> m = NegInf, terms |-> {<<j, m>> : j \in {k \in Upto(s.seq) : Score(s, i, k) # NegInf}}]
  IN  Simple(validate(s, len) /\ mask_validate(s.mask, s.seq),
             OutAsked(s, Itself(s)),
             UNION {{Append(Append(Out(base(p[1], p[2]) + (i * s.dim) + d, w, base(p[1], p[2]) + (w[1] * s.dim) + d), p), 0)
                       : w \in RowStored(Sum(i)), d \in Upto(s.dim)} : p \in heads, i \in Upto(s.seq)})

(* ------------------------------ the backward ---------------------------- *)

(* P is recomputed; a product is a weight (i, j) of the head's P or dS and  *)
(* an element of the other operand.                                         *)
flash_backward(s, len) ==
  LET heads == Upto(s.batch) \X Upto(s.heads)
      pairs == Upto(s.seq) \X Upto(s.seq) \X Upto(s.dim)
      n == s.seq
      base(p) == (p[1] * s.heads * (n * s.dim)) + (p[2] * (n * s.dim))
      At(p, i, d) == base(p) + (i * s.dim) + d
      Ref(p, i, d) == At4(s, p[1], p[2], i, d)
      Dots == Part({<<<<p, x[1], x[2]>>, <<Ref(p, x[1], x[3]), Ref(p, x[2], x[3])>>>> : p \in heads, x \in pairs},
                   {<<<<p, x[1], x[2]>>, <<At(p, x[1], x[3]), At(p, x[2], x[3])>>, p, x[3]>> : p \in heads, x \in pairs})
      \* each row of P meets its row of dP, in the order of the flat buffers
      RowDot == Part({<<<<p, x[1]>>, <<x[1], x[2]>>>> : p \in heads, x \in pairs},
                     {<<<<p, y \div n>>, <<y \div n, y % n>>, p, y>> : p \in heads, y \in Upto(n * n)})
      Along(first) ==  \* dQ gathers over the columns, dK and dV over the rows
        LET row(x) == IF first THEN x[1] ELSE x[2]
            col(x) == IF first THEN x[2] ELSE x[1]
        IN  Part({<<Ref(p, row(x), x[3]), <<x[1], x[2], Ref(p, col(x), x[3])>>>> : p \in heads, x \in pairs},
                 {<<At(p, row(x), x[3]), <<x[1], x[2], At(p, col(x), x[3])>>, p, col(x)>> : p \in heads, x \in pairs})
  IN  Kernel(len = buffer_len(s), <<Dots, Along(FALSE), Dots, RowDot, Along(TRUE), Along(FALSE)>>, <<>>)

(* --------------------------- grouped queries ---------------------------- *)

GroupedShape(b, H, n, D) ==
  [batch |-> b, heads |-> H, seq |-> n, dim |-> D, br |-> 64, bc |-> 64,
   mask |-> [kind |-> "none"], rank |-> [p \in Upto(n) \X Upto(n) |-> (p[1] + (3 * p[2])) % 5]]

(* Each query head reads the key/value head of its group.                   *)
KvHead(H, KV, h) == CHOOSE g \in Upto(KV) : h \in g * (H \div KV) .. ((g + 1) * (H \div KV)) - 1

(* k_rep and v_rep: the offset in K or V that each of theirs is copied from.*)
Replicated(batch, H, KV, n, D) ==
  LET size == n * D
      from(x) == LET b == x \div (H * size)
                     h == (x \div size) % H
                 IN  (b * KV * size) + ((h \div (H \div KV)) * size) + (x % size)
  IN  [x \in Upto(batch * H * size) |-> from(x)]

decode_attn_row(H, KV, sq, skv, D, bh) ==
  LET b == bh \div H
      h == bh % H
      q_off == (b * H * sq * D) + (h * sq * D)
      kv_off == (b * KV * skv * D) + ((h \div (H \div KV)) * skv * D)
  IN  [scores |-> {<<<<b, h, i, j>>, <<q_off + (i * D) + d, kv_off + (j * D) + d>>, bh, d>>
                     : i \in Upto(sq), j \in Upto(skv), d \in Upto(D)},
       out |-> {<<(bh * sq * D) + (i * D) + d, <<i, j, kv_off + (j * D) + d>>, bh, j>>
                  : i \in Upto(sq), j \in Upto(skv), d \in Upto(D)}]

gqa_forward_f32(batch, H, KV, sq, skv, D) ==
  IF KV = 0 \/ H % KV # 0 THEN [ok |-> FALSE]
  ELSE IF sq = skv
       THEN LET s == GroupedShape(batch, H, sq, D)
                of == [x \in Upto(buffer_len(s)) |->
                        BHND(KV, sq, D, x \div (H * sq * D), KvHead(H, KV, (x \div (sq * D)) % H), (x \div D) % sq, x % D)]
                run == flash_forward_masked(s, buffer_len(s), Replicated(batch, H, KV, sq, D), "native")
            IN  Kernel(run.ok, <<Part(ScoresAsked(s, of), run.parts[1].did), Part(OutAsked(s, of), run.parts[2].did)>>, <<>>)
       ELSE LET rows == {decode_attn_row(H, KV, sq, skv, D, bh) : bh \in Upto(batch * H)}
                all == Upto(batch) \X Upto(H) \X Upto(sq) \X Upto(skv) \X Upto(D)
                K(x) == BHND(KV, skv, D, x[1], KvHead(H, KV, x[2]), x[4], x[5])
            IN  Kernel(TRUE,
                  <<Part({<<<<x[1], x[2], x[3], x[4]>>, <<BHND(H, sq, D, x[1], x[2], x[3], x[5]), K(x)>>>> : x \in all},
                         UNION {r.scores : r \in rows}),
                    Part({<<BHND(H, sq, D, x[1], x[2], x[3], x[5]), <<x[3], x[4], K(x)>>>> : x \in all},
                         UNION {r.out : r \in rows})>>, <<>>)

(* --------------------------- rotary embeddings -------------------------- *)

(* The tables, in the order they are pushed: <<position, frequency>>.       *)
RoPE_new(D, max_seq) == [n \in Upto(max_seq * (D \div 2)) |-> <<n \div (D \div 2), n % (D \div 2)>>]

(* How a rotation pairs dimension d: <<the first, the second of its pair>>. *)
Neighbours(d) == <<2 * d, (2 * d) + 1>>
HalfSplit(d, half) == <<d, d + half>>

Rotate(x0, x1, angle, by) == {<<x0, <<"c-s", x0, x1, angle>>, by, 0>>, <<x1, <<"s+c", x0, x1, angle>>, by, 0>>}
RopePairs(batch, H, seq, D, offset, max_seq, split) ==
  LET half == D \div 2
      table == RoPE_new(D, max_seq)
      pair(k) == IF split THEN HalfSplit(k, half) ELSE Neighbours(k)
      rows == Upto(batch) \X Upto(H) \X Upto(seq) \X Upto(half)
      row_off(p) == (p[1] * H * seq * D) + (p[2] * seq * D) + (p[3] * D)
      want(p) == {<<BHND(H, seq, D, p[1], p[2], p[3], pair(p[4])[i]),
                    <<IF i = 1 THEN "c-s" ELSE "s+c", BHND(H, seq, D, p[1], p[2], p[3], pair(p[4])[1]),
                      BHND(H, seq, D, p[1], p[2], p[3], pair(p[4])[2]), <<offset + p[3], p[4]>>>>>> : i \in {1, 2}}
  IN  IF D % 2 # 0 \/ offset + seq > max_seq THEN [ok |-> FALSE]
      ELSE Simple(TRUE, UNION {want(p) : p \in rows},
                  UNION {Rotate(row_off(p) + pair(p[4])[1], row_off(p) + pair(p[4])[2],
                                table[((offset + p[3]) * half) + p[4]], p) : p \in rows})

apply_inplace(batch, H, seq, D, offset, max_seq) == RopePairs(batch, H, seq, D, offset, max_seq, FALSE)
apply_inplace_half_split(batch, H, seq, D, offset, max_seq) == RopePairs(batch, H, seq, D, offset, max_seq, TRUE)

(* --------------------------- the key/value cache ------------------------ *)

(* Operations: append n rows and advance by n, or clear (-1).  An append    *)
(* or an advance beyond max_seq is refused and changes nothing.             *)
RowsFit(len, n, max_seq) == len + n <= max_seq
advance(len, n, max_seq) == IF RowsFit(len, n, max_seq) THEN len + n ELSE len
LengthAfter(ops, max_seq) ==
  LET at[i \in 0 .. Len(ops)] == IF i = 0 THEN 0 ELSE IF ops[i] = -1 THEN 0 ELSE advance(at[i - 1], ops[i], max_seq)
  IN  at

KVLayerCache_append(batch, H, max_seq, D, len, n, op) ==
  UNION {{<<(p[1] * H * max_seq * D) + (p[2] * max_seq * D) + (len * D) + x,
            <<op, (p[1] * H * n * D) + (p[2] * n * D) + x>>>> : x \in Upto(n * D)}
         : p \in Upto(batch) \X Upto(H)}

Buffer(batch, H, max_seq, D, ops) ==
  LET len == LengthAfter(ops, max_seq)
      at[i \in 0 .. Len(ops)] ==
        IF i = 0 THEN [x \in Upto(batch * H * max_seq * D) |-> <<0, 0>>]
        ELSE IF ops[i] = -1 \/ ~RowsFit(len[i - 1], ops[i], max_seq) THEN at[i - 1]
        ELSE LET new == KVLayerCache_append(batch, H, max_seq, D, len[i - 1], ops[i], i)
             IN  [x \in DOMAIN at[i - 1] |-> IF \E w \in new : w[1] = x THEN (CHOOSE w \in new : w[1] = x)[2] ELSE at[i - 1][x]]
  IN  at[Len(ops)]

(* The rows the decoder trims the buffer to are, for each head, the rows    *)
(* appended since the last clear, in order.                                 *)
k_trim(batch, H, max_seq, D, ops) ==
  LET len == LengthAfter(ops, max_seq)
      kv_len == len[Len(ops)]
      buffer == Buffer(batch, H, max_seq, D, ops)
      cleared == CHOOSE c \in {0} \cup {i \in DOMAIN ops : ops[i] = -1} :
                   \A i \in DOMAIN ops : ops[i] = -1 => i <= c
      By(t) == CHOOSE i \in cleared + 1 .. Len(ops) : t \in len[i - 1] .. len[i] - 1
      rows == Upto(batch) \X Upto(H) \X Upto(kv_len) \X Upto(D)
  IN  Simple(TRUE,
        {<<BHND(H, kv_len, D, p[1], p[2], p[3], p[4]),
           LET i == By(p[3]) IN <<i, BHND(H, ops[i], D, p[1], p[2], p[3] - len[i - 1], p[4])>>>> : p \in rows},
        UNION {{<<(((b * H) + h) * kv_len * D) + x, buffer[(((b * H) + h) * max_seq * D) + x], <<b, h>>, 0>>
                  : x \in Upto(kv_len * D)} : b \in Upto(batch), h \in Upto(H)})

CpuAttentionNext ==
  /\ job = NoJob
  /\ \/ \E s \in FlashCases :
          \/ \E target \in {"native", "wasm32"} :
               Launch("flash_forward", <<s, target>>, flash_forward_masked(s, buffer_len(s), Itself(s), target))
          \/ Launch("naive_forward", s, naive_forward_masked(s, buffer_len(s)))
          \/ Launch("flash_backward", s, flash_backward(s, buffer_len(s)))
     \/ \E s \in GroupedCases : Launch("gqa_forward", s, gqa_forward_f32(s[1], s[2], s[3], s[4], s[5], s[6]))
     \/ \E s \in RopeCases :
          \/ Launch("rope", s, apply_inplace(s[1], s[2], s[3], s[4], s[5], s[6]))
          \/ Launch("rope_half_split", s, apply_inplace_half_split(s[1], s[2], s[3], s[4], s[5], s[6]))
     \/ \E s \in CacheCases : Launch("kv_cache", s, k_trim(s[1], s[2], s[3], s[4], s[5]))
     \/ \E s \in ScoreRows : Launch("online_softmax", s, online_softmax(s[1], s[2]))
=============================================================================
