--------------------------- MODULE SseHub_proofs ---------------------------
(***************************************************************************)
(* For every number of browsers and every capacity, retention and bound:   *)
(* the hub's ring is the recent history, every event owed to a page is     *)
(* accounted for, and a page sees increasing ids.                          *)
(***************************************************************************)
EXTENDS SseHub, SequenceTheorems, TLAPS

Entry == [ts : Nat, id : Nat]

(* What an open stream still has to send lies above what it has sent: the  *)
(* replay comes before the receiver's cursor, and both after the browser's *)
(* last id.                                                                *)
OrderOf(c) ==
  /\ lastEpoch[c] <= epoch
  /\ Resuming(c) => lastId[c] < nextId
  /\ conn[c] => /\ 0 < cursor[c] /\ cursor[c] <= nextId
                /\ \A i \in replay[c] : 0 < i /\ i < cursor[c]
  /\ conn[c] /\ Resuming(c) => /\ lastId[c] < cursor[c]
                               /\ \A i \in replay[c] : lastId[c] < i

StreamOrder == \A c \in Client : OrderOf(c)

HubInv == TypeOK /\ RingIsRecentHistory /\ StreamOrder /\ AccountedFor

-----------------------------------------------------------------------------
(* evict_old returns a tail of the ring it is given, no longer than the    *)
(* capacity, and drops only entries that are old or have RingCap           *)
(* successors.                                                             *)
LEMMA EvictOldTail ==
  ASSUME NEW r \in Seq(Entry), NEW s, EvictOld(r, s)
  PROVE  /\ s \in Seq(Entry)
         /\ Len(s) <= RingCap
         /\ Len(s) <= Len(r)
         /\ \A k \in 1..Len(s) : s[k] = r[Len(r) - Len(s) + k]
         /\ \A j \in 1..(Len(r) - Len(s)) :
              Expired(r[j]) \/ Len(r) - j + 1 > RingCap
  <1>1. PICK k \in 1..(Len(r) + 1) :
          /\ \A j \in 1..(k - 1) : Expired(r[j]) \/ Len(r) - j + 1 > RingCap
          /\ k <= Len(r) => ~Expired(r[k]) /\ Len(r) - k + 1 <= RingCap
          /\ s = SubSeq(r, k, Len(r))
    BY DEF EvictOld
  <1>2. Len(r) \in Nat /\ \A i \in k..Len(r) : r[i] \in Entry
    BY LenProperties, ElementOfSeq
  <1>3. /\ s \in Seq(Entry)
        /\ Len(s) = IF k <= Len(r) THEN Len(r) - k + 1 ELSE 0
        /\ \A i \in 1..(Len(r) - k + 1) : s[i] = r[k + i - 1]
    BY <1>1, <1>2, SubSeqProperties
  <1>4. Len(s) = Len(r) - k + 1
    BY <1>2, <1>3
  <1>5. Len(s) <= RingCap /\ Len(s) <= Len(r)
    BY <1>1, <1>2, <1>4, HubAssumption
  <1>6. \A i \in 1..Len(s) : s[i] = r[Len(r) - Len(s) + i]
    <2> TAKE i \in 1..Len(s)
    <2>1. i \in 1..(Len(r) - k + 1) /\ k + i - 1 = Len(r) - (Len(r) - k + 1) + i
      BY <1>2, <1>4
    <2>2. s[i] = r[k + i - 1]
      BY <1>3, <2>1
    <2>3. QED
      BY <1>4, <2>1, <2>2
  <1>7. Len(r) - Len(s) = k - 1
    BY <1>2, <1>4
  <1>8. QED
    BY <1>1, <1>3, <1>5, <1>6, <1>7

(* The ids of a recent history are an interval.                            *)
LEMMA RingIdsInterval ==
  ASSUME NEW r \in Seq(Entry), NEW st, NEW n \in Nat, NEW t, HistoryOf(r, st, n, t)
  PROVE  RingIds(r) = (n - Len(r))..(n - 1)
  <1>1. Len(r) \in Nat
    BY LenProperties
  <1>2. \A k \in 1..Len(r) : r[k].id = n - 1 - Len(r) + k
    BY DEF HistoryOf
  <1>3. ASSUME NEW i \in (n - Len(r))..(n - 1)
        PROVE  i \in RingIds(r)
    <2>1. i - (n - 1 - Len(r)) \in 1..Len(r)
      BY <1>1
    <2>2. r[i - (n - 1 - Len(r))].id = i
      BY <1>1, <1>2, <2>1
    <2>3. QED
      BY <2>1, <2>2 DEF RingIds
  <1>4. ASSUME NEW i \in RingIds(r)
        PROVE  i \in (n - Len(r))..(n - 1)
    BY <1>1, <1>2, <1>4 DEF RingIds
  <1>5. QED
    BY <1>3, <1>4

LEMMA HubInit == Init => HubInv
  <1> SUFFICES ASSUME Init PROVE HubInv
    OBVIOUS
  <1>1. TypeOK
    BY HubAssumption DEF Init, TypeOK
  <1>2. RingIsRecentHistory
    BY HubAssumption DEF Init, RingIsRecentHistory, HistoryOf
  <1>3. StreamOrder
    BY DEF Init, StreamOrder, OrderOf, Resuming
  <1>4. AccountedFor
    BY DEF Init, AccountedFor, Resuming
  <1>5. QED
    BY <1>1, <1>2, <1>3, <1>4 DEF HubInv

-----------------------------------------------------------------------------
(* Eviction keeps a recent history a recent history.                       *)
LEMMA EvictKeepsHistory ==
  ASSUME NEW r \in Seq(Entry), NEW s, NEW st, NEW n \in Nat, now \in Nat,
         HistoryOf(r, st, n, now), EvictOld(r, s)
  PROVE  s \in Seq(Entry) /\ Len(s) <= RingCap /\ HistoryOf(s, st, n, now)
  <1>1. /\ s \in Seq(Entry) /\ Len(s) <= RingCap /\ Len(s) <= Len(r)
        /\ \A k \in 1..Len(s) : s[k] = r[Len(r) - Len(s) + k]
        /\ \A j \in 1..(Len(r) - Len(s)) :
             Expired(r[j]) \/ Len(r) - j + 1 > RingCap
    BY EvictOldTail
  <1>2. Len(r) \in Nat /\ Len(s) \in Nat /\ RingCap \in Nat
    BY <1>1, LenProperties, HubAssumption
  <1>3. /\ Len(r) < n /\ Len(st) = n - 1
        /\ \A k \in 1..Len(r) : r[k].id = n - 1 - Len(r) + k /\ r[k].ts = st[r[k].id]
        /\ \A i \in 1..(n - 1 - Len(r)) : st[i] < now - Retention \/ i < n - RingCap
    BY DEF HistoryOf
  <1>4. ASSUME NEW k \in 1..Len(s)
        PROVE  s[k].id = n - 1 - Len(s) + k /\ s[k].ts = st[s[k].id]
    <2>1. Len(r) - Len(s) + k \in 1..Len(r) /\ s[k] = r[Len(r) - Len(s) + k]
      BY <1>1, <1>2
    <2>2. /\ s[k].id = n - 1 - Len(r) + (Len(r) - Len(s) + k)
          /\ s[k].ts = st[s[k].id]
      BY <1>3, <2>1
    <2>3. QED
      BY <1>2, <2>2
  <1>5. ASSUME NEW i \in 1..(n - 1 - Len(s))
        PROVE  st[i] < now - Retention \/ i < n - RingCap
    <2>1. CASE i <= n - 1 - Len(r)
      BY <1>2, <1>3, <2>1
    <2>2. CASE i > n - 1 - Len(r)
      <3> DEFINE j == i - (n - 1 - Len(r))
      <3>1. j \in 1..(Len(r) - Len(s)) /\ j \in 1..Len(r) /\ n - 1 - Len(r) + j = i
        BY <1>1, <1>2, <2>2
      <3>2. r[j].id = n - 1 - Len(r) + j /\ r[j].ts = st[r[j].id]
        BY <1>3, <3>1
      <3>3. CASE Expired(r[j])
        BY <3>1, <3>2, <3>3 DEF Expired
      <3>4. CASE Len(r) - j + 1 > RingCap
        BY <1>2, <3>1, <3>4
      <3>5. QED
        BY <1>1, <3>1, <3>3, <3>4
    <2>3. QED
      BY <1>2, <2>1, <2>2
  <1>6. QED
    BY <1>1, <1>2, <1>3, <1>4, <1>5 DEF HistoryOf

(* A newly stamped event extends the history.                              *)
LEMMA AppendKeepsHistory ==
  ASSUME NEW r \in Seq(Entry), NEW st \in Seq(Nat), NEW n \in Nat \ {0},
         now \in Nat, HistoryOf(r, st, n, now)
  PROVE  /\ Append(r, [ts |-> now, id |-> n]) \in Seq(Entry)
         /\ Append(st, now) \in Seq(Nat)
         /\ HistoryOf(Append(r, [ts |-> now, id |-> n]), Append(st, now), n + 1, now)
  <1> DEFINE e == [ts |-> now, id |-> n]
             a == Append(r, e)
             b == Append(st, now)
  <1>1. e \in Entry /\ e.id = n /\ e.ts = now
    BY DEF Entry
  <1> HIDE DEF e
  <1>2. /\ a \in Seq(Entry) /\ Len(a) = Len(r) + 1
        /\ \A k \in 1..Len(r) : a[k] = r[k]
        /\ a[Len(r) + 1] = e
    BY <1>1, AppendProperties
  <1>3. /\ b \in Seq(Nat) /\ Len(b) = Len(st) + 1
        /\ \A i \in 1..Len(st) : b[i] = st[i]
        /\ b[Len(st) + 1] = now
    BY AppendProperties
  <1>4. /\ Len(r) < n /\ Len(st) = n - 1 /\ Len(r) \in Nat
        /\ \A k \in 1..Len(r) : r[k].id = n - 1 - Len(r) + k /\ r[k].ts = st[r[k].id]
        /\ \A i \in 1..(n - 1 - Len(r)) : st[i] < now - Retention \/ i < n - RingCap
    BY LenProperties DEF HistoryOf
  <1> HIDE DEF a, b
  <1>5. ASSUME NEW k \in 1..Len(a)
        PROVE  a[k].id = (n + 1) - 1 - Len(a) + k /\ a[k].ts = b[a[k].id]
    <2>1. CASE k \in 1..Len(r)
      <3>1. a[k].id = n - 1 - Len(r) + k /\ a[k].ts = st[a[k].id]
        BY <1>2, <1>4, <2>1
      <3>2. a[k].id \in 1..Len(st)
        BY <1>4, <2>1, <3>1
      <3>3. QED
        BY <1>2, <1>3, <1>4, <3>1, <3>2
    <2>2. CASE k = Len(r) + 1
      <3>1. a[k].id = n /\ a[k].ts = now /\ b[n] = now
        BY <1>1, <1>2, <1>3, <1>4, <2>2
      <3>2. QED
        BY <1>2, <1>4, <2>2, <3>1
    <2>3. QED
      BY <1>2, <1>4, <2>1, <2>2
  <1>6. ASSUME NEW i \in 1..((n + 1) - 1 - Len(a))
        PROVE  b[i] < now - Retention \/ i < (n + 1) - RingCap
    <2>1. i \in 1..(n - 1 - Len(r)) /\ i \in 1..Len(st) /\ RingCap \in Nat
      BY <1>2, <1>4, HubAssumption
    <2>2. b[i] = st[i]
      BY <1>3, <2>1
    <2>3. st[i] < now - Retention \/ i < n - RingCap
      BY <1>4, <2>1
    <2>4. i < n - RingCap => i < (n + 1) - RingCap
      BY <2>1
    <2>5. QED
      BY <2>2, <2>3, <2>4
  <1>7. HistoryOf(a, b, n + 1, now)
    <2>1. Len(a) < n + 1 /\ Len(b) = (n + 1) - 1
      BY <1>2, <1>3, <1>4
    <2>2. \A k \in 1..Len(a) : a[k].id = (n + 1) - 1 - Len(a) + k /\ a[k].ts = b[a[k].id]
      BY <1>5
    <2>3. \A i \in 1..((n + 1) - 1 - Len(a)) :
            b[i] < now - Retention \/ i < (n + 1) - RingCap
      BY <1>6
    <2>4. QED
      BY <2>1, <2>2, <2>3, Zenon DEF HistoryOf
  <1>8. QED
    BY <1>2, <1>3, <1>7 DEF a, b, e

-----------------------------------------------------------------------------
(* publish, subscribe and the passing of time keep the ring the recent     *)
(* history; a restart empties both.                                        *)
LEMMA RingStep ==
  ASSUME TypeOK, RingIsRecentHistory, [Next]_vars
  PROVE  /\ ring' \in Seq(Entry) /\ stamp' \in Seq(Nat)
         /\ RingIsRecentHistory'
  <1>0. /\ ring \in Seq(Entry) /\ stamp \in Seq(Nat)
        /\ nextId \in Nat \ {0} /\ now \in Nat
        /\ HistoryOf(ring, stamp, nextId, now) /\ Len(ring) <= RingCap
    BY DEF TypeOK, Entry, RingIsRecentHistory
  <1>1. CASE Publish
    <2>1. /\ now' = now /\ nextId' = nextId + 1 /\ stamp' = Append(stamp, now)
          /\ EvictOld(Append(ring, [ts |-> now, id |-> nextId]), ring')
      BY <1>1 DEF Publish
    <2>2. /\ Append(ring, [ts |-> now, id |-> nextId]) \in Seq(Entry)
          /\ Append(stamp, now) \in Seq(Nat)
          /\ HistoryOf(Append(ring, [ts |-> now, id |-> nextId]), Append(stamp, now),
                       nextId + 1, now)
      BY <1>0, AppendKeepsHistory
    <2>3. nextId + 1 \in Nat
      BY <1>0
    <2>4. ring' \in Seq(Entry) /\ Len(ring') <= RingCap /\ HistoryOf(ring', stamp', nextId', now)
      BY <1>0, <2>1, <2>2, <2>3, EvictKeepsHistory
    <2>5. QED
      BY <2>1, <2>2, <2>4 DEF RingIsRecentHistory
  <1>2. CASE \E c \in Client : Subscribe(c)
    <2>1. /\ now' = now /\ nextId' = nextId /\ stamp' = stamp
          /\ EvictOld(ring, ring')
      BY <1>2 DEF Subscribe
    <2>2. ring' \in Seq(Entry) /\ Len(ring') <= RingCap /\ HistoryOf(ring', stamp, nextId, now)
      BY <1>0, <2>1, EvictKeepsHistory
    <2>3. QED
      BY <1>0, <2>1, <2>2 DEF RingIsRecentHistory
  <1>3. CASE Tick
    <2>1. now' = now + 1 /\ nextId' = nextId /\ stamp' = stamp /\ ring' = ring
      BY <1>3 DEF Tick, hubVars
    <2>2. ASSUME NEW i \in 1..(nextId - 1 - Len(ring))
          PROVE  stamp[i] < (now + 1) - Retention \/ i < nextId - RingCap
      <3>1. stamp[i] < now - Retention \/ i < nextId - RingCap
        BY <1>0 DEF HistoryOf
      <3>2. Len(ring) \in Nat /\ Len(stamp) = nextId - 1 /\ i \in 1..Len(stamp)
        BY <1>0, LenProperties DEF HistoryOf
      <3>3. stamp[i] \in Nat
        BY <1>0, <3>2, ElementOfSeq
      <3>4. QED
        BY <1>0, <3>1, <3>3, HubAssumption
    <2>3. HistoryOf(ring, stamp, nextId, now + 1)
      <3>1. \A i \in 1..(nextId - 1 - Len(ring)) :
              stamp[i] < (now + 1) - Retention \/ i < nextId - RingCap
        BY <2>2
      <3>2. QED
        BY <1>0, <3>1, Zenon DEF HistoryOf
    <2>4. QED
      BY <1>0, <2>1, <2>3 DEF RingIsRecentHistory
  <1>4. CASE Restart
    <2>1. ring' = <<>> /\ stamp' = <<>> /\ nextId' = 1
      BY <1>4 DEF Restart
    <2>2. QED
      BY <2>1, HubAssumption DEF RingIsRecentHistory, HistoryOf
  <1>5. CASE UNCHANGED <<now, hubVars>>
    BY <1>0, <1>5 DEF RingIsRecentHistory, hubVars
  <1>6. QED
    BY <1>1, <1>2, <1>3, <1>4, <1>5
    DEF Next, vars, Stream, StreamReplay, StreamLive, StreamLag, Disconnect, NewPage

(* Type correctness is preserved; the ring's part is RingStep's.           *)
LEMMA TypeStep ==
  ASSUME TypeOK, RingIsRecentHistory, StreamOrder, [Next]_vars
  PROVE  TypeOK'
  <1>0. ring' \in Seq([ts : Nat, id : Nat]) /\ stamp' \in Seq(Nat)
    BY RingStep DEF Entry
  <1>1. CASE Tick
    BY <1>0, <1>1 DEF TypeOK, Tick, hubVars, streamVars, pageVars
  <1>2. CASE Publish
    BY <1>0, <1>2 DEF TypeOK, Publish, streamVars, pageVars
  <1>3. CASE Restart
    BY <1>0, <1>3 DEF TypeOK, Restart, Closed
  <1>4. ASSUME NEW c \in Client, Subscribe(c)
        PROVE  TypeOK'
    <2>1. Replay(ring', lastId[c]) \in SUBSET Nat
      <3>1. ASSUME NEW k \in 1..Len(ring') PROVE ring'[k].id \in Nat
        <4>1. ring'[k] \in [ts : Nat, id : Nat]
          BY <1>0, ElementOfSeq
        <4>2. QED
          BY <4>1
      <3>2. QED
        BY <3>1 DEF Replay, RingIds
    <2>2. (lastId[c] + 1)..(nextId - 1) \subseteq Nat
      BY DEF TypeOK
    <2>3. QED
      BY <1>0, <1>4, <2>1, <2>2 DEF TypeOK, Subscribe
  <1>5. ASSUME NEW c \in Client, StreamReplay(c)
        PROVE  TypeOK'
    BY <1>0, <1>5 DEF TypeOK, StreamReplay, Deliver, hubVars
  <1>6. ASSUME NEW c \in Client, StreamLive(c)
        PROVE  TypeOK'
    BY <1>0, <1>6 DEF TypeOK, StreamLive, Deliver, hubVars
  <1>7. ASSUME NEW c \in Client, StreamLag(c)
        PROVE  TypeOK'
    <2>1. OldestKept \in Nat /\ cursor[c]..(OldestKept - 1) \subseteq Nat
      BY <1>7, HubAssumption DEF TypeOK, StreamLag, Lagging, OldestKept
    <2>2. QED
      BY <1>0, <1>7, <2>1 DEF TypeOK, StreamLag, hubVars
  <1>8. ASSUME NEW c \in Client, Disconnect(c)
        PROVE  TypeOK'
    BY <1>0, <1>8 DEF TypeOK, Disconnect, Closed, hubVars
  <1>9. ASSUME NEW c \in Client, NewPage(c)
        PROVE  TypeOK'
    BY <1>0, <1>9 DEF TypeOK, NewPage, hubVars, streamVars
  <1>10. CASE UNCHANGED vars
    BY <1>10 DEF TypeOK, vars, hubVars, streamVars, pageVars
  <1>11. QED
    BY <1>1, <1>2, <1>3, <1>4, <1>5, <1>6, <1>7, <1>8, <1>9, <1>10 DEF Next, Stream

(* A step that leaves a stream alone leaves its order alone.               *)
LEMMA OrderFrame ==
  ASSUME NEW d \in Client, OrderOf(d),
         nextId' = nextId, epoch' = epoch,
         conn'[d] = conn[d], replay'[d] = replay[d], cursor'[d] = cursor[d],
         lastId'[d] = lastId[d], lastEpoch'[d] = lastEpoch[d]
  PROVE  OrderOf(d)'
  BY DEF OrderOf, Resuming

(* The order of a stream is preserved: a subscription splices a replay of  *)
(* newer ids in front of a receiver that starts at the next id.            *)
LEMMA OrderStep ==
  ASSUME HubInv, [Next]_vars
  PROVE  StreamOrder'
  <1>0. TypeOK /\ RingIsRecentHistory /\ StreamOrder
    BY DEF HubInv
  <1>1. CASE Tick
    BY <1>0, <1>1 DEF TypeOK, StreamOrder, OrderOf, Resuming, Tick, hubVars, streamVars, pageVars
  <1>2. CASE Publish
    BY <1>0, <1>2 DEF TypeOK, StreamOrder, OrderOf, Resuming, Publish, streamVars, pageVars
  <1>3. CASE Restart
    <2>1. /\ \A c \in Client : conn'[c] = FALSE
          /\ epoch' = epoch + 1 /\ lastEpoch' = lastEpoch
      BY <1>3 DEF Restart, Closed
    <2>2. \A c \in Client : lastEpoch'[c] <= epoch' /\ lastEpoch'[c] # epoch'
      BY <1>0, <2>1 DEF TypeOK, StreamOrder, OrderOf
    <2>3. QED
      BY <2>1, <2>2 DEF StreamOrder, OrderOf, Resuming
  <1>4. ASSUME NEW c \in Client, Subscribe(c)
        PROVE  StreamOrder'
    <2>1. /\ ring' \in Seq(Entry) /\ HistoryOf(ring', stamp', nextId', now')
          /\ nextId' = nextId /\ nextId \in Nat /\ lastId[c] \in Nat
      BY <1>0, <1>4, RingStep DEF TypeOK, RingIsRecentHistory, Subscribe
    <2>2. Len(ring') < nextId /\ Len(ring') \in Nat
      BY <2>1, LenProperties DEF HistoryOf
    <2>3. ASSUME NEW i \in Replay(ring', lastId[c])
          PROVE  0 < i /\ i < nextId /\ lastId[c] < i
      <3>1. i \in RingIds(ring') /\ i > lastId[c]
        BY DEF Replay
      <3>2. i \in (nextId - Len(ring'))..(nextId - 1)
        BY <2>1, <3>1, RingIdsInterval
      <3>3. QED
        BY <2>1, <2>2, <3>1, <3>2
    <2>4. ASSUME NEW d \in Client, d # c
          PROVE  /\ lastEpoch'[d] = lastEpoch[d] /\ lastId'[d] = lastId[d]
                 /\ conn'[d] = conn[d] /\ cursor'[d] = cursor[d]
                 /\ replay'[d] = replay[d] /\ epoch' = epoch /\ nextId' = nextId
      BY <1>0, <1>4, <2>4 DEF TypeOK, Subscribe
    <2>5. /\ lastEpoch'[c] = lastEpoch[c] /\ lastId'[c] = lastId[c] /\ conn'[c]
          /\ cursor'[c] = nextId /\ epoch' = epoch /\ nextId' = nextId
          /\ replay'[c] = Replay(ring', lastId[c])
      BY <1>0, <1>4 DEF TypeOK, Subscribe
    <2>6. ASSUME NEW d \in Client
          PROVE  /\ lastEpoch'[d] <= epoch'
                 /\ Resuming(d)' => lastId'[d] < nextId'
                 /\ conn'[d] => /\ 0 < cursor'[d] /\ cursor'[d] <= nextId'
                                /\ \A i \in replay'[d] : 0 < i /\ i < cursor'[d]
                 /\ conn'[d] /\ Resuming(d)' =>
                      lastId'[d] < cursor'[d] /\ \A i \in replay'[d] : lastId'[d] < i
      <3>1. CASE d # c
        BY <1>0, <2>4, <3>1 DEF StreamOrder, OrderOf, Resuming
      <3>2. CASE d = c
        <4>1. lastEpoch[c] <= epoch /\ (Resuming(c) => lastId[c] < nextId) /\ nextId \in Nat \ {0}
          BY <1>0 DEF StreamOrder, OrderOf, TypeOK
        <4>2. Resuming(c)' <=> Resuming(c)
          BY <2>5 DEF Resuming
        <4>3. QED
          BY <2>3, <2>5, <3>2, <4>1, <4>2
      <3>3. QED
        BY <3>1, <3>2
    <2>7. QED
      BY <2>6 DEF StreamOrder, OrderOf
  <1>5. ASSUME NEW c \in Client, StreamReplay(c)
        PROVE  StreamOrder'
    <2>1. ASSUME NEW d \in Client, d # c PROVE OrderOf(d)'
      BY <1>0, <1>5, <2>1, OrderFrame DEF TypeOK, StreamOrder, StreamReplay, Deliver, hubVars
    <2>2. OrderOf(c)'
      <3>1. PICK i \in replay[c] :
              /\ \A j \in replay[c] : i <= j
              /\ replay' = [replay EXCEPT ![c] = @ \ {i}]
              /\ Deliver(c, i)
        BY <1>5 DEF StreamReplay
      <3>2. /\ replay'[c] = replay[c] \ {i} /\ lastId'[c] = i /\ lastEpoch'[c] = epoch
            /\ cursor' = cursor /\ conn' = conn /\ conn[c] /\ nextId' = nextId /\ epoch' = epoch
        BY <1>0, <1>5, <3>1 DEF TypeOK, StreamReplay, Deliver, hubVars
      <3>3. /\ replay[c] \subseteq Nat /\ cursor[c] \in Nat /\ nextId \in Nat /\ epoch \in Nat
            /\ 0 < cursor[c] /\ cursor[c] <= nextId
            /\ \A j \in replay[c] : 0 < j /\ j < cursor[c]
        BY <1>0, <3>2 DEF TypeOK, StreamOrder, OrderOf
      <3>4. QED
        BY <3>1, <3>2, <3>3 DEF OrderOf, Resuming
    <2>3. QED
      BY <2>1, <2>2 DEF StreamOrder
  <1>6. ASSUME NEW c \in Client, StreamLive(c)
        PROVE  StreamOrder'
    <2>1. ASSUME NEW d \in Client, d # c PROVE OrderOf(d)'
      BY <1>0, <1>6, <2>1, OrderFrame DEF TypeOK, StreamOrder, StreamLive, Deliver, hubVars
    <2>2. OrderOf(c)'
      <3>1. /\ replay'[c] = {} /\ lastId'[c] = cursor[c] /\ lastEpoch'[c] = epoch
            /\ cursor'[c] = cursor[c] + 1 /\ nextId' = nextId /\ epoch' = epoch
            /\ cursor[c] < nextId /\ conn[c]
            /\ cursor[c] \in Nat /\ nextId \in Nat /\ epoch \in Nat
        BY <1>0, <1>6 DEF TypeOK, StreamLive, Deliver, hubVars
      <3>2. 0 < cursor[c]
        BY <1>0, <3>1 DEF StreamOrder, OrderOf
      <3>3. QED
        BY <3>1, <3>2 DEF OrderOf, Resuming
    <2>3. QED
      BY <2>1, <2>2 DEF StreamOrder
  <1>7. ASSUME NEW c \in Client, StreamLag(c)
        PROVE  StreamOrder'
    <2>1. ASSUME NEW d \in Client, d # c PROVE OrderOf(d)'
      BY <1>0, <1>7, <2>1, OrderFrame DEF TypeOK, StreamOrder, StreamLag, hubVars
    <2>2. OrderOf(c)'
      <3>1. /\ replay'[c] = {} /\ lastId' = lastId /\ lastEpoch' = lastEpoch
            /\ cursor'[c] = OldestKept /\ nextId' = nextId /\ epoch' = epoch
            /\ cursor[c] < OldestKept /\ conn[c] /\ conn' = conn
            /\ cursor[c] \in Nat /\ nextId \in Nat /\ epoch \in Nat /\ lastId[c] \in Nat
        BY <1>0, <1>7 DEF TypeOK, StreamLag, Lagging, hubVars
      <3>2. OldestKept \in Int /\ OldestKept <= nextId
        BY <3>1, HubAssumption DEF OldestKept
      <3>3. OrderOf(c)
        BY <1>0 DEF StreamOrder
      <3>4. QED
        BY <3>1, <3>2, <3>3 DEF OrderOf, Resuming
    <2>3. QED
      BY <2>1, <2>2 DEF StreamOrder
  <1>8. ASSUME NEW c \in Client, Disconnect(c)
        PROVE  StreamOrder'
    <2>1. ASSUME NEW d \in Client, d # c PROVE OrderOf(d)'
      BY <1>0, <1>8, <2>1, OrderFrame DEF TypeOK, StreamOrder, Disconnect, Closed, hubVars
    <2>2. OrderOf(c)'
      <3>1. /\ conn'[c] = FALSE /\ lastId' = lastId /\ lastEpoch' = lastEpoch
            /\ nextId' = nextId /\ epoch' = epoch
        BY <1>8 DEF Disconnect, Closed, hubVars
      <3>2. OrderOf(c)
        BY <1>0 DEF StreamOrder
      <3>3. QED
        BY <3>1, <3>2 DEF OrderOf, Resuming
    <2>3. QED
      BY <2>1, <2>2 DEF StreamOrder
  <1>9. ASSUME NEW c \in Client, NewPage(c)
        PROVE  StreamOrder'
    BY <1>0, <1>9 DEF TypeOK, StreamOrder, OrderOf, Resuming, NewPage, hubVars, streamVars
  <1>10. CASE UNCHANGED vars
    BY <1>0, <1>10 DEF StreamOrder, OrderOf, Resuming, vars, hubVars, streamVars, pageVars
  <1>11. QED
    BY <1>1, <1>2, <1>3, <1>4, <1>5, <1>6, <1>7, <1>8, <1>9, <1>10 DEF Next, Stream

(* The ledger of one page, unfolded from AccountedFor.                     *)
Ledger(c) ==
  /\ conn[c] => base[c]..(nextId - 1) \subseteq
       ((got[c] \cup lost[c] \cup reported[c]) \cup replay[c]) \cup (cursor[c]..(nextId - 1))
  /\ ~conn[c] /\ Resuming(c) => base[c]..(nextId - 1) \subseteq
       (got[c] \cup lost[c] \cup reported[c]) \cup ((lastId[c] + 1)..(nextId - 1))

LEMMA AccountedIsLedger == AccountedFor <=> \A c \in Client : Ledger(c)
  BY Zenon DEF AccountedFor, Ledger

(* A step that leaves a page's stream and history alone leaves its ledger  *)
(* balanced.                                                               *)
LEMMA LedgerFrame ==
  ASSUME NEW d \in Client, Ledger(d),
         nextId' = nextId, epoch' = epoch,
         conn'[d] = conn[d], replay'[d] = replay[d], cursor'[d] = cursor[d],
         lastId'[d] = lastId[d], lastEpoch'[d] = lastEpoch[d], base'[d] = base[d],
         got'[d] = got[d], lost'[d] = lost[d], reported'[d] = reported[d]
  PROVE  Ledger(d)'
  BY DEF Ledger, Resuming

(* Every event owed to a page stays accounted for.                         *)
LEMMA AccountedStep ==
  ASSUME HubInv, [Next]_vars
  PROVE  AccountedFor'
  <1>0. TypeOK /\ RingIsRecentHistory /\ StreamOrder /\ \A d \in Client : Ledger(d)
    BY AccountedIsLedger DEF HubInv
  <1> SUFFICES ASSUME NEW d \in Client PROVE Ledger(d)'
    BY Zenon DEF AccountedFor, Ledger
  <1>t. /\ nextId \in Nat /\ cursor[d] \in Nat /\ base[d] \in Nat /\ lastId[d] \in Nat
        /\ conn[d] \in BOOLEAN /\ OldestKept \in Int
    BY <1>0, HubAssumption DEF TypeOK, OldestKept
  <1>1. CASE Tick
    BY <1>0, <1>1, LedgerFrame DEF Tick, hubVars, streamVars, pageVars
  <1>2. CASE Publish
    <2>1. /\ nextId' = nextId + 1 /\ epoch' = epoch /\ conn' = conn /\ replay' = replay
          /\ cursor' = cursor /\ lastId' = lastId /\ lastEpoch' = lastEpoch
          /\ base' = base /\ got' = got /\ lost' = lost /\ reported' = reported
      BY <1>2 DEF Publish, streamVars, pageVars
    <2>2. conn[d] => cursor[d] <= nextId
      BY <1>0 DEF StreamOrder, OrderOf
    <2>3. Resuming(d) => lastId[d] < nextId
      BY <1>0 DEF StreamOrder, OrderOf
    <2>4. QED
      BY <1>0, <1>t, <2>1, <2>2, <2>3 DEF Ledger, Resuming
  <1>3. CASE Restart
    <2>1. /\ conn'[d] = FALSE /\ epoch' = epoch + 1 /\ lastEpoch'[d] = lastEpoch[d]
      BY <1>3 DEF Restart, Closed
    <2>2. lastEpoch'[d] # epoch'
      BY <1>0, <2>1 DEF TypeOK, StreamOrder, OrderOf
    <2>3. QED
      BY <2>1, <2>2 DEF Ledger, Resuming
  <1>4. ASSUME NEW c \in Client, Subscribe(c)
        PROVE  Ledger(d)'
    <2>1. CASE d # c
      BY <1>0, <1>4, <2>1, LedgerFrame DEF TypeOK, Subscribe
    <2>2. CASE d = c
      <3>1. /\ conn'[d] /\ nextId' = nextId /\ cursor'[d] = nextId
            /\ got'[d] = got[d] /\ reported'[d] = reported[d] /\ ~conn[d]
            /\ replay'[d] = Replay(ring', lastId[d])
            /\ base'[d] = IF Resuming(d) THEN base[d] ELSE nextId
            /\ lost'[d] = IF Resuming(d)
                             THEN lost[d] \cup ((lastId[d] + 1)..(nextId - 1) \ RingIds(ring'))
                             ELSE lost[d]
        BY <1>0, <1>4, <2>2 DEF TypeOK, Subscribe
      <3>2. CASE Resuming(d)
        <4>1. Replay(ring', lastId[d]) = {i \in RingIds(ring') : i > lastId[d]}
          BY <3>2 DEF Replay, Resuming
        <4>2. base[d]..(nextId - 1) \subseteq
                (got[d] \cup lost[d] \cup reported[d]) \cup ((lastId[d] + 1)..(nextId - 1))
          BY <1>0, <3>1, <3>2 DEF Ledger
        <4>3. ASSUME NEW i \in (lastId[d] + 1)..(nextId - 1)
              PROVE  i \in lost'[d] \cup replay'[d]
          BY <1>t, <3>1, <3>2, <4>1
        <4>4. lost[d] \subseteq lost'[d] /\ base'[d] = base[d]
          BY <3>1, <3>2
        <4>5. base'[d]..(nextId' - 1) \subseteq
                (got'[d] \cup lost'[d] \cup reported'[d]) \cup replay'[d]
          BY <3>1, <4>2, <4>3, <4>4
        <4>6. QED
          BY <3>1, <4>5 DEF Ledger
      <3>3. CASE ~Resuming(d)
        <4>1. base'[d]..(nextId' - 1) = {}
          BY <1>t, <3>1, <3>3
        <4>2. QED
          BY <3>1, <4>1 DEF Ledger
      <3>4. QED
        BY <3>2, <3>3
    <2>3. QED
      BY <2>1, <2>2
  <1>5. ASSUME NEW c \in Client, StreamReplay(c)
        PROVE  Ledger(d)'
    <2>1. CASE d # c
      BY <1>0, <1>5, <2>1, LedgerFrame DEF TypeOK, StreamReplay, Deliver, hubVars
    <2>2. CASE d = c
      BY <1>0, <1>5, <2>2 DEF TypeOK, StreamReplay, Deliver, hubVars, Ledger
    <2>3. QED
      BY <2>1, <2>2
  <1>6. ASSUME NEW c \in Client, StreamLive(c)
        PROVE  Ledger(d)'
    <2>1. CASE d # c
      BY <1>0, <1>6, <2>1, LedgerFrame DEF TypeOK, StreamLive, Deliver, hubVars
    <2>2. CASE d = c
      BY <1>0, <1>6, <2>2 DEF TypeOK, StreamLive, Deliver, hubVars, Ledger
    <2>3. QED
      BY <2>1, <2>2
  <1>7. ASSUME NEW c \in Client, StreamLag(c)
        PROVE  Ledger(d)'
    <2>1. CASE d # c
      BY <1>0, <1>7, <2>1, LedgerFrame DEF TypeOK, StreamLag, hubVars
    <2>2. CASE d = c
      BY <1>0, <1>t, <1>7, <2>2 DEF TypeOK, StreamLag, hubVars, Ledger, Lagging
    <2>3. QED
      BY <2>1, <2>2
  <1>8. ASSUME NEW c \in Client, Disconnect(c)
        PROVE  Ledger(d)'
    <2>1. CASE d # c
      BY <1>0, <1>8, <2>1, LedgerFrame DEF TypeOK, Disconnect, Closed, hubVars
    <2>2. CASE d = c
      <3>1. /\ conn'[d] = FALSE /\ conn[d] /\ nextId' = nextId /\ lastId' = lastId
            /\ lastEpoch' = lastEpoch /\ epoch' = epoch /\ base' = base /\ got' = got
            /\ lost' = lost /\ reported' = reported
        BY <1>8, <2>2 DEF Disconnect, Closed, hubVars
      <3>2. Resuming(d) => /\ lastId[d] < cursor[d]
                           /\ \A i \in replay[d] : lastId[d] < i /\ i < cursor[d] /\ i \in Nat
                           /\ cursor[d] <= nextId
        BY <1>0, <3>1 DEF StreamOrder, OrderOf, TypeOK
      <3>3. QED
        BY <1>0, <1>t, <3>1, <3>2 DEF Ledger, Resuming
    <2>3. QED
      BY <2>1, <2>2
  <1>9. ASSUME NEW c \in Client, NewPage(c)
        PROVE  Ledger(d)'
    <2>1. CASE d # c
      BY <1>0, <1>9, <2>1, LedgerFrame DEF TypeOK, NewPage, hubVars, streamVars
    <2>2. CASE d = c
      BY <1>0, <1>9, <2>2 DEF TypeOK, NewPage, hubVars, streamVars, Ledger, Resuming
    <2>3. QED
      BY <2>1, <2>2
  <1>10. CASE UNCHANGED vars
    BY <1>0, <1>10, LedgerFrame DEF vars, hubVars, streamVars, pageVars
  <1>11. QED
    BY <1>1, <1>2, <1>3, <1>4, <1>5, <1>6, <1>7, <1>8, <1>9, <1>10 DEF Next, Stream

-----------------------------------------------------------------------------
(* The inductive invariant, assembled.                                     *)
LEMMA HubInvariant == Spec => []HubInv
  <1>1. HubInv /\ [Next]_vars => HubInv'
    BY RingStep, TypeStep, OrderStep, AccountedStep DEF HubInv
  <1>2. QED
    BY HubInit, <1>1, PTL DEF Spec

(* The hub and its browsers keep their types (sse.rs, all operations).     *)
THEOREM HubTypeCorrect == Spec => []TypeOK
  <1>1. HubInv => TypeOK
    BY DEF HubInv
  <1>2. QED
    BY HubInvariant, <1>1, PTL

(* evict_old never drops an event that is both within the retention and    *)
(* among the newest RingCap, and the ring never exceeds RingCap.           *)
THEOREM RingKeepsRecentHistory == Spec => []RingIsRecentHistory
  <1>1. HubInv => RingIsRecentHistory
    BY DEF HubInv
  <1>2. QED
    BY HubInvariant, <1>1, PTL

(* subscribe and sse_response lose nothing silently: what a page is owed   *)
(* is delivered, pending, evicted or announced by a lag event.             *)
THEOREM NothingMissedSilently == Spec => []AccountedFor
  <1>1. HubInv => AccountedFor
    BY DEF HubInv
  <1>2. QED
    BY HubInvariant, <1>1, PTL

(* A page sees the ids of one server incarnation in increasing order, with *)
(* no duplicate at the seam between replay and live stream.                *)
THEOREM IdsIncrease == Spec => InOrder
  <1> DEFINE A == \A c \in Client :
                    Resuming(c) /\ (StreamReplay(c) \/ StreamLive(c)) =>
                      lastId'[c] > lastId[c]
  <1>1. HubInv => A
    <2> SUFFICES ASSUME HubInv, NEW c \in Client, Resuming(c)
                 PROVE  StreamReplay(c) \/ StreamLive(c) => lastId'[c] > lastId[c]
      OBVIOUS
    <2>0. TypeOK /\ OrderOf(c)
      BY DEF HubInv, StreamOrder
    <2>1. ASSUME StreamReplay(c) PROVE lastId'[c] > lastId[c]
      BY <2>0, <2>1 DEF TypeOK, OrderOf, StreamReplay, Deliver
    <2>2. ASSUME StreamLive(c) PROVE lastId'[c] > lastId[c]
      BY <2>0, <2>2 DEF TypeOK, OrderOf, StreamLive, Deliver
    <2>3. QED
      BY <2>1, <2>2
  <1>2. QED
    BY HubInvariant, <1>1, PTL DEF InOrder
=============================================================================
