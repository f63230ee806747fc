------------------------------- MODULE SseHub -------------------------------
(***************************************************************************)
(* One topic of the console server's SSE hub (sse.rs), with the browsers   *)
(* that subscribe to it.  Topics share nothing but a mutex, and every hub  *)
(* call holds that mutex for its whole body, so one topic stands for all   *)
(* of them and a hub call is one atomic step.                              *)
(*                                                                         *)
(* Payloads are dropped: an event is its id.  The tokio broadcast channel  *)
(* is modelled by what the hub observes of it: a receiver is a cursor, the *)
(* id of the next event it will read; the channel keeps the last           *)
(* BroadcastCap events, and a receiver whose cursor fell out of that       *)
(* window gets Lagged and jumps to the oldest event kept.  While a         *)
(* receiver exists every send is stored, so ids and channel positions      *)
(* advance together.                                                       *)
(***************************************************************************)
EXTENDS Integers, Sequences, FiniteSets

CONSTANTS
  Client,         \* the browsers (EventSource objects)
  BroadcastCap,   \* BROADCAST_CAPACITY
  RingCap,        \* RING_CAPACITY
  Retention,      \* RING_RETENTION, in clock ticks
  MaxId,          \* bound: events published per server incarnation
  MaxTime,        \* bound: clock ticks
  MaxEpoch        \* bound: server incarnations

ASSUME HubAssumption ==
  /\ BroadcastCap \in Nat \ {0}
  /\ RingCap \in Nat \ {0}
  /\ Retention \in Nat
  /\ MaxId \in Nat /\ MaxTime \in Nat /\ MaxEpoch \in Nat

VARIABLES
  now,       \* the clock Instant::now() reads
  epoch,     \* server incarnation; the hub lives in memory only
  nextId,    \* Topic.next_id
  ring,      \* Topic.ring: sequence of [ts, id]
  conn,      \* conn[c]: an SSE response to c is open
  replay,    \* replay[c]: Subscription.replay, the ids not yet streamed
  cursor,    \* cursor[c]: next id the broadcast receiver will read
  lastId,    \* lastId[c]: the Last-Event-ID the browser holds, 0 if none
  lastEpoch, \* history: the incarnation that sent lastId[c]
  stamp,     \* history: stamp[i] is when event i was published
  base,      \* history: the first id owed to this page
  got,       \* history: ids delivered to this page by this incarnation
  lost,      \* history: ids c missed that had left the ring on its return
  reported   \* history: ids c missed under a "lag" event

hubVars    == <<nextId, ring, stamp>>
streamVars == <<conn, replay, cursor>>
pageVars   == <<lastId, lastEpoch, base, got, lost, reported>>
vars       == <<now, epoch, hubVars, streamVars, pageVars>>

Id == 1..MaxId

(***************************************************************************)
(* Topic::evict_old: pop the head while it is older than the retention,    *)
(* then while the ring is over its capacity.                               *)
(***************************************************************************)
Expired(e) == e.ts < now - Retention

(* mutant: the capacity loop is missing *)
MutEvictOldByAgeOnly(r, s) ==
  \E k \in 1..(Len(r) + 1) :
    /\ \A j \in 1..(k - 1) : Expired(r[j])
    /\ k <= Len(r) => ~Expired(r[k])
    /\ s = SubSeq(r, k, Len(r))

(* s is r after the two loops: entry k is the first one kept.              *)
EvictOld(r, s) ==
  \E k \in 1..(Len(r) + 1) :
    /\ \A j \in 1..(k - 1) : Expired(r[j]) \/ Len(r) - j + 1 > RingCap
    /\ k <= Len(r) => ~Expired(r[k]) /\ Len(r) - k + 1 <= RingCap
    /\ s = SubSeq(r, k, Len(r))

RingIds(r) == {r[k].id : k \in 1..Len(r)}

-----------------------------------------------------------------------------
(* mutant: ids start at 0, which a browser cannot tell from "no id" *)
MutInitFromZero ==
  /\ now = 0 /\ epoch = 0 /\ nextId = 0 /\ ring = <<>> /\ stamp = <<>>
  /\ conn = [c \in Client |-> FALSE]
  /\ replay = [c \in Client |-> {}]
  /\ cursor = [c \in Client |-> 0]
  /\ lastId = [c \in Client |-> 0]
  /\ lastEpoch = [c \in Client |-> 0]
  /\ base = [c \in Client |-> 0]
  /\ got = [c \in Client |-> {}]
  /\ lost = [c \in Client |-> {}]
  /\ reported = [c \in Client |-> {}]

Init ==
  /\ now = 0
  /\ epoch = 0
  /\ nextId = 1
  /\ ring = <<>>
  /\ conn = [c \in Client |-> FALSE]
  /\ replay = [c \in Client |-> {}]
  /\ cursor = [c \in Client |-> 1]
  /\ lastId = [c \in Client |-> 0]
  /\ lastEpoch = [c \in Client |-> 0]
  /\ stamp = <<>>
  /\ base = [c \in Client |-> 1]
  /\ got = [c \in Client |-> {}]
  /\ lost = [c \in Client |-> {}]
  /\ reported = [c \in Client |-> {}]

Tick ==
  /\ now < MaxTime
  /\ now' = now + 1
  /\ UNCHANGED <<epoch, hubVars, streamVars, pageVars>>

(***************************************************************************)
(* Hub::publish: stamp the id, push on the ring, evict, broadcast.  The    *)
(* broadcast needs no state of its own: every receiver's window is         *)
(* cursor[c] .. nextId - 1.                                                *)
(***************************************************************************)
Publish ==
  /\ nextId <= MaxId
  /\ nextId' = nextId + 1
  /\ EvictOld(Append(ring, [ts |-> now, id |-> nextId]), ring')
  /\ stamp' = Append(stamp, now)
  /\ UNCHANGED <<now, epoch, streamVars, pageVars>>

(***************************************************************************)
(* Hub::subscribe behind an SSE route: evict, select the replay and take   *)
(* the receiver under one lock.  Without a Last-Event-ID nothing is        *)
(* replayed.                                                               *)
(***************************************************************************)
(* The browser's id was assigned by this incarnation of the server.        *)
Resuming(c) == lastId[c] # 0 /\ lastEpoch[c] = epoch

(* mutants: the filter skips the first missed event, or repeats the last one *)
MutReplaySkipsOne(r, after) == IF after = 0 THEN {} ELSE {i \in RingIds(r) : i > after + 1}
MutReplayRepeatsOne(r, after) == IF after = 0 THEN {} ELSE {i \in RingIds(r) : i >= after}

Replay(r, after) == IF after = 0 THEN {} ELSE {i \in RingIds(r) : i > after}

Subscribe(c) ==
  /\ ~conn[c]
  /\ EvictOld(ring, ring')
  /\ conn' = [conn EXCEPT ![c] = TRUE]
  /\ replay' = [replay EXCEPT ![c] = Replay(ring', lastId[c])]
  /\ cursor' = [cursor EXCEPT ![c] = nextId]
  /\ base' = [base EXCEPT ![c] = IF Resuming(c) THEN @ ELSE nextId]
  /\ lost' = [lost EXCEPT ![c] =
                IF Resuming(c) THEN @ \cup ((lastId[c] + 1)..(nextId - 1) \ RingIds(ring'))
                               ELSE @]
  /\ UNCHANGED <<now, epoch, nextId, stamp, lastId, lastEpoch, got,
                 reported>>

(***************************************************************************)
(* sse_response: the replay is streamed first, in id order, then the       *)
(* broadcast receiver; a lagged receiver yields one "lag" event, which     *)
(* carries no id.                                                          *)
(***************************************************************************)
OldestKept == nextId - BroadcastCap
Lagging(c) == cursor[c] < OldestKept

Deliver(c, i) ==
  /\ lastId' = [lastId EXCEPT ![c] = i]
  /\ lastEpoch' = [lastEpoch EXCEPT ![c] = epoch]
  /\ got' = [got EXCEPT ![c] = @ \cup {i}]

StreamReplay(c) ==
  /\ conn[c]
  /\ \E i \in replay[c] :
       /\ \A j \in replay[c] : i <= j
       /\ replay' = [replay EXCEPT ![c] = @ \ {i}]
       /\ Deliver(c, i)
  /\ UNCHANGED <<now, epoch, hubVars, conn, cursor, base, lost, reported>>

StreamLive(c) ==
  /\ conn[c]
  /\ replay[c] = {}
  /\ ~Lagging(c)
  /\ cursor[c] < nextId
  /\ cursor' = [cursor EXCEPT ![c] = @ + 1]
  /\ Deliver(c, cursor[c])
  /\ UNCHANGED <<now, epoch, hubVars, conn, replay, base, lost, reported>>

(* mutant: a lagging receiver jumps to the live end, past the events kept *)
MutStreamLagToEnd(c) ==
  /\ conn[c]
  /\ replay[c] = {}
  /\ Lagging(c)
  /\ cursor' = [cursor EXCEPT ![c] = nextId]
  /\ reported' = [reported EXCEPT ![c] = @ \cup (cursor[c]..(OldestKept - 1))]
  /\ UNCHANGED <<now, epoch, hubVars, conn, replay, lastId, lastEpoch, base,
                 got, lost>>

StreamLag(c) ==
  /\ conn[c]
  /\ replay[c] = {}
  /\ Lagging(c)
  /\ cursor' = [cursor EXCEPT ![c] = OldestKept]
  /\ reported' = [reported EXCEPT ![c] = @ \cup (cursor[c]..(OldestKept - 1))]
  /\ UNCHANGED <<now, epoch, hubVars, conn, replay, lastId, lastEpoch, base,
                 got, lost>>

(***************************************************************************)
(* The connection breaks: the response future is dropped with its replay   *)
(* and its receiver.  The browser keeps the last id and will reconnect.    *)
(***************************************************************************)
Closed(s) ==
  /\ conn' = [c \in Client |-> conn[c] /\ c \notin s]
  /\ replay' = [c \in Client |-> IF c \in s THEN {} ELSE replay[c]]

Disconnect(c) ==
  /\ conn[c]
  /\ Closed({c})
  /\ UNCHANGED <<now, epoch, hubVars, cursor, lastId, lastEpoch, base, got, lost,
                 reported>>

(* A new page load: a new EventSource, which has no Last-Event-ID.         *)
NewPage(c) ==
  /\ ~conn[c]
  /\ lastId[c] # 0
  /\ lastId' = [lastId EXCEPT ![c] = 0]
  /\ got' = [got EXCEPT ![c] = {}]
  /\ UNCHANGED <<now, epoch, hubVars, streamVars, lastEpoch, base, lost,
                 reported>>

(* The server process restarts: Hub::new() starts every topic afresh, and  *)
(* every connection breaks.                                                *)
Restart ==
  /\ epoch < MaxEpoch
  /\ epoch' = epoch + 1
  /\ nextId' = 1
  /\ ring' = <<>>
  /\ Closed(Client)
  /\ stamp' = <<>>
  /\ got' = [c \in Client |-> {}]
  /\ lost' = [c \in Client |-> {}]
  /\ reported' = [c \in Client |-> {}]
  /\ UNCHANGED <<now, cursor, lastId, lastEpoch, base>>

Stream(c) == StreamReplay(c) \/ StreamLive(c) \/ StreamLag(c)

Next ==
  \/ Tick
  \/ Publish
  \/ Restart
  \/ \E c \in Client : Subscribe(c) \/ Stream(c) \/ Disconnect(c) \/ NewPage(c)

Spec == Init /\ [][Next]_vars

(* hyper polls an open response whenever its socket accepts data.          *)
FairSpec == Spec /\ \A c \in Client : WF_vars(Stream(c))
-----------------------------------------------------------------------------
TypeOK ==
  /\ now \in Nat
  /\ epoch \in Nat
  /\ nextId \in Nat \ {0}
  /\ ring \in Seq([ts : Nat, id : Nat])
  /\ stamp \in Seq(Nat)
  /\ conn \in [Client -> BOOLEAN]
  /\ replay \in [Client -> SUBSET Nat]
  /\ cursor \in [Client -> Nat]
  /\ lastId \in [Client -> Nat]
  /\ lastEpoch \in [Client -> Nat]
  /\ base \in [Client -> Nat]
  /\ got \in [Client -> SUBSET Nat]
  /\ lost \in [Client -> SUBSET Nat]
  /\ reported \in [Client -> SUBSET Nat]

(***************************************************************************)
(* The ring is the tail of what was published, in order, and eviction only *)
(* takes what evict_old may take: an event that is missing from the ring   *)
(* is older than the retention or RingCap newer events follow it.          *)
(***************************************************************************)
HistoryOf(r, st, n, t) ==
  /\ Len(r) < n
  /\ Len(st) = n - 1
  /\ \A k \in 1..Len(r) :
       /\ r[k].id = n - 1 - Len(r) + k
       /\ r[k].ts = st[r[k].id]
  /\ \A i \in 1..(n - 1 - Len(r)) : st[i] < t - Retention \/ i < n - RingCap

RingIsRecentHistory == Len(ring) <= RingCap /\ HistoryOf(ring, stamp, nextId, now)

(***************************************************************************)
(* Across any number of broken connections, lags and evictions, every      *)
(* event a page is owed is accounted for: delivered, waiting in its replay *)
(* or ahead of its receiver, evicted before it came back, or announced as  *)
(* missed by a "lag" event.  A page is owed the events published after its *)
(* stream opened; it keeps that right over a reconnect once it holds a     *)
(* Last-Event-ID of this server incarnation.                               *)
(***************************************************************************)
AccountedFor ==
  \A c \in Client :
    LET settled == got[c] \cup lost[c] \cup reported[c]
        owed    == base[c]..(nextId - 1)
    IN  /\ conn[c] => owed \subseteq settled \cup replay[c] \cup (cursor[c]..(nextId - 1))
        /\ ~conn[c] /\ Resuming(c) =>
              owed \subseteq settled \cup ((lastId[c] + 1)..(nextId - 1))

(***************************************************************************)
(* The "strictly increasing id" of the wire format as a page sees it: one  *)
(* incarnation never sends a page the same id twice or an older id, though *)
(* a reconnect splices a replay in front of the live stream.               *)
(***************************************************************************)
InOrder ==
  [][\A c \in Client :
       Resuming(c) /\ (StreamReplay(c) \/ StreamLive(c)) => lastId'[c] > lastId[c]]_vars

(***************************************************************************)
(* A page that stays connected gets, or is told it missed, every event     *)
(* that was published for it.                                              *)
(***************************************************************************)
EventuallySettled ==
  \A c \in Client, i \in Id :
    (conn[c] /\ base[c] <= i /\ i < nextId) ~>
      (i \in got[c] \cup lost[c] \cup reported[c] \/ ~conn[c])
=============================================================================
