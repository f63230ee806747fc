----------------------------- MODULE RunnerRpc -----------------------------
(***************************************************************************)
(* The runner's RPC client (client.rs) against the in-process registry     *)
(* (registry.rs), fed by RpcRunnerSink (sink.rs), which spawns one task    *)
(* per event, and read by the console's forwarder.                         *)
(*                                                                         *)
(* Event e is the e-th event submitted.  A session is the pair of channels *)
(* one Registry::register call creates; sessions are numbered in creation  *)
(* order and a session number stands for the runner id too.  A send task   *)
(* that fails spawns a reconnect task, so reconnect tasks are named by the *)
(* event that spawned them; HB is the heartbeat's.  Each parking_lot lock  *)
(* is taken and released within a step, each .await is a step boundary.    *)
(***************************************************************************)
EXTENDS Integers, Sequences, FiniteSets, SequencesExt, FiniteSetsExt

CONSTANTS
  N,          \* bound: events submitted
  MaxSess,    \* bound: sessions opened (one less when a heartbeat runs)
  ChanCap,    \* mpsc::channel(256)
  BufferCap,  \* ClientConfig.buffer_size
  MaxClose,   \* bound: times the console forgets a runner or stops a forwarder
  AwaitSends, \* TRUE: a caller registers and awaits each send_event itself;
              \* FALSE: the sink spawns them, perhaps before register()
  Beating     \* whether spawn_heartbeat was called: what is possible

Event == 1..N
HB    == 0
Task  == Event \cup {HB}
Sess  == 1..MaxSess
None  == 0

ASSUME RpcAssumption ==
  /\ N \in Nat /\ MaxSess \in Nat
  /\ ChanCap \in Nat \ {0} /\ BufferCap \in Nat \ {0} /\ MaxClose \in Nat
  /\ AwaitSends \in BOOLEAN /\ Beating \subseteq BOOLEAN

VARIABLES
  beating,     \* spawn_heartbeat was called
  submitted,   \* number of events given to the sink
  sendPc,      \* sendPc[e]: where the send_event task of e is
  sendTx,      \* sendTx[e]: the events_tx it cloned
  recPc,       \* recPc[t]: where the try_reconnect task t is
  recSess,     \* recSess[t]: the session t opened
  recTx,       \* recTx[t]: the events_tx it flushes to
  batch,       \* batch[t]: the drained events it has yet to send
  regPc,       \* progress of the caller's register()
  request,     \* register_request is set
  runnerId,    \* runner_id
  tx,          \* events_tx
  buffer,      \* EventBuffer.queue
  nSess,       \* sessions opened so far
  entry,       \* the registry's map: sessions with a RunnerEntry
  rx,          \* rx[s]: who owns the events receiver of s
  chan,        \* chan[s]: events in the channel of s
  cmdRx,       \* cmdRx[s]: the commands receiver of s is alive
  closes,      \* counts Forget and ForwarderStops, for the bound
  delivered,   \* history: how often the console received each event
  dropped,     \* history: events the buffer dropped
  lost         \* history: events that died with a session

clientVars  == <<request, runnerId, tx, buffer>>
sendVars    == <<submitted, sendPc, sendTx>>
recVars     == <<recPc, recSess, recTx, batch>>
sessVars    == <<nSess, entry, rx, chan, cmdRx, closes>>
historyVars == <<delivered, dropped, lost>>
vars == <<beating, regPc, clientVars, sendVars, recVars, sessVars, historyVars>>

Closed(s) == rx[s] = "dropped"

Init ==
  /\ beating \in Beating
  /\ submitted = 0
  /\ sendPc = [e \in Event |-> "idle"]
  /\ sendTx = [e \in Event |-> None]
  /\ recPc = [t \in Task |-> "idle"]
  /\ recSess = [t \in Task |-> None]
  /\ recTx = [t \in Task |-> None]
  /\ batch = [t \in Task |-> <<>>]
  /\ regPc = "idle"
  /\ request = FALSE
  /\ runnerId = None
  /\ tx = None
  /\ buffer = <<>>
  /\ nSess = 0
  /\ entry = {}
  /\ rx = [s \in Sess |-> "none"]
  /\ chan = [s \in Sess |-> <<>>]
  /\ cmdRx = [s \in Sess |-> FALSE]
  /\ closes = 0
  /\ delivered = [e \in Event |-> 0]
  /\ dropped = {}
  /\ lost = {}

-----------------------------------------------------------------------------
(* Registry::register: a fresh id, both channels, an entry that holds the  *)
(* events receiver.                                                        *)
OpenSession ==
  LET s == nSess + 1 IN
  /\ nSess < IF beating THEN MaxSess - 1 ELSE MaxSess
  /\ nSess' = s
  /\ entry' = entry \cup {s}
  /\ rx' = [rx EXCEPT ![s] = "held"]
  /\ cmdRx' = [cmdRx EXCEPT ![s] = TRUE]
  /\ UNCHANGED <<beating, chan, closes>>

(* RunnerClient::register, called once by the runner's main code, which    *)
(* keeps the returned session.                                             *)
RegisterOpen ==
  /\ regPc = "idle"
  /\ OpenSession
  /\ runnerId' = nSess'
  /\ request' = TRUE
  /\ regPc' = "opened"
  /\ UNCHANGED <<beating, tx, buffer, sendVars, recVars, historyVars>>

RegisterPublish ==
  /\ regPc = "opened"
  /\ tx' = 1
  /\ regPc' = "done"
  /\ UNCHANGED <<beating, request, runnerId, buffer, sendVars, recVars, sessVars, historyVars>>

InTask == {e \in Event : sendPc[e] \in {"ready", "sending", "failed"}}

(* RpcRunnerSink::submit spawns a send_event task for the next event; a    *)
(* caller that drives the client itself awaits each one.                   *)
Submit ==
  /\ submitted < N
  /\ AwaitSends => regPc = "done" /\ InTask = {}
  /\ submitted' = submitted + 1
  /\ sendPc' = [sendPc EXCEPT ![submitted'] = "ready"]
  /\ UNCHANGED <<beating, regPc, clientVars, sendTx, recVars, sessVars, historyVars>>

(* send_event: clone events_tx, release the lock, then await the send.     *)
SendClone(e) ==
  /\ sendPc[e] = "ready"
  /\ sendTx' = [sendTx EXCEPT ![e] = tx]
  /\ sendPc' = [sendPc EXCEPT ![e] = IF tx = None THEN "failed" ELSE "sending"]
  /\ UNCHANGED <<beating, regPc, clientVars, submitted, recVars, sessVars, historyVars>>

SendOk(e) ==
  LET s == sendTx[e] IN
  /\ sendPc[e] = "sending"
  /\ ~Closed(s)
  /\ Len(chan[s]) < ChanCap
  /\ chan' = [chan EXCEPT ![s] = Append(@, e)]
  /\ sendPc' = [sendPc EXCEPT ![e] = "done"]
  /\ sendTx' = [sendTx EXCEPT ![e] = None]
  /\ UNCHANGED <<beating, regPc, clientVars, submitted, recVars, nSess, entry, rx, cmdRx, closes,
                 historyVars>>

SendErr(e) ==
  /\ sendPc[e] = "sending"
  /\ Closed(sendTx[e])
  /\ sendPc' = [sendPc EXCEPT ![e] = "failed"]
  /\ sendTx' = [sendTx EXCEPT ![e] = None]
  /\ UNCHANGED <<beating, regPc, clientVars, submitted, recVars, sessVars, historyVars>>

(* EventBuffer::push: drop the oldest at the bound.                        *)
Full == Len(buffer) >= BufferCap
Push(e) ==
  /\ buffer' = Append(IF Full THEN Tail(buffer) ELSE buffer, e)
  /\ dropped' = IF Full THEN dropped \cup {Head(buffer)} ELSE dropped

(* mutant: the event is buffered but nobody is told to reconnect *)
MutBufferOnly(e) ==
  /\ sendPc[e] = "failed"
  /\ Push(e)
  /\ sendPc' = [sendPc EXCEPT ![e] = "done"]
  /\ UNCHANGED <<beating, regPc, request, runnerId, tx, submitted, sendTx, recVars, sessVars,
                 delivered, lost>>

(* buffer_and_signal_disconnect: push, then spawn try_reconnect.           *)
BufferAndSignalDisconnect(e) ==
  /\ sendPc[e] = "failed"
  /\ Push(e)
  /\ sendPc' = [sendPc EXCEPT ![e] = "done"]
  /\ recPc' = [recPc EXCEPT ![e] = "start"]
  /\ UNCHANGED <<beating, regPc, request, runnerId, tx, submitted, sendTx, recSess, recTx, batch,
                 sessVars, delivered, lost>>

-----------------------------------------------------------------------------
(* spawn_heartbeat: a tick that finds no events_tx reconnects.             *)
Heartbeat ==
  /\ beating
  /\ recPc[HB] \in {"idle", "end"}
  /\ tx = None
  /\ request
  /\ recPc' = [recPc EXCEPT ![HB] = "start"]
  /\ UNCHANGED <<beating, regPc, clientVars, sendVars, recSess, recTx, batch, sessVars, historyVars>>

(* try_reconnect: without a register_request it gives up ...               *)
RecGiveUp(t) ==
  /\ recPc[t] = "start"
  /\ ~request
  /\ recPc' = [recPc EXCEPT ![t] = "end"]
  /\ UNCHANGED <<beating, regPc, clientVars, sendVars, recSess, recTx, batch, sessVars, historyVars>>

(* ... else it opens a session, publishes its id, then its events_tx, ...  *)
RecOpen(t) ==
  /\ recPc[t] = "start"
  /\ request
  /\ OpenSession
  /\ recSess' = [recSess EXCEPT ![t] = nSess']
  /\ recPc' = [recPc EXCEPT ![t] = "opened"]
  /\ UNCHANGED <<beating, regPc, clientVars, sendVars, recTx, batch, historyVars>>

RecSetId(t) ==
  /\ recPc[t] = "opened"
  /\ runnerId' = recSess[t]
  /\ recPc' = [recPc EXCEPT ![t] = "named"]
  /\ UNCHANGED <<beating, regPc, request, tx, buffer, sendVars, recSess, recTx, batch, sessVars,
                 historyVars>>

RecSetTx(t) ==
  /\ recPc[t] = "named"
  /\ tx' = recSess[t]
  /\ recPc' = [recPc EXCEPT ![t] = "live"]
  /\ UNCHANGED <<beating, regPc, request, runnerId, buffer, sendVars, recSess, recTx, batch, sessVars,
                 historyVars>>

(* mutant: the buffer is copied, not drained *)
MutRecDrainCopies(t) ==
  /\ recPc[t] = "live"
  /\ batch' = [batch EXCEPT ![t] = buffer]
  /\ recPc' = [recPc EXCEPT ![t] = "drained"]
  /\ UNCHANGED <<beating, regPc, clientVars, sendVars, recSess, recTx, sessVars, historyVars>>

(* ... drains the buffer, and only then reads events_tx again, ...         *)
RecDrain(t) ==
  /\ recPc[t] = "live"
  /\ batch' = [batch EXCEPT ![t] = buffer]
  /\ buffer' = <<>>
  /\ recPc' = [recPc EXCEPT ![t] = "drained"]
  /\ UNCHANGED <<beating, regPc, request, runnerId, tx, sendVars, recSess, recTx, sessVars, historyVars>>

RecReadTx(t) ==
  /\ recPc[t] = "drained"
  /\ recTx' = [recTx EXCEPT ![t] = tx]
  /\ recPc' = [recPc EXCEPT ![t] = "flushing"]
  /\ UNCHANGED <<beating, regPc, clientVars, sendVars, recSess, batch, sessVars, historyVars>>

(* ... and sends the drained events one by one, ignoring a closed channel. *)
RecFlush(t) ==
  LET s == recTx[t]
      e == Head(batch[t])
  IN
  /\ recPc[t] = "flushing"
  /\ batch[t] # <<>>
  /\ batch' = [batch EXCEPT ![t] = Tail(@)]
  /\ \/ /\ ~Closed(s)
        /\ Len(chan[s]) < ChanCap
        /\ chan' = [chan EXCEPT ![s] = Append(@, e)]
        /\ UNCHANGED lost
     \/ /\ Closed(s)
        /\ lost' = lost \cup {e}
        /\ UNCHANGED chan
  /\ UNCHANGED <<beating, regPc, clientVars, sendVars, recPc, recSess, recTx, nSess, entry, rx, cmdRx, closes,
                 delivered, dropped>>

(* On return the local RunnerSession goes out of scope: its commands       *)
(* receiver is dropped; its events sender lives on as events_tx.           *)
RecEnd(t) ==
  /\ recPc[t] = "flushing"
  /\ batch[t] = <<>>
  /\ cmdRx' = [cmdRx EXCEPT ![recSess[t]] = FALSE]
  /\ recPc' = [recPc EXCEPT ![t] = "end"]
  /\ recSess' = [recSess EXCEPT ![t] = None]
  /\ recTx' = [recTx EXCEPT ![t] = None]
  /\ UNCHANGED <<beating, regPc, clientVars, sendVars, batch, nSess, entry, rx, chan,
                 closes, historyVars>>

-----------------------------------------------------------------------------
(* The console side: take_events_rx, the forwarder's recv loop, a          *)
(* forwarder that stops, and Registry::forget.                             *)
TakeEventsRx(s) ==
  /\ s \in entry
  /\ rx[s] = "held"
  /\ rx' = [rx EXCEPT ![s] = "taken"]
  /\ UNCHANGED <<beating, regPc, clientVars, sendVars, recVars, nSess, entry, chan, cmdRx, closes,
                 historyVars>>

Recv(s) ==
  /\ rx[s] = "taken"
  /\ chan[s] # <<>>
  /\ delivered' = [delivered EXCEPT ![Head(chan[s])] = @ + 1]
  /\ chan' = [chan EXCEPT ![s] = Tail(@)]
  /\ UNCHANGED <<beating, regPc, clientVars, sendVars, recVars, nSess, entry, rx, cmdRx, closes, dropped, lost>>

Close ==
  /\ closes < MaxClose
  /\ closes' = closes + 1

DropRx(s) ==
  /\ rx' = [rx EXCEPT ![s] = "dropped"]
  /\ chan' = [chan EXCEPT ![s] = <<>>]
  /\ lost' = lost \cup ToSet(chan[s])

ForwarderStops(s) ==
  /\ rx[s] = "taken"
  /\ Close
  /\ DropRx(s)
  /\ UNCHANGED <<beating, regPc, clientVars, sendVars, recVars, nSess, entry, cmdRx, delivered, dropped>>

Forget(s) ==
  /\ s \in entry
  /\ Close
  /\ entry' = entry \ {s}
  /\ IF rx[s] = "held" THEN DropRx(s) ELSE UNCHANGED <<beating, rx, chan, lost>>
  /\ UNCHANGED <<beating, regPc, clientVars, sendVars, recVars, nSess, cmdRx, delivered, dropped>>

-----------------------------------------------------------------------------
Send(e) == SendClone(e) \/ SendOk(e) \/ SendErr(e) \/ BufferAndSignalDisconnect(e)

TryReconnect(t) ==
  RecGiveUp(t) \/ RecOpen(t) \/ RecSetId(t) \/ RecSetTx(t) \/ RecDrain(t) \/ RecReadTx(t)
    \/ RecFlush(t) \/ RecEnd(t)

Next ==
  \/ RegisterOpen \/ RegisterPublish
  \/ Submit
  \/ \E e \in Event : Send(e)
  \/ Heartbeat
  \/ \E t \in Task : TryReconnect(t)
  \/ \E s \in Sess : TakeEventsRx(s) \/ Recv(s) \/ ForwarderStops(s) \/ Forget(s)

Spec == Init /\ [][Next]_vars

(* tokio runs every spawned task; the console's forwarder takes each       *)
(* session's receiver and keeps reading it; register() returns.            *)
FairSpec ==
  /\ Spec
  /\ WF_vars(RegisterPublish)
  /\ \A e \in Event : WF_vars(Send(e))
  /\ \A t \in Task : WF_vars(TryReconnect(t))
  /\ \A s \in Sess : WF_vars(TakeEventsRx(s)) /\ WF_vars(Recv(s))

-----------------------------------------------------------------------------
(* The places an event can be in: the drained batches and the channels are *)
(* one place per reconnect task and one per session.                       *)
Place ==
  ({"task", "buffer", "received", "dropped", "lost"} \X {None})
    \cup ({"drained"} \X Task) \cup ({"channel"} \X Sess)

Received == {e \in Event : delivered[e] > 0}

Held(p) ==
  CASE p[1] = "task"     -> InTask
    [] p[1] = "buffer"   -> ToSet(buffer)
    [] p[1] = "received" -> Received
    [] p[1] = "dropped"  -> dropped
    [] p[1] = "lost"     -> lost
    [] p[1] = "drained"  -> ToSet(batch[p[2]])
    [] p[1] = "channel"  -> ToSet(chan[p[2]])

PlacesOf(e) == {p \in Place : e \in Held(p)}

(***************************************************************************)
(* Whatever sends, reconnects, heartbeats and console steps interleave,    *)
(* every submitted event is in exactly one place: held by its send task,   *)
(* buffered, drained by one reconnect, in one channel, received once,      *)
(* dropped by the full buffer, or gone with a session the console closed;  *)
(* no queue holds it twice, and the bounded ones hold no more than they    *)
(* may.                                                                    *)
(***************************************************************************)
ExactlyOnePlace ==
  /\ \A e \in Event :
       IF e <= submitted THEN \E p \in Place : PlacesOf(e) = {p} ELSE PlacesOf(e) = {}
  /\ IsInjective(buffer) /\ Len(buffer) <= BufferCap
  /\ \A t \in Task : IsInjective(batch[t])
  /\ \A s \in Sess : IsInjective(chan[s]) /\ Len(chan[s]) <= ChanCap
  /\ \A e \in Event : delivered[e] <= 1

(***************************************************************************)
(* Auto-reconnect does its job: an event submitted by a registered client  *)
(* reaches the console, unless the buffer overflowed or a session the      *)
(* console closed took it along.                                           *)
(***************************************************************************)
EventuallySettled ==
  \A e \in Event :
    (~beating /\ request /\ sendPc[e] = "ready") ~>
      (e \in Received \cup dropped \cup lost)

(***************************************************************************)
(* client.rs on send_event: "If we're disconnected the event is buffered;  *)
(* reconnect drains the buffer first."  A live send gets through only when *)
(* no event of an earlier disconnect is waiting to be re-sent.             *)
(***************************************************************************)
DrainedFirst ==
  [][\A e \in Event :
       SendOk(e) => /\ \A f \in ToSet(buffer) : f > e
                    /\ \A t \in Task, f \in Event : f \in ToSet(batch[t]) => f > e]_vars
=============================================================================
