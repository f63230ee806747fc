-------------------------- MODULE RunnerRpc_proofs --------------------------
(***************************************************************************)
(* For every number of events and sessions, every channel and buffer bound *)
(* and every interleaving: each submitted event is in exactly one place.   *)
(***************************************************************************)
EXTENDS RunnerRpc, SequenceTheorems, TLAPS

RpcTypes ==
  /\ beating \in BOOLEAN /\ request \in BOOLEAN
  /\ submitted \in 0 .. N
  /\ sendPc \in [Event -> {"idle", "ready", "sending", "failed", "done"}]
  /\ sendTx \in [Event -> Sess \cup {None}]
  /\ recPc \in [Task -> {"idle", "start", "opened", "named", "live", "drained", "flushing", "end"}]
  /\ recSess \in [Task -> Sess \cup {None}] /\ recTx \in [Task -> Sess \cup {None}]
  /\ batch \in [Task -> Seq(Event)]
  /\ regPc \in {"idle", "opened", "done"}
  /\ runnerId \in Sess \cup {None} /\ tx \in Sess \cup {None}
  /\ buffer \in Seq(Event)
  /\ nSess \in 0 .. MaxSess /\ entry \subseteq Sess
  /\ rx \in [Sess -> {"none", "held", "taken", "dropped"}]
  /\ chan \in [Sess -> Seq(Event)]
  /\ cmdRx \in [Sess -> BOOLEAN]
  /\ closes \in 0 .. MaxClose
  /\ delivered \in [Event -> Nat]
  /\ dropped \subseteq Event /\ lost \subseteq Event

(* What a task's program counter says of the sender it cloned, the session *)
(* it opened and the events it drained.                                    *)
Locals ==
  /\ regPc = "opened" => nSess >= 1
  /\ \A e \in Event : e > submitted => sendPc[e] = "idle"
  /\ \A e \in Event : sendPc[e] = "sending" => sendTx[e] \in Sess
  /\ \A e \in Event : sendPc[e] # "done" => recPc[e] = "idle"
  /\ \A t \in Task :
       /\ recPc[t] \in {"opened", "named", "live", "drained", "flushing"} => recSess[t] \in Sess
       /\ recPc[t] \in {"live", "drained"} => tx \in Sess
       /\ recPc[t] = "flushing" => recTx[t] \in Sess
       /\ recPc[t] \notin {"drained", "flushing"} => batch[t] = <<>>

RpcInv == RpcTypes /\ Locals /\ ExactlyOnePlace

-----------------------------------------------------------------------------
LEMMA AppendedEvents ==
  ASSUME NEW s \in Seq(Event), NEW e \in Event
  PROVE  /\ Append(s, e) \in Seq(Event) /\ Len(Append(s, e)) = Len(s) + 1
         /\ ToSet(Append(s, e)) = ToSet(s) \cup {e}
         /\ IsInjective(s) /\ e \notin ToSet(s) => IsInjective(Append(s, e))
  <1>1. /\ Append(s, e) \in Seq(Event) /\ Len(Append(s, e)) = Len(s) + 1
        /\ DOMAIN Append(s, e) = 1 .. Len(s) + 1 /\ DOMAIN s = 1 .. Len(s) /\ Len(s) \in Nat
        /\ \A i \in 1 .. Len(s) : Append(s, e)[i] = s[i]
        /\ Append(s, e)[Len(s) + 1] = e
    BY AppendProperties, LenProperties
  <1>2. ToSet(Append(s, e)) = ToSet(s) \cup {e}
    BY <1>1 DEF ToSet
  <1>3. IsInjective(s) /\ e \notin ToSet(s) => IsInjective(Append(s, e))
    BY <1>1 DEF ToSet, IsInjective
  <1> QED
    BY <1>1, <1>2, <1>3

LEMMA RemainingEvents ==
  ASSUME NEW s \in Seq(Event), s # <<>>, IsInjective(s)
  PROVE  /\ Head(s) \in Event /\ Head(s) \in ToSet(s)
         /\ Tail(s) \in Seq(Event) /\ Len(Tail(s)) = Len(s) - 1
         /\ ToSet(Tail(s)) = ToSet(s) \ {Head(s)}
         /\ IsInjective(Tail(s))
  <1>1. /\ Len(s) \in Nat \ {0} /\ DOMAIN s = 1 .. Len(s) /\ Head(s) = s[1] /\ s[1] \in Event
        /\ Tail(s) \in Seq(Event) /\ Len(Tail(s)) = Len(s) - 1
        /\ DOMAIN Tail(s) = 1 .. Len(s) - 1
        /\ \A i \in 1 .. Len(s) - 1 : Tail(s)[i] = s[i + 1]
    BY HeadTailProperties, EmptySeq, LenProperties, ElementOfSeq
  <1>2. ToSet(Tail(s)) = ToSet(s) \ {Head(s)}
    <2>1. ASSUME NEW x \in ToSet(Tail(s)) PROVE x \in ToSet(s) /\ x # Head(s)
      <3>1. PICK i \in 1 .. Len(s) - 1 : x = s[i + 1]
        BY <1>1, <2>1 DEF ToSet
      <3> QED
        BY <1>1, <3>1 DEF ToSet, IsInjective
    <2>2. ASSUME NEW x \in ToSet(s), x # Head(s) PROVE x \in ToSet(Tail(s))
      <3>1. PICK i \in 1 .. Len(s) : x = s[i] /\ i # 1
        BY <1>1, <2>2 DEF ToSet
      <3>2. i - 1 \in 1 .. Len(s) - 1 /\ Tail(s)[i - 1] = s[i]
        BY <1>1, <3>1
      <3> QED
        BY <1>1, <3>1, <3>2 DEF ToSet
    <2> QED
      BY <2>1, <2>2
  <1>3. IsInjective(Tail(s))
    BY <1>1 DEF IsInjective
  <1> QED
    BY <1>1, <1>2, <1>3 DEF ToSet

LEMMA EmptyEvents == ToSet(<<>>) = {} /\ IsInjective(<<>>) /\ <<>> \in Seq(Event) /\ Len(<<>>) = 0
  BY DEF ToSet, IsInjective

(* The sets behind the places, before and after a step.                    *)
HeldSets ==
  /\ Held(<<"task", None>>) = InTask
  /\ Held(<<"buffer", None>>) = ToSet(buffer)
  /\ Held(<<"received", None>>) = Received
  /\ Held(<<"dropped", None>>) = dropped
  /\ Held(<<"lost", None>>) = lost
  /\ \A t \in Task : Held(<<"drained", t>>) = ToSet(batch[t])
  /\ \A s \in Sess : Held(<<"channel", s>>) = ToSet(chan[s])

LEMMA HeldAt == HeldSets /\ HeldSets'
  <1>1. HeldSets
    BY DEF HeldSets, Held
  <1> QED
    BY <1>1, PTL

LEMMA Places ==
  /\ {"task", "buffer", "received", "dropped", "lost"} \X {None} \subseteq Place
  /\ \A k \in {"task", "buffer", "received", "dropped", "lost"} : <<k, None>> \in Place
  /\ \A t \in Task : <<"drained", t>> \in Place
  /\ \A s \in Sess : <<"channel", s>> \in Place
  BY DEF Place

(* There are no other places.                                              *)
LEMMA PlaceCases ==
  ASSUME NEW p \in Place
  PROVE  \/ p \in {<<"task", None>>, <<"buffer", None>>, <<"received", None>>, <<"dropped", None>>,
                   <<"lost", None>>}
         \/ \E t \in Task : p = <<"drained", t>>
         \/ \E s \in Sess : p = <<"channel", s>>
  BY DEF Place

(* A place is left alone when the set behind it is.                        *)
LEMMA Untouched ==
  ASSUME NEW p \in Place,
         p = <<"task", None>> => InTask' = InTask,
         p = <<"buffer", None>> => buffer' = buffer,
         p = <<"received", None>> => delivered' = delivered,
         p = <<"dropped", None>> => dropped' = dropped,
         p = <<"lost", None>> => lost' = lost,
         \A t \in Task : p = <<"drained", t>> => batch'[t] = batch[t],
         \A s \in Sess : p = <<"channel", s>> => chan'[s] = chan[s]
  PROVE  Held(p)' = Held(p)
  <1>1. CASE p \in {<<"task", None>>, <<"buffer", None>>, <<"received", None>>, <<"dropped", None>>,
                    <<"lost", None>>}
    BY <1>1, HeldAt DEF HeldSets, Received
  <1>2. ASSUME NEW t \in Task, p = <<"drained", t>> PROVE Held(p)' = Held(p)
    <2>1. Held(<<"drained", t>>)' = ToSet(batch'[t]) /\ Held(<<"drained", t>>) = ToSet(batch[t])
      BY HeldAt DEF HeldSets
    <2> QED
      BY <1>2, <2>1
  <1>3. ASSUME NEW s \in Sess, p = <<"channel", s>> PROVE Held(p)' = Held(p)
    <2>1. Held(<<"channel", s>>)' = ToSet(chan'[s]) /\ Held(<<"channel", s>>) = ToSet(chan[s])
      BY HeldAt DEF HeldSets
    <2> QED
      BY <1>3, <2>1
  <1> QED
    BY <1>1, <1>2, <1>3, PlaceCases

OnePlace ==
  \A e \in Event :
    IF e <= submitted THEN \E p \in Place : PlacesOf(e) = {p} ELSE PlacesOf(e) = {}

Queues ==
  /\ IsInjective(buffer) /\ Len(buffer) <= BufferCap
  /\ \A t \in Task : IsInjective(batch[t])
  /\ \A s \in Sess : IsInjective(chan[s]) /\ Len(chan[s]) <= ChanCap
  /\ \A e \in Event : delivered[e] <= 1

(* An event that is in two places is in one place twice.                   *)
LEMMA OnlyPlace ==
  ASSUME OnePlace, NEW e \in Event, NEW a \in Place, NEW b \in Place, a # b, e \in Held(a)
  PROVE  e <= submitted /\ e \notin Held(b)
  <1>1. a \in PlacesOf(e)
    BY DEF PlacesOf
  <1>2. e <= submitted /\ PlacesOf(e) = {a}
    BY <1>1 DEF OnePlace
  <1> QED
    BY <1>2 DEF PlacesOf

LEMMA NothingMoved ==
  ASSUME ExactlyOnePlace, InTask' = InTask,
         UNCHANGED <<submitted, buffer, batch, chan, delivered, dropped, lost>>
  PROVE  ExactlyOnePlace'
  BY DEF ExactlyOnePlace, PlacesOf, Held, Received, Place

(* Events that go from one place to another, all others staying, are still *)
(* in exactly one place.                                                   *)
LEMMA MovedEvents ==
  ASSUME OnePlace, submitted' = submitted,
         NEW a \in Place, NEW b \in Place, a # b, NEW X, X \subseteq Held(a),
         Held(a)' = Held(a) \ X, Held(b)' = Held(b) \cup X,
         \A p \in Place \ {a, b} : Held(p)' = Held(p)
  PROVE  OnePlace'
  <1> SUFFICES ASSUME NEW e \in Event
               PROVE  IF e <= submitted THEN \E p \in Place : PlacesOf(e)' = {p}
                                        ELSE PlacesOf(e)' = {}
    BY DEF OnePlace
  <1>1. PlacesOf(e)' = {p \in Place : e \in Held(p)'} /\ PlacesOf(e) = {p \in Place : e \in Held(p)}
    BY DEF PlacesOf, Place, Task, Event, Sess, None, HB
  <1>2. CASE e \in X
    <2>1. a \in PlacesOf(e)
      BY <1>1, <1>2
    <2>2. e <= submitted /\ PlacesOf(e) = {a}
      BY <2>1 DEF OnePlace
    <2>3. PlacesOf(e)' = {b}
      BY <1>1, <1>2, <2>2
    <2> QED
      BY <2>2, <2>3
  <1>3. CASE e \notin X
    <2>1. PlacesOf(e)' = PlacesOf(e)
      BY <1>1, <1>3
    <2> QED
      BY <2>1 DEF OnePlace
  <1> QED
    BY <1>2, <1>3

-----------------------------------------------------------------------------
LEMMA RpcInvInit == Init => RpcInv
  <1> SUFFICES ASSUME Init PROVE RpcInv
    OBVIOUS
  <1>1. RpcTypes
    <2>1. beating \in BOOLEAN /\ request \in BOOLEAN
      BY RpcAssumption DEF Init
    <2>2. cmdRx \in [Sess -> BOOLEAN]
      BY DEF Init
    <2> QED
      BY <2>1, <2>2, RpcAssumption, EmptyEvents DEF Init, RpcTypes, None
  <1>2. Locals
    BY DEF Init, Locals, Task
  <1>3. ASSUME NEW p \in Place PROVE Held(p) = {}
    <2>1. InTask = {} /\ Received = {} /\ ToSet(buffer) = {} /\ dropped = {} /\ lost = {}
      BY EmptyEvents DEF Init, InTask, Received
    <2>2. \A t \in Task : ToSet(batch[t]) = {}
      BY EmptyEvents DEF Init
    <2>3. \A s \in Sess : ToSet(chan[s]) = {}
      BY EmptyEvents DEF Init
    <2> QED
      BY <2>1, <2>2, <2>3, PlaceCases, HeldAt, Places DEF HeldSets
  <1>4. \A e \in Event : PlacesOf(e) = {} /\ ~(e <= submitted)
    BY <1>3, RpcAssumption DEF PlacesOf, Init, Event
  <1>5. ExactlyOnePlace
    <2>1. IsInjective(buffer) /\ Len(buffer) <= BufferCap
      BY EmptyEvents, RpcAssumption DEF Init
    <2>2. \A t \in Task : IsInjective(batch[t])
      BY EmptyEvents DEF Init
    <2>3. \A s \in Sess : IsInjective(chan[s]) /\ Len(chan[s]) <= ChanCap
      BY EmptyEvents, RpcAssumption DEF Init
    <2>4. \A e \in Event : delivered[e] <= 1
      BY DEF Init
    <2> QED
      BY <1>4, <2>1, <2>2, <2>3, <2>4 DEF ExactlyOnePlace
  <1> QED
    BY <1>1, <1>2, <1>5 DEF RpcInv

(* A session is opened within the bound, and its number is new.            *)
LEMMA Opened ==
  ASSUME RpcTypes, OpenSession
  PROVE  /\ nSess' \in Sess /\ nSess' = nSess + 1 /\ nSess' \in 0 .. MaxSess /\ nSess' >= 1
         /\ entry' \subseteq Sess
         /\ rx' \in [Sess -> {"none", "held", "taken", "dropped"}]
         /\ cmdRx' \in [Sess -> BOOLEAN]
         /\ UNCHANGED <<chan, closes>>
  <1>1. nSess \in Nat /\ MaxSess \in Nat /\ nSess + 1 <= MaxSess
    BY RpcAssumption DEF RpcTypes, OpenSession
  <1>2. nSess' = nSess + 1 /\ nSess + 1 \in Sess
    BY <1>1 DEF OpenSession, Sess
  <1>3. cmdRx' \in [Sess -> BOOLEAN]
    BY DEF OpenSession, RpcTypes
  <1> QED
    BY <1>1, <1>2, <1>3 DEF OpenSession, RpcTypes

(* The types and the locals, action by action.                             *)
LEMMA LocalsStep == RpcInv /\ [Next]_vars => RpcTypes' /\ Locals'
  <1> SUFFICES ASSUME RpcTypes, Locals, ExactlyOnePlace, [Next]_vars PROVE RpcTypes' /\ Locals'
    BY DEF RpcInv
  <1>0. Event \subseteq Task /\ HB \in Task /\ HB \notin Event /\ None \notin Sess
    BY RpcAssumption DEF Task, HB, Event, None, Sess
  <1> USE RpcAssumption
  <1>1. CASE RegisterOpen
    <2>1. OpenSession /\ request' = TRUE /\ runnerId' = nSess' /\ regPc' = "opened"
          /\ UNCHANGED <<beating, tx, buffer, sendVars, recVars, historyVars>>
      BY <1>1 DEF RegisterOpen
    <2> QED
      BY <2>1, Opened DEF RpcTypes, Locals, sendVars, recVars, historyVars
  <1>2. CASE RegisterPublish
    <2>1. 1 \in Sess
      BY <1>2 DEF RegisterPublish, Locals, RpcTypes, Sess
    <2> QED
      BY <1>2, <2>1 DEF RegisterPublish, RpcTypes, Locals, sendVars, recVars, sessVars, historyVars
  <1>3. CASE Submit
    <2>1. submitted + 1 \in Event /\ submitted + 1 \in 0 .. N
      BY <1>3 DEF Submit, RpcTypes, Event
    <2>2. /\ submitted' = submitted + 1 /\ sendPc' = [sendPc EXCEPT ![submitted + 1] = "ready"]
          /\ UNCHANGED <<beating, regPc, clientVars, sendTx, recVars, sessVars, historyVars>>
      BY <1>3 DEF Submit
    <2>3. sendPc[submitted + 1] = "idle"
      <3>1. submitted + 1 > submitted
        BY DEF RpcTypes
      <3> QED
        BY <2>1, <3>1 DEF Locals
    <2>4. \A e \in Event : e # submitted + 1 => sendPc'[e] = sendPc[e]
      BY <2>2 DEF RpcTypes
    <2>5. RpcTypes'
      BY <2>1, <2>2 DEF RpcTypes, clientVars, recVars, sessVars, historyVars
    <2>6. \A e \in Event : e > submitted + 1 => e > submitted /\ e # submitted + 1
      BY DEF RpcTypes, Event
    <2> QED
      BY <2>1, <2>2, <2>3, <2>4, <2>5, <2>6
         DEF RpcTypes, Locals, clientVars, recVars, sessVars, historyVars
  <1>4. ASSUME NEW e \in Event, Send(e) PROVE RpcTypes' /\ Locals'
    <2>1. CASE SendClone(e)
      BY <2>1 DEF SendClone, RpcTypes, Locals, clientVars, recVars, sessVars, historyVars
    <2>2. CASE SendOk(e)
      <3>1. sendTx[e] \in Sess
        BY <2>2 DEF SendOk, Locals
      <3>2. chan' \in [Sess -> Seq(Event)]
        BY <2>2, <3>1, AppendedEvents DEF SendOk, RpcTypes
      <3> QED
        BY <2>2, <3>2 DEF SendOk, RpcTypes, Locals, clientVars, recVars, historyVars
    <2>3. CASE SendErr(e)
      BY <2>3 DEF SendErr, RpcTypes, Locals, clientVars, recVars, sessVars, historyVars
    <2>4. CASE BufferAndSignalDisconnect(e)
      <3>1. Full => buffer # <<>>
        BY EmptyEvents DEF Full
      <3>2. buffer' \in Seq(Event) /\ dropped' \subseteq Event
        BY <2>4, <3>1, AppendedEvents, RemainingEvents
           DEF BufferAndSignalDisconnect, Push, RpcTypes, ExactlyOnePlace
      <3>3. e \in Task
        BY <1>0
      <3>4. batch[e] = <<>>
        BY <2>4, <3>3 DEF BufferAndSignalDisconnect, Locals
      <3> QED
        BY <2>4, <3>2, <3>3, <3>4 DEF BufferAndSignalDisconnect, RpcTypes, Locals, sessVars
    <2> QED
      BY <1>4, <2>1, <2>2, <2>3, <2>4 DEF Send
  <1>5. CASE Heartbeat
    BY <1>0, <1>5 DEF Heartbeat, RpcTypes, Locals, clientVars, sendVars, sessVars, historyVars
  <1>6. ASSUME NEW t \in Task, TryReconnect(t) PROVE RpcTypes' /\ Locals'
    <2>0. recPc[t] # "idle" => \A e \in Event : sendPc[e] # "done" => e # t
      BY DEF Locals
    <2>1. CASE RecGiveUp(t)
      BY <2>0, <2>1 DEF RecGiveUp, RpcTypes, Locals, clientVars, sendVars, sessVars, historyVars
    <2>2. CASE RecOpen(t)
      <3>1. OpenSession
        BY <2>2 DEF RecOpen
      <3> QED
        BY <2>0, <2>2, <3>1, Opened DEF RecOpen, RpcTypes, Locals, clientVars, sendVars, historyVars
    <2>3. CASE RecSetId(t)
      BY <2>0, <2>3 DEF RecSetId, RpcTypes, Locals, sendVars, sessVars, historyVars
    <2>4. CASE RecSetTx(t)
      BY <2>0, <2>4 DEF RecSetTx, RpcTypes, Locals, sendVars, sessVars, historyVars
    <2>5. CASE RecDrain(t)
      BY <2>0, <2>5, EmptyEvents DEF RecDrain, RpcTypes, Locals, sendVars, sessVars, historyVars
    <2>6. CASE RecReadTx(t)
      BY <2>0, <2>6 DEF RecReadTx, RpcTypes, Locals, clientVars, sendVars, sessVars, historyVars
    <2>7. CASE RecFlush(t)
      <3>1. recTx[t] \in Sess /\ batch[t] \in Seq(Event) /\ batch[t] # <<>> /\ IsInjective(batch[t])
        BY <2>7 DEF RecFlush, RpcTypes, Locals, ExactlyOnePlace
      <3>2. Head(batch[t]) \in Event /\ Tail(batch[t]) \in Seq(Event)
        BY <3>1, RemainingEvents
      <3>3. chan' \in [Sess -> Seq(Event)] /\ lost' \subseteq Event
        <4> DEFINE s == recTx[t]
                   e == Head(batch[t])
        <4>1. CASE chan' = [chan EXCEPT ![s] = Append(chan[s], e)] /\ lost' = lost
          <5>1. Append(chan[s], e) \in Seq(Event)
            BY <3>1, <3>2, AppendedEvents DEF RpcTypes
          <5> QED
            BY <3>1, <4>1, <5>1 DEF RpcTypes
        <4>2. CASE chan' = chan /\ lost' = lost \cup {e}
          BY <3>2, <4>2 DEF RpcTypes
        <4> QED
          BY <2>7, <4>1, <4>2 DEF RecFlush, RpcTypes
      <3> QED
        BY <2>0, <2>7, <3>2, <3>3 DEF RecFlush, RpcTypes, Locals, clientVars, sendVars
    <2>8. CASE RecEnd(t)
      <3>1. cmdRx' \in [Sess -> BOOLEAN]
        BY <2>8 DEF RecEnd, RpcTypes
      <3> QED
        BY <2>0, <2>8, <3>1 DEF RecEnd, RpcTypes, Locals, clientVars, sendVars, historyVars
    <2> QED
      BY <1>6, <2>1, <2>2, <2>3, <2>4, <2>5, <2>6, <2>7, <2>8 DEF TryReconnect
  <1>7. ASSUME NEW s \in Sess, TakeEventsRx(s) \/ Recv(s) \/ ForwarderStops(s) \/ Forget(s)
        PROVE  RpcTypes' /\ Locals'
    <2>0. ToSet(chan[s]) \subseteq Event
      BY ElementOfSeq, LenProperties DEF ToSet, RpcTypes
    <2>1. CASE TakeEventsRx(s)
      BY <2>1 DEF TakeEventsRx, RpcTypes, Locals, clientVars, sendVars, recVars, historyVars
    <2>2. CASE Recv(s)
      <3>1. chan[s] \in Seq(Event) /\ chan[s] # <<>> /\ IsInjective(chan[s])
        BY <2>2 DEF Recv, RpcTypes, ExactlyOnePlace
      <3>2. Head(chan[s]) \in Event /\ Tail(chan[s]) \in Seq(Event)
        BY <3>1, RemainingEvents
      <3> QED
        BY <2>2, <3>2 DEF Recv, RpcTypes, Locals, clientVars, sendVars, recVars
    <2>3. CASE ForwarderStops(s)
      BY <2>0, <2>3, EmptyEvents
         DEF ForwarderStops, Close, DropRx, RpcTypes, Locals, clientVars, sendVars, recVars
    <2>4. CASE Forget(s)
      <3>1. /\ rx' \in [Sess -> {"none", "held", "taken", "dropped"}]
            /\ chan' \in [Sess -> Seq(Event)] /\ lost' \subseteq Event
        <4>1. CASE rx[s] = "held"
          BY <2>0, <2>4, <4>1, EmptyEvents DEF Forget, DropRx, RpcTypes
        <4>2. CASE rx[s] # "held"
          BY <2>4, <4>2 DEF Forget, RpcTypes
        <4> QED
          BY <4>1, <4>2
      <3>2. closes' \in 0 .. MaxClose /\ entry' \subseteq Sess
        BY <2>4 DEF Forget, Close, RpcTypes
      <3> QED
        BY <2>4, <3>1, <3>2 DEF Forget, RpcTypes, Locals, clientVars, sendVars, recVars
    <2> QED
      BY <1>7, <2>1, <2>2, <2>3, <2>4
  <1>8. CASE UNCHANGED vars
    BY <1>8 DEF vars, RpcTypes, Locals, clientVars, sendVars, recVars, sessVars, historyVars
  <1> QED
    BY <1>1, <1>2, <1>3, <1>4, <1>5, <1>6, <1>7, <1>8 DEF Next

-----------------------------------------------------------------------------
(* The steps that move events.                                             *)
LEMMA SubmitPlaces ==
  ASSUME RpcTypes, Locals, OnePlace, Queues, Submit
  PROVE  OnePlace' /\ Queues'
  <1> DEFINE new == submitted + 1
  <1>1. /\ submitted' = new /\ sendPc' = [sendPc EXCEPT ![new] = "ready"]
        /\ UNCHANGED <<buffer, batch, chan, delivered, dropped, lost>>
    BY DEF Submit, clientVars, recVars, sessVars, historyVars
  <1>2. new \in Event /\ new > submitted
    BY RpcAssumption DEF Submit, RpcTypes, Event
  <1>3. InTask' = InTask \cup {new}
    BY <1>1, <1>2 DEF InTask, RpcTypes
  <1>4. Held(<<"task", None>>)' = Held(<<"task", None>>) \cup {new}
    BY <1>3, HeldAt, Places DEF HeldSets
  <1>5. ASSUME NEW p \in Place, p # <<"task", None>> PROVE Held(p)' = Held(p)
    BY <1>1, <1>5, Untouched
  <1>6. ASSUME NEW e \in Event
        PROVE  IF e <= new THEN \E p \in Place : PlacesOf(e)' = {p} ELSE PlacesOf(e)' = {}
    <2>1. PlacesOf(e)' = {p \in Place : e \in Held(p)'} /\ PlacesOf(e) = {p \in Place : e \in Held(p)}
      BY DEF PlacesOf, Place, Task, Event, Sess, None, HB
    <2>2. CASE e = new
      <3>1. PlacesOf(e) = {}
        BY <1>2, <2>2 DEF OnePlace, RpcTypes
      <3>2. PlacesOf(e)' = {<<"task", None>>}
        BY <1>4, <1>5, <2>1, <2>2, <3>1, HeldAt, Places DEF HeldSets
      <3> QED
        <4>1. <<"task", None>> \in Place /\ e <= new
          BY <1>2, <2>2, Places DEF RpcTypes
        <4> QED
          BY <3>2, <4>1
    <2>3. CASE e # new
      <3>1. PlacesOf(e)' = PlacesOf(e)
        BY <1>4, <1>5, <2>1, <2>3, HeldAt, Places DEF HeldSets
      <3>2. e <= new <=> e <= submitted
        BY <1>2, <2>3 DEF RpcTypes, Event
      <3> QED
        BY <3>1, <3>2 DEF OnePlace
    <2> QED
      BY <2>2, <2>3
  <1> QED
    BY <1>1, <1>6 DEF OnePlace, Queues

LEMMA SendOkPlaces ==
  ASSUME RpcTypes, Locals, OnePlace, Queues, NEW e \in Event, SendOk(e)
  PROVE  OnePlace' /\ Queues'
  <1>0. PICK s \in Sess : s = sendTx[e]
    BY DEF SendOk, Locals
  <1> DEFINE a == <<"task", None>>
             b == <<"channel", s>>
  <1>1. /\ sendPc[e] = "sending" /\ chan[s] \in Seq(Event) /\ Len(chan[s]) < ChanCap
        /\ sendPc' = [sendPc EXCEPT ![e] = "done"]
        /\ chan' = [chan EXCEPT ![s] = Append(chan[s], e)]
        /\ UNCHANGED <<submitted, buffer, batch, delivered, dropped, lost>>
    BY <1>0 DEF SendOk, Locals, RpcTypes, clientVars, recVars, historyVars
  <1>2. InTask' = InTask \ {e} /\ e \in InTask
    BY <1>1 DEF InTask, RpcTypes
  <1>3. a \in Place /\ b \in Place /\ a # b /\ e \in Held(a)
    BY <1>1, <1>2, HeldAt, Places DEF HeldSets
  <1>4. e \notin ToSet(chan[s])
    BY <1>1, <1>3, OnlyPlace, HeldAt, Places DEF HeldSets
  <1>5. /\ chan'[s] = Append(chan[s], e) /\ ToSet(chan'[s]) = ToSet(chan[s]) \cup {e}
        /\ IsInjective(chan'[s]) /\ Len(chan'[s]) <= ChanCap
        /\ \A q \in Sess : q # s => chan'[q] = chan[q]
    BY <1>1, <1>4, AppendedEvents, LenProperties, RpcAssumption DEF RpcTypes, Queues
  <1>x. PICK X : X = {e}
    OBVIOUS
  <1>6. Held(a)' = Held(a) \ X /\ Held(b)' = Held(b) \cup X /\ X \subseteq Held(a)
    BY <1>x, <1>1, <1>2, <1>5, HeldAt, Places DEF HeldSets
  <1>7. ASSUME NEW p \in Place \ {a, b} PROVE Held(p)' = Held(p)
    BY <1>1, <1>5, <1>7, Untouched
  <1>8. OnePlace'
    BY <1>1, <1>3, <1>6, <1>7, MovedEvents
  <1>9. \A q \in Sess : IsInjective(chan'[q]) /\ Len(chan'[q]) <= ChanCap
    BY <1>5 DEF Queues
  <1> QED
    BY <1>1, <1>8, <1>9 DEF Queues

LEMMA DrainPlaces ==
  ASSUME RpcTypes, Locals, OnePlace, Queues, NEW t \in Task, RecDrain(t)
  PROVE  OnePlace' /\ Queues'
  <1> DEFINE a == <<"buffer", None>>
             b == <<"drained", t>>
  <1>1. /\ batch[t] = <<>> /\ batch' = [batch EXCEPT ![t] = buffer] /\ buffer' = <<>>
        /\ UNCHANGED <<submitted, sendPc, chan, delivered, dropped, lost>>
    BY DEF RecDrain, Locals, sendVars, sessVars, historyVars
  <1>2. a \in Place /\ b \in Place /\ a # b
    BY Places
  <1>x. PICK X : X = ToSet(buffer)
    OBVIOUS
  <1>3. /\ batch'[t] = buffer /\ \A u \in Task : u # t => batch'[u] = batch[u]
    BY <1>1 DEF RpcTypes
  <1>4. Held(a)' = Held(a) \ X /\ Held(b)' = Held(b) \cup X /\ X \subseteq Held(a)
    BY <1>x, <1>1, <1>3, HeldAt, Places, EmptyEvents DEF HeldSets
  <1>5. ASSUME NEW p \in Place \ {a, b} PROVE Held(p)' = Held(p)
    BY <1>1, <1>3, <1>5, Untouched DEF InTask
  <1>6. OnePlace'
    BY <1>1, <1>2, <1>4, <1>5, MovedEvents
  <1> QED
    BY <1>1, <1>3, <1>6, EmptyEvents, RpcAssumption DEF Queues

LEMMA FlushPlaces ==
  ASSUME RpcTypes, Locals, OnePlace, Queues, NEW t \in Task, RecFlush(t)
  PROVE  OnePlace' /\ Queues'
  <1>0. PICK s \in Sess : s = recTx[t]
    BY DEF RecFlush, Locals
  <1>1. PICK e : e = Head(batch[t])
    OBVIOUS
  <1>2. /\ batch[t] \in Seq(Event) /\ batch[t] # <<>> /\ IsInjective(batch[t])
        /\ batch' = [batch EXCEPT ![t] = Tail(batch[t])] /\ chan[s] \in Seq(Event)
        /\ UNCHANGED <<submitted, sendPc, buffer, delivered, dropped>>
    BY <1>0 DEF RecFlush, RpcTypes, Queues, clientVars, sendVars
  <1>3. /\ e \in Event /\ e \in ToSet(batch[t])
        /\ ToSet(batch'[t]) = ToSet(batch[t]) \ {e} /\ IsInjective(batch'[t])
        /\ \A u \in Task : u # t => batch'[u] = batch[u]
    BY <1>1, <1>2, RemainingEvents DEF RpcTypes
  <1>4. \A u \in Task : IsInjective(batch'[u])
    BY <1>3 DEF Queues
  <1>x. PICK X : X = {e}
    OBVIOUS
  <1> DEFINE a == <<"drained", t>>
  <1>5. a \in Place /\ Held(a)' = Held(a) \ X /\ X \subseteq Held(a)
    BY <1>x, <1>3, HeldAt, Places DEF HeldSets
  <1>6. CASE chan' = [chan EXCEPT ![s] = Append(chan[s], e)] /\ lost' = lost /\ Len(chan[s]) < ChanCap
    <2> DEFINE b == <<"channel", s>>
    <2>1. b \in Place /\ a # b
      BY Places
    <2>2. e \notin ToSet(chan[s])
      BY <1>x, <1>3, <1>5, <2>1, OnlyPlace, HeldAt DEF HeldSets
    <2>3. /\ chan'[s] = Append(chan[s], e) /\ ToSet(chan'[s]) = ToSet(chan[s]) \cup {e}
          /\ IsInjective(chan'[s]) /\ Len(chan'[s]) <= ChanCap
          /\ \A q \in Sess : q # s => chan'[q] = chan[q]
      BY <1>2, <1>3, <1>6, <2>2, AppendedEvents, LenProperties, RpcAssumption DEF RpcTypes, Queues
    <2>4. Held(b)' = Held(b) \cup X
      BY <1>x, <2>3, HeldAt DEF HeldSets
    <2>5. ASSUME NEW p \in Place \ {a, b} PROVE Held(p)' = Held(p)
      BY <1>2, <1>3, <1>6, <2>3, <2>5, Untouched DEF InTask
    <2>6. OnePlace'
      BY <1>2, <1>5, <2>1, <2>4, <2>5, MovedEvents
    <2>7. \A q \in Sess : IsInjective(chan'[q]) /\ Len(chan'[q]) <= ChanCap
      BY <2>3 DEF Queues
    <2> QED
      BY <1>2, <1>4, <2>6, <2>7 DEF Queues
  <1>7. CASE chan' = chan /\ lost' = lost \cup {e}
    <2> DEFINE b == <<"lost", None>>
    <2>1. b \in Place /\ a # b
      BY Places
    <2>2. Held(b)' = Held(b) \cup X
      BY <1>x, <1>7, HeldAt DEF HeldSets
    <2>3. ASSUME NEW p \in Place \ {a, b} PROVE Held(p)' = Held(p)
      BY <1>2, <1>3, <1>7, <2>3, Untouched DEF InTask
    <2>4. OnePlace'
      BY <1>2, <1>5, <2>1, <2>2, <2>3, MovedEvents
    <2> QED
      BY <1>2, <1>4, <1>7, <2>4 DEF Queues
  <1> QED
    BY <1>0, <1>1, <1>6, <1>7 DEF RecFlush

LEMMA RecvPlaces ==
  ASSUME RpcTypes, Locals, OnePlace, Queues, NEW s \in Sess, Recv(s)
  PROVE  OnePlace' /\ Queues'
  <1>1. PICK e : e = Head(chan[s])
    OBVIOUS
  <1>2. /\ chan[s] \in Seq(Event) /\ chan[s] # <<>> /\ IsInjective(chan[s]) /\ Len(chan[s]) <= ChanCap
        /\ chan' = [chan EXCEPT ![s] = Tail(chan[s])]
        /\ delivered' = [delivered EXCEPT ![e] = delivered[e] + 1]
        /\ UNCHANGED <<submitted, sendPc, buffer, batch, dropped, lost>>
    BY <1>1 DEF Recv, RpcTypes, Queues, clientVars, sendVars, recVars
  <1>3. /\ e \in Event /\ e \in ToSet(chan[s])
        /\ ToSet(chan'[s]) = ToSet(chan[s]) \ {e} /\ IsInjective(chan'[s])
        /\ Len(chan'[s]) <= ChanCap
        /\ \A q \in Sess : q # s => chan'[q] = chan[q]
    BY <1>1, <1>2, RemainingEvents, LenProperties, RpcAssumption DEF RpcTypes
  <1>x. PICK X : X = {e}
    OBVIOUS
  <1> DEFINE a == <<"channel", s>>
             b == <<"received", None>>
  <1>4. /\ a \in Place /\ b \in Place /\ a # b
        /\ Held(a)' = Held(a) \ X /\ X \subseteq Held(a)
    BY <1>x, <1>3, HeldAt, Places DEF HeldSets
  <1>5. e \notin Received
    BY <1>x, <1>3, <1>4, OnlyPlace, HeldAt DEF HeldSets
  <1>6. delivered[e] = 0 /\ delivered'[e] = 1 /\ \A f \in Event : f # e => delivered'[f] = delivered[f]
    BY <1>2, <1>3, <1>5 DEF Received, RpcTypes
  <1>7. Received' = Received \cup {e}
    BY <1>3, <1>6 DEF Received
  <1>8. Held(b)' = Held(b) \cup X
    BY <1>x, <1>7, HeldAt DEF HeldSets
  <1>9. ASSUME NEW p \in Place \ {a, b} PROVE Held(p)' = Held(p)
    BY <1>2, <1>3, <1>9, Untouched DEF InTask
  <1>10. OnePlace'
    BY <1>2, <1>4, <1>8, <1>9, MovedEvents
  <1>11. \A q \in Sess : IsInjective(chan'[q]) /\ Len(chan'[q]) <= ChanCap
    BY <1>3 DEF Queues
  <1>12. \A f \in Event : delivered'[f] <= 1
    BY <1>6 DEF Queues
  <1> QED
    BY <1>2, <1>10, <1>11, <1>12 DEF Queues

(* The receiver is dropped: what its channel holds is lost.                *)
LEMMA DropPlaces ==
  ASSUME RpcTypes, OnePlace, Queues, NEW s \in Sess, DropRx(s), InTask' = InTask,
         UNCHANGED <<submitted, buffer, batch, delivered, dropped>>
  PROVE  OnePlace' /\ Queues'
  <1>x. PICK X : X = ToSet(chan[s])
    OBVIOUS
  <1>1. /\ chan'[s] = <<>> /\ \A q \in Sess : q # s => chan'[q] = chan[q]
        /\ lost' = lost \cup X
    BY <1>x DEF DropRx, RpcTypes
  <1> DEFINE a == <<"channel", s>>
             b == <<"lost", None>>
  <1>2. /\ a \in Place /\ b \in Place /\ a # b
        /\ Held(a)' = Held(a) \ X /\ X \subseteq Held(a) /\ Held(b)' = Held(b) \cup X
    BY <1>x, <1>1, HeldAt, Places, EmptyEvents DEF HeldSets
  <1>3. ASSUME NEW p \in Place \ {a, b} PROVE Held(p)' = Held(p)
    BY <1>1, <1>3, Untouched
  <1>4. OnePlace'
    BY <1>2, <1>3, MovedEvents
  <1>5. \A q \in Sess : IsInjective(chan'[q]) /\ Len(chan'[q]) <= ChanCap
    BY <1>1, EmptyEvents, RpcAssumption DEF Queues
  <1> QED
    BY <1>4, <1>5 DEF Queues

(* A failed send pushes its event; at the bound the oldest one is dropped. *)
LEMMA PushPlaces ==
  ASSUME RpcTypes, OnePlace, Queues, NEW e \in Event, BufferAndSignalDisconnect(e)
  PROVE  OnePlace' /\ Queues'
  <1> DEFINE a == <<"task", None>>
             b == <<"buffer", None>>
             c == <<"dropped", None>>
  <1>1. /\ sendPc[e] = "failed" /\ sendPc' = [sendPc EXCEPT ![e] = "done"]
        /\ buffer \in Seq(Event) /\ Len(buffer) \in Nat /\ Len(buffer) <= BufferCap
        /\ IsInjective(buffer) /\ Push(e)
        /\ UNCHANGED <<submitted, batch, chan, delivered, lost>>
    BY LenProperties DEF BufferAndSignalDisconnect, RpcTypes, Queues, sessVars
  <1>2. InTask' = InTask \ {e} /\ e \in InTask
    BY <1>1 DEF InTask, RpcTypes
  <1>3. a \in Place /\ b \in Place /\ c \in Place /\ a # b /\ a # c /\ b # c
    BY Places
  <1>4. e \in Held(a) /\ e \notin ToSet(buffer) /\ Held(a)' = Held(a) \ {e}
    BY <1>2, <1>3, OnlyPlace, HeldAt DEF HeldSets
  <1>5. CASE ~Full
    <2>1. buffer' = Append(buffer, e) /\ dropped' = dropped /\ Len(buffer) < BufferCap
      BY <1>1, <1>5, RpcAssumption DEF Push, Full
    <2>2. /\ ToSet(buffer') = ToSet(buffer) \cup {e} /\ IsInjective(buffer')
          /\ Len(buffer') <= BufferCap
      BY <1>1, <1>4, <2>1, AppendedEvents, RpcAssumption
    <2>x. PICK X : X = {e}
      OBVIOUS
    <2>3. Held(a)' = Held(a) \ X /\ X \subseteq Held(a) /\ Held(b)' = Held(b) \cup X
      BY <1>4, <2>x, <2>2, HeldAt DEF HeldSets
    <2>4. ASSUME NEW p \in Place \ {a, b} PROVE Held(p)' = Held(p)
      BY <1>1, <2>1, <2>4, Untouched
    <2>5. OnePlace'
      BY <1>1, <1>3, <2>3, <2>4, MovedEvents
    <2> QED
      BY <1>1, <2>2, <2>5 DEF Queues
  <1>6. CASE Full
    <2>1. PICK f : f = Head(buffer)
      OBVIOUS
    <2>2. buffer # <<>>
      BY <1>6, EmptyEvents, RpcAssumption DEF Full
    <2>3. /\ f \in Event /\ f \in ToSet(buffer) /\ Tail(buffer) \in Seq(Event)
          /\ ToSet(Tail(buffer)) = ToSet(buffer) \ {f} /\ IsInjective(Tail(buffer))
          /\ Len(Tail(buffer)) = Len(buffer) - 1
      BY <1>1, <2>1, <2>2, RemainingEvents
    <2>4. buffer' = Append(Tail(buffer), e) /\ dropped' = dropped \cup {f}
      BY <1>1, <1>6, <2>1 DEF Push
    <2>5. /\ ToSet(buffer') = (ToSet(buffer) \ {f}) \cup {e} /\ IsInjective(buffer')
          /\ Len(buffer') <= BufferCap
      <3>1. e \notin ToSet(Tail(buffer))
        BY <1>4, <2>3
      <3>2. /\ ToSet(Append(Tail(buffer), e)) = ToSet(Tail(buffer)) \cup {e}
            /\ IsInjective(Append(Tail(buffer), e))
            /\ Len(Append(Tail(buffer), e)) = Len(Tail(buffer)) + 1
        BY <2>3, <3>1, AppendedEvents
      <3> QED
        BY <1>1, <2>3, <2>4, <3>2
    <2>6. /\ Held(b)' = (Held(b) \ {f}) \cup {e} /\ Held(c)' = Held(c) \cup {f}
          /\ f \in Held(b) /\ f # e
      BY <1>4, <2>3, <2>4, <2>5, HeldAt DEF HeldSets
    <2>7. ASSUME NEW p \in Place \ {a, b, c} PROVE Held(p)' = Held(p)
      BY <1>1, <2>7, Untouched
    <2>8. ASSUME NEW x \in Event
          PROVE  IF x <= submitted THEN \E p \in Place : PlacesOf(x)' = {p} ELSE PlacesOf(x)' = {}
      <3>1. /\ PlacesOf(x)' = {p \in Place : x \in Held(p)'}
            /\ PlacesOf(x) = {p \in Place : x \in Held(p)}
        BY DEF PlacesOf, Place, Task, Event, Sess, None, HB
      <3>2. CASE x = e
        <4>1. x <= submitted /\ \A p \in Place : p # a => x \notin Held(p)
          BY <1>3, <1>4, <3>2, OnlyPlace
        <4>2. PlacesOf(x)' = {b}
          BY <1>3, <1>4, <2>6, <2>7, <3>1, <3>2, <4>1
        <4> QED
          BY <1>3, <4>1, <4>2
      <3>3. CASE x = f
        <4>1. x <= submitted /\ \A p \in Place : p # b => x \notin Held(p)
          BY <1>3, <2>6, <3>3, OnlyPlace
        <4>2. PlacesOf(x)' = {c}
          BY <1>3, <1>4, <2>6, <2>7, <3>1, <3>3, <4>1
        <4> QED
          BY <1>3, <4>1, <4>2
      <3>4. CASE x # e /\ x # f
        <4>1. PlacesOf(x)' = PlacesOf(x)
          BY <1>3, <1>4, <2>6, <2>7, <3>1, <3>4
        <4> QED
          BY <4>1 DEF OnePlace
      <3> QED
        BY <3>2, <3>3, <3>4
    <2> QED
      <3>1. OnePlace'
        BY <1>1, <2>8 DEF OnePlace
      <3> QED
        BY <1>1, <2>5, <3>1 DEF Queues
  <1> QED
    BY <1>5, <1>6

-----------------------------------------------------------------------------
LEMMA PlacesStep == RpcInv /\ [Next]_vars => ExactlyOnePlace'
  <1> SUFFICES ASSUME RpcInv, [Next]_vars PROVE ExactlyOnePlace'
    OBVIOUS
  <1>0. RpcTypes /\ Locals /\ ExactlyOnePlace
    BY DEF RpcInv
  <1>a. ExactlyOnePlace <=> OnePlace /\ Queues
    BY DEF ExactlyOnePlace, OnePlace, Queues
  <1>b. ExactlyOnePlace' <=> OnePlace' /\ Queues'
    BY DEF ExactlyOnePlace, OnePlace, Queues
  <1>c. sendPc' = sendPc => InTask' = InTask
    BY DEF InTask
  <1>1. CASE RegisterOpen \/ RegisterPublish \/ Heartbeat
    <2>1. UNCHANGED <<sendPc, submitted, buffer, batch, chan, delivered, dropped, lost>>
      BY <1>1 DEF RegisterOpen, OpenSession, RegisterPublish, Heartbeat, clientVars, sendVars, recVars,
                  sessVars, historyVars
    <2> QED
      BY <1>0, <1>c, <2>1, NothingMoved
  <1>2. CASE Submit
    BY <1>0, <1>2, <1>a, <1>b, SubmitPlaces
  <1>3. ASSUME NEW e \in Event, Send(e) PROVE ExactlyOnePlace'
    <2>1. CASE SendClone(e) \/ SendErr(e)
      <3>1. InTask' = InTask
        BY <1>0, <2>1 DEF SendClone, SendErr, InTask, RpcTypes
      <3>2. UNCHANGED <<submitted, buffer, batch, chan, delivered, dropped, lost>>
        BY <2>1 DEF SendClone, SendErr, clientVars, recVars, sessVars, historyVars
      <3> QED
        BY <1>0, <3>1, <3>2, NothingMoved
    <2>2. CASE SendOk(e)
      BY <1>0, <1>a, <1>b, <2>2, SendOkPlaces
    <2>3. CASE BufferAndSignalDisconnect(e)
      BY <1>0, <1>a, <1>b, <2>3, PushPlaces
    <2> QED
      BY <1>3, <2>1, <2>2, <2>3 DEF Send
  <1>4. ASSUME NEW t \in Task, TryReconnect(t) PROVE ExactlyOnePlace'
    <2>1. CASE RecDrain(t)
      BY <1>0, <1>a, <1>b, <2>1, DrainPlaces
    <2>2. CASE RecFlush(t)
      BY <1>0, <1>a, <1>b, <2>2, FlushPlaces
    <2>3. CASE RecGiveUp(t) \/ RecOpen(t) \/ RecSetId(t) \/ RecSetTx(t) \/ RecReadTx(t) \/ RecEnd(t)
      <3>1. UNCHANGED <<sendPc, submitted, buffer, batch, chan, delivered, dropped, lost>>
        BY <2>3 DEF RecGiveUp, RecOpen, OpenSession, RecSetId, RecSetTx, RecReadTx, RecEnd, clientVars,
                    sendVars, sessVars, historyVars
      <3> QED
        BY <1>0, <1>c, <3>1, NothingMoved
    <2> QED
      BY <1>4, <2>1, <2>2, <2>3 DEF TryReconnect
  <1>5. ASSUME NEW s \in Sess, TakeEventsRx(s) \/ Recv(s) \/ ForwarderStops(s) \/ Forget(s)
        PROVE  ExactlyOnePlace'
    <2>1. CASE Recv(s)
      BY <1>0, <1>a, <1>b, <2>1, RecvPlaces
    <2>2. CASE (ForwarderStops(s) \/ Forget(s)) /\ DropRx(s)
      <3>1. UNCHANGED <<sendPc, submitted, buffer, batch, delivered, dropped>>
        BY <2>2 DEF ForwarderStops, Forget, clientVars, sendVars, recVars
      <3> QED
        BY <1>0, <1>a, <1>b, <1>c, <2>2, <3>1, DropPlaces
    <2>3. CASE TakeEventsRx(s) \/ (Forget(s) /\ rx[s] # "held")
      <3>1. UNCHANGED <<sendPc, submitted, buffer, batch, chan, delivered, dropped, lost>>
        BY <2>3 DEF TakeEventsRx, Forget, clientVars, sendVars, recVars, historyVars
      <3> QED
        BY <1>0, <1>c, <3>1, NothingMoved
    <2>4. /\ ForwarderStops(s) => DropRx(s)
          /\ Forget(s) => DropRx(s) \/ rx[s] # "held"
      BY DEF ForwarderStops, Forget
    <2> QED
      BY <1>5, <2>1, <2>2, <2>3, <2>4
  <1>6. CASE UNCHANGED vars
    <2>1. UNCHANGED <<sendPc, submitted, buffer, batch, chan, delivered, dropped, lost>>
      BY <1>6 DEF vars, clientVars, sendVars, recVars, sessVars, historyVars
    <2> QED
      BY <1>0, <1>c, <2>1, NothingMoved
  <1> QED
    BY <1>1, <1>2, <1>3, <1>4, <1>5, <1>6 DEF Next

-----------------------------------------------------------------------------
(* However many events, sessions, reconnects and closings there are, every *)
(* submitted event is in exactly one place: nothing that client.rs,        *)
(* registry.rs and sink.rs do loses one silently or sends one twice.       *)
THEOREM EventsHaveOnePlace == Spec => []ExactlyOnePlace
  <1>1. RpcInv /\ [Next]_vars => RpcInv'
    BY LocalsStep, PlacesStep DEF RpcInv
  <1>2. RpcInv => ExactlyOnePlace
    BY DEF RpcInv
  <1> QED
    BY <1>1, <1>2, RpcInvInit, PTL DEF Spec

(* A task only ever sends to a session it may name: the senders that a     *)
(* send, or a flush, holds across an await are those of opened sessions.   *)
THEOREM SendersNameSessions == Spec => [](RpcTypes /\ Locals)
  <1>1. RpcInv /\ [Next]_vars => RpcInv'
    BY LocalsStep, PlacesStep DEF RpcInv
  <1>2. RpcInv => RpcTypes /\ Locals
    BY DEF RpcInv
  <1> QED
    BY <1>1, <1>2, RpcInvInit, PTL DEF Spec
=============================================================================
