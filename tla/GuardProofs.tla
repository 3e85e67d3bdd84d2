----------------------------- MODULE GuardProofs -----------------------------
(***************************************************************************)
(* Proofs about module Guard, for any finite set of connections and any    *)
(* number of slots.                                                        *)
(***************************************************************************)
EXTENDS Guard, FiniteSetTheorems, TLAPS

-----------------------------------------------------------------------------
(* Types.                                                                   *)

\* A listener as newListener returns it has the right types.
LEMMA TypeInit == Init => TypeOK
<1> SUFFICES ASSUME Init PROVE TypeOK
  OBVIOUS
<1>1. /\ stopping \in BOOLEAN /\ done \in [Conn -> BOOLEAN] /\ completed \in [Conn -> BOOLEAN]
      /\ expired \in [Conn -> BOOLEAN] /\ open \in [Conn -> BOOLEAN]
  BY DEF Init
<1>2. slots \in 0..MaxSlots /\ wg \in Int /\ active \subseteq Conn /\ stopSet \subseteq Conn
  BY SlotAssumption DEF Init
<1>3. /\ kind \in {"noise", "wss"} /\ serve \in {"accepting", "stopping", "returned"}
      /\ at \in [Conn -> Place] /\ deadline \in [Conn -> {"none", "phase", "free"}]
      /\ release \in [Conn -> {"none", "close", "delete", "slot", "given"}]
  BY DEF Init, Place
<1> QED
  BY <1>1, <1>2, <1>3 DEF TypeOK

\* Every action of the listener and its guards keeps the types.
LEMMA TypeStep == ASSUME TypeOK, Next PROVE TypeOK'
<1> USE DEF listenerVars, guardVars, timeVars
<1>1. ASSUME NEW c \in Conn, GuardStep(c) PROVE TypeOK'
  <2>1. CASE FailCloses(c) \/ OnDoneDeletes(c)
    BY <2>1 DEF FailCloses, OnDoneDeletes, TypeOK
  <2>2. CASE OnDoneReceives(c)
    BY <2>2, SlotAssumption DEF OnDoneReceives, TypeOK
  <2>3. CASE PhasePasses(c) \/ TimerFires(c)
    BY <2>3 DEF PhasePasses, TimerFires, Fail, TypeOK
  <2>4. CASE SetDeadline(c)
    BY <2>4 DEF SetDeadline, Clamped, TypeOK
  <2> QED
    BY <1>1, <2>1, <2>2, <2>3, <2>4 DEF GuardStep
<1>2. ASSUME NEW c \in Conn, HandlerStep(c) PROVE TypeOK'
  <2>1. CASE AcceptRefuses(c)
    BY <2>1 DEF AcceptRefuses, Goto, TypeOK, Place
  <2>2. CASE Accept(c)
    BY <2>2, SlotAssumption DEF Accept, SlotFree, Goto, TypeOK, Place
  <2>3. CASE BeginHandler(c) \/ HandlerRefuses(c) \/ HandlerReturns(c)
    BY <2>3 DEF BeginHandler, HandlerRefuses, HandlerReturns, Goto, TypeOK, Place
  <2>4. CASE HttpCloses(c) \/ HandshakeFails(c) \/ NextRefused(c) \/ RegisterFails(c)
    BY <2>4 DEF HttpCloses, HandshakeFails, NextRefused, RegisterFails, Closes, Fail, Goto, TypeOK, Place
  <2>5. CASE NextPhase(c) \/ Complete(c)
    BY <2>5 DEF NextPhase, Complete, Goto, TypeOK, Place
  <2>6. CASE PoolCloses(c)
    BY <2>6 DEF PoolCloses, Closes, Fail, TypeOK
  <2> QED
    BY <1>2, <2>1, <2>2, <2>3, <2>4, <2>5, <2>6 DEF HandlerStep
<1>3. ASSUME NEW c \in Conn, StopFails(c) PROVE TypeOK'
  BY <1>3 DEF StopFails, Fail, TypeOK
<1>4. CASE Stop \/ StopReturns
  BY <1>4 DEF Stop, StopReturns, TypeOK
<1>5. CASE Terminated
  BY <1>5 DEF Terminated, vars, TypeOK
<1> QED
  BY <1>1, <1>2, <1>3, <1>4, <1>5 DEF Next

-----------------------------------------------------------------------------
(* One guard.                                                               *)

(***************************************************************************)
(* How the parts of a connection's guard agree: done is set by whoever     *)
(* begins to release it; active loses it between Close and the slot; an    *)
(* unfinished guard has an open socket with a deadline, a completed one an *)
(* open socket without, and nobody who would still close it.               *)
(***************************************************************************)
Sound(c) ==
    /\ release[c] = "none" <=> ~done[c]
    /\ ~Admitted(c) => ~done[c] /\ ~completed[c] /\ ~expired[c] /\ c \notin stopSet
    /\ c \in active <=> Admitted(c) /\ release[c] \in {"none", "close", "delete"}
    /\ completed[c] => /\ release[c] \in {"delete", "slot", "given"}
                       /\ open[c] /\ deadline[c] = "free"
                       /\ at[c] \in {"closing", "ended"}
    /\ ~done[c] /\ at[c] # "refused" => open[c]
    /\ ~done[c] /\ Admitted(c) => deadline[c] = "phase"
AllSound == \A c \in Conn : Sound(c)

\* A step that leaves a connection and its guard alone keeps them sound.
LEMMA SoundFrame ==
    ASSUME NEW c \in Conn, Sound(c), UNCHANGED <<at[c], done[c], release[c], completed[c]>>,
           UNCHANGED <<open[c], deadline[c], expired[c]>>, c \in active' <=> c \in active,
           c \in stopSet' => c \in stopSet
    PROVE  Sound(c)'
BY DEF Sound, Admitted

\* Every action keeps every guard sound.
LEMMA SoundStep == ASSUME TypeOK, AllSound, Next PROVE AllSound'
<1> USE DEF listenerVars, guardVars, timeVars
<1>1. ASSUME NEW c \in Conn, GuardStep(c) \/ HandlerStep(c) \/ StopFails(c) PROVE AllSound'
  <2>0. Sound(c)
    BY DEF AllSound
  <2>1. Sound(c)'
    <3>1. CASE FailCloses(c)
      BY <2>0, <3>1 DEF FailCloses, Sound, Admitted, TypeOK
    <3>2. CASE OnDoneDeletes(c)
      BY <2>0, <3>2 DEF OnDoneDeletes, Sound, Admitted, TypeOK
    <3>3. CASE OnDoneReceives(c)
      BY <2>0, <3>3 DEF OnDoneReceives, Sound, Admitted, TypeOK
    <3>4. CASE PhasePasses(c)
      BY <2>0, <3>4 DEF PhasePasses, Sound, Admitted, TypeOK
    <3>5. CASE TimerFires(c)
      BY <2>0, <3>5 DEF TimerFires, Fail, Sound, Admitted, TypeOK
    <3>6. CASE SetDeadline(c)
      BY <2>0, <3>6 DEF SetDeadline, Clamped, Sound, Admitted, TypeOK
    <3>7. CASE AcceptRefuses(c)
      BY <2>0, <3>7 DEF AcceptRefuses, Goto, Sound, Admitted, TypeOK
    <3>8. CASE Accept(c)
      BY <2>0, <3>8 DEF Accept, Goto, Sound, Admitted, TypeOK
    <3>9. CASE BeginHandler(c) \/ HandlerRefuses(c) \/ HandlerReturns(c)
      BY <2>0, <3>9 DEF BeginHandler, HandlerRefuses, HandlerReturns, Goto, Sound, Admitted, TypeOK
    <3>10. CASE HttpCloses(c) \/ HandshakeFails(c) \/ NextRefused(c) \/ RegisterFails(c)
      BY <2>0, <3>10
      DEF HttpCloses, HandshakeFails, NextRefused, RegisterFails, Closes, Fail, Goto, Sound, Admitted, TypeOK
    <3>11. CASE NextPhase(c)
      BY <2>0, <3>11 DEF NextPhase, StillGuarded, Goto, Sound, Admitted, TypeOK
    <3>12. CASE Complete(c)
      BY <2>0, <3>12 DEF Complete, StillGuarded, Goto, Sound, Admitted, TypeOK
    <3>13. CASE PoolCloses(c)
      BY <2>0, <3>13 DEF PoolCloses, Closes, Fail, Sound, Admitted, TypeOK
    <3>14. CASE StopFails(c)
      <4>1. CASE done[c]
        BY <2>0, <3>14, <4>1 DEF StopFails, Fail, Sound, Admitted, TypeOK
      <4>2. CASE ~done[c] /\ Admitted(c)
        BY <2>0, <3>14, <4>2 DEF StopFails, Fail, Sound, Admitted, TypeOK
      <4>3. CASE ~Admitted(c)
        BY <2>0, <3>14, <4>3 DEF StopFails, Fail, Sound, Admitted, TypeOK
      <4> QED
        BY <4>1, <4>2, <4>3
    <3> QED
      BY <1>1, <3>1, <3>2, <3>3, <3>4, <3>5, <3>6, <3>7, <3>8, <3>9, <3>10, <3>11, <3>12,
         <3>13, <3>14 DEF GuardStep, HandlerStep
  <2>2. ASSUME NEW d \in Conn, d # c PROVE Sound(d)'
    <3>1. UNCHANGED <<at[d], done[d], release[d], completed[d]>>
      BY <1>1, <2>2
      DEF GuardStep, HandlerStep, StopFails, FailCloses, OnDoneDeletes, OnDoneReceives, PhasePasses,
          TimerFires, SetDeadline, AcceptRefuses, Accept, BeginHandler, HandlerRefuses, HttpCloses,
          HandshakeFails, NextPhase, NextRefused, Complete, RegisterFails, PoolCloses,
          HandlerReturns, Closes, Fail, Goto, TypeOK
    <3>2. UNCHANGED <<open[d], deadline[d], expired[d]>>
      BY <1>1, <2>2
      DEF GuardStep, HandlerStep, StopFails, FailCloses, OnDoneDeletes, OnDoneReceives, PhasePasses,
          TimerFires, SetDeadline, AcceptRefuses, Accept, BeginHandler, HandlerRefuses, HttpCloses,
          HandshakeFails, NextPhase, NextRefused, Complete, RegisterFails, PoolCloses,
          HandlerReturns, Closes, TypeOK
    <3>3. (d \in active' <=> d \in active) /\ (d \in stopSet' => d \in stopSet)
      BY <1>1, <2>2
      DEF GuardStep, HandlerStep, StopFails, FailCloses, OnDoneDeletes, OnDoneReceives, PhasePasses,
          TimerFires, SetDeadline, AcceptRefuses, Accept, BeginHandler, HandlerRefuses, HttpCloses,
          HandshakeFails, NextPhase, NextRefused, Complete, RegisterFails, PoolCloses,
          HandlerReturns
    <3>4. Sound(d)
      BY DEF AllSound
    <3> QED
      BY <3>1, <3>2, <3>3, <3>4, SoundFrame
  <2> QED
    BY <2>1, <2>2 DEF AllSound
<1>2. CASE Stop
  BY <1>2 DEF Stop, AllSound, Sound, Admitted
<1>3. CASE StopReturns
  BY <1>3 DEF StopReturns, AllSound, Sound, Admitted
<1>4. CASE Terminated
  BY <1>4 DEF Terminated, vars, AllSound, Sound, Admitted
<1> QED
  BY <1>1, <1>2, <1>3, <1>4 DEF Next

-----------------------------------------------------------------------------
(* The two counters.                                                        *)

Holding  == {c \in Conn : Admitted(c) /\ release[c] # "given"}
Handling == {c \in Conn : at[c] \in {"handshake", "register", "closing"}}

\* Both sets can be counted.
LEMMA CountsAreFinite ==
    /\ IsFiniteSet(Holding) /\ Cardinality(Holding) \in Nat
    /\ IsFiniteSet(Handling) /\ Cardinality(Handling) \in Nat
BY ConnAssumption, FS_Subset, FS_CardinalityType DEF Holding, Handling

\* Every action that takes or gives back a slot moves one connection into or
\* out of the ones that hold a slot.
LEMMA SlotsStep == ASSUME TypeOK, AllSound, SlotsExact, Next PROVE SlotsExact'
<1> USE DEF listenerVars, guardVars, timeVars
<1>0. slots = Cardinality(Holding) /\ IsFiniteSet(Holding) /\ Cardinality(Holding) \in Nat
  BY CountsAreFinite DEF SlotsExact, Holding
<1>1. SUFFICES slots' = Cardinality(Holding')
  BY DEF SlotsExact, Holding
<1>2. ASSUME NEW c \in Conn, Accept(c) PROVE slots' = Cardinality(Holding')
  <2>1. Holding' = Holding \cup {c} /\ c \notin Holding
    BY <1>2 DEF Accept, Goto, Holding, Admitted, AllSound, Sound, TypeOK
  <2> QED
    BY <1>0, <1>2, <2>1, FS_AddElement DEF Accept
<1>3. ASSUME NEW c \in Conn, OnDoneReceives(c) PROVE slots' = Cardinality(Holding')
  <2>1. Holding' = Holding \ {c} /\ c \in Holding
    BY <1>3 DEF OnDoneReceives, Holding, Admitted, AllSound, Sound, TypeOK
  <2> QED
    BY <1>0, <1>3, <2>1, FS_RemoveElement DEF OnDoneReceives
<1>4. ASSUME NEW c \in Conn, \/ FailCloses(c) \/ OnDoneDeletes(c) \/ PhasePasses(c)
                             \/ SetDeadline(c)
      PROVE  slots' = Cardinality(Holding')
  <2>1. Holding' = Holding /\ slots' = slots
    BY <1>4 DEF FailCloses, OnDoneDeletes, PhasePasses, SetDeadline, Holding, Admitted, TypeOK
  <2> QED
    BY <1>0, <2>1
<1>5. ASSUME NEW c \in Conn, Fail(c), Admitted(c), at' = at \/ \E p \in Place : Goto(c, p),
             Admitted(c)', slots' = slots
      PROVE  slots' = Cardinality(Holding')
  <2>1. Holding' = Holding
    BY <1>5 DEF Fail, Goto, Holding, Admitted, AllSound, Sound, TypeOK
  <2> QED
    BY <1>0, <1>5, <2>1
<1>6. ASSUME NEW c \in Conn, TimerFires(c) \/ PoolCloses(c) \/ StopFails(c)
      PROVE  slots' = Cardinality(Holding')
  <2>1. Admitted(c) /\ Fail(c) /\ at' = at /\ slots' = slots
    BY <1>6 DEF TimerFires, PoolCloses, StopFails, Closes, AllSound, Sound, Admitted
  <2> QED
    BY <1>5, <2>1 DEF Admitted
<1>7. ASSUME NEW c \in Conn,
             HttpCloses(c) \/ HandshakeFails(c) \/ NextRefused(c) \/ RegisterFails(c)
      PROVE  slots' = Cardinality(Holding')
  <2>1. PICK p \in {"closing", "ended"} : Fail(c) /\ Goto(c, p) /\ slots' = slots
    BY <1>7 DEF HttpCloses, HandshakeFails, NextRefused, RegisterFails, Closes
  <2>2. Admitted(c) /\ Admitted(c)'
    BY <1>7, <2>1 DEF HttpCloses, HandshakeFails, NextRefused, RegisterFails, Admitted, Goto, TypeOK
  <2> QED
    BY <1>5, <2>1, <2>2 DEF Place
<1>8. ASSUME NEW c \in Conn, \/ AcceptRefuses(c) \/ BeginHandler(c) \/ HandlerRefuses(c)
                             \/ HandlerReturns(c) \/ NextPhase(c) \/ Complete(c)
      PROVE  slots' = Cardinality(Holding')
  <2>1. Holding' = Holding /\ slots' = slots
    BY <1>8 DEF AcceptRefuses, BeginHandler, HandlerRefuses, HandlerReturns, NextPhase, Complete,
                StillGuarded, Goto, Holding, Admitted, AllSound, Sound, TypeOK
  <2> QED
    BY <1>0, <2>1
<1>9. CASE Stop \/ StopReturns \/ Terminated
  <2>1. Holding' = Holding /\ slots' = slots
    BY <1>9 DEF Stop, StopReturns, Terminated, vars, Holding, Admitted
  <2> QED
    BY <1>0, <2>1
<1> QED
  BY <1>2, <1>3, <1>4, <1>6, <1>7, <1>8, <1>9 DEF Next, GuardStep, HandlerStep

WgExact == wg = Cardinality(Handling)

\* The wait group counts the handlers: every action that begins or ends one
\* moves one connection into or out of the ones being handled.
LEMMA WgStep == ASSUME TypeOK, WgExact, Next PROVE WgExact'
<1> USE DEF listenerVars, guardVars, timeVars
<1>0. wg = Cardinality(Handling) /\ IsFiniteSet(Handling) /\ Cardinality(Handling) \in Nat
  BY CountsAreFinite DEF WgExact
<1>1. SUFFICES wg' = Cardinality(Handling')
  BY DEF WgExact
<1>2. ASSUME NEW c \in Conn, BeginHandler(c) \/ (Accept(c) /\ kind = "noise")
      PROVE  wg' = Cardinality(Handling')
  <2>1. Handling' = Handling \cup {c} /\ c \notin Handling /\ wg' = wg + 1
    BY <1>2 DEF BeginHandler, Accept, Goto, Handling, TypeOK
  <2> QED
    BY <1>0, <2>1, FS_AddElement
<1>3. ASSUME NEW c \in Conn, HandlerRefuses(c) \/ HandlerReturns(c)
      PROVE  wg' = Cardinality(Handling')
  <2>1. Handling' = Handling \ {c} /\ c \in Handling /\ wg' = wg - 1
    BY <1>3 DEF HandlerRefuses, HandlerReturns, Goto, Handling, TypeOK
  <2> QED
    BY <1>0, <2>1, FS_RemoveElement
<1>4. ASSUME Handling' = Handling, wg' = wg PROVE wg' = Cardinality(Handling')
  BY <1>0, <1>4
<1>5. ASSUME NEW c \in Conn, GuardStep(c) \/ PoolCloses(c) \/ StopFails(c)
      PROVE  wg' = Cardinality(Handling')
  <2>1. at' = at /\ wg' = wg
    BY <1>5 DEF GuardStep, FailCloses, OnDoneDeletes, OnDoneReceives, PhasePasses, TimerFires,
                SetDeadline, PoolCloses, StopFails
  <2> QED
    BY <1>4, <2>1 DEF Handling
<1>6. ASSUME NEW c \in Conn, \/ AcceptRefuses(c) \/ (Accept(c) /\ kind # "noise")
                             \/ HttpCloses(c)
      PROVE  wg' = Cardinality(Handling')
  <2>1. Handling' = Handling /\ wg' = wg
    BY <1>6 DEF AcceptRefuses, Accept, HttpCloses, Goto, Handling, TypeOK
  <2> QED
    BY <1>4, <2>1
<1>7. ASSUME NEW c \in Conn, \/ HandshakeFails(c) \/ NextPhase(c) \/ NextRefused(c)
                             \/ Complete(c) \/ RegisterFails(c)
      PROVE  wg' = Cardinality(Handling')
  <2>1. Handling' = Handling /\ wg' = wg
    BY <1>7 DEF HandshakeFails, NextPhase, NextRefused, Complete, RegisterFails, Goto, Handling,
                TypeOK
  <2> QED
    BY <1>4, <2>1
<1>8. CASE Stop \/ StopReturns \/ Terminated
  <2>1. at' = at /\ wg' = wg
    BY <1>8 DEF Stop, StopReturns, Terminated, vars
  <2> QED
    BY <1>4, <2>1 DEF Handling
<1> QED
  BY <1>2, <1>3, <1>5, <1>6, <1>7, <1>8 DEF Next, HandlerStep

-----------------------------------------------------------------------------
(* The end of Serve.                                                        *)

(***************************************************************************)
(* From stop's snapshot on, the guards that are not finished are the ones  *)
(* stop has still to fail, because nothing is accepted any more; and once  *)
(* the wait group was empty no handler begins.                             *)
(***************************************************************************)
StopCovers ==
    /\ serve = "accepting" <=> ~stopping
    /\ serve # "stopping" => stopSet = {}
    /\ stopping => \A c \in Conn : Admitted(c) /\ ~done[c] => c \in stopSet
    /\ serve = "returned" => Handling = {}

\* Every action keeps what stop relies on.
LEMMA StopStep == ASSUME TypeOK, AllSound, WgExact, StopCovers, Next PROVE StopCovers'
<1> USE DEF listenerVars, guardVars, timeVars
<1>1. ASSUME NEW c \in Conn, GuardStep(c) \/ PoolCloses(c) PROVE StopCovers'
  <2>1. UNCHANGED <<serve, stopping, stopSet, at>>
    BY <1>1 DEF GuardStep, FailCloses, OnDoneDeletes, OnDoneReceives, PhasePasses, TimerFires,
                SetDeadline, PoolCloses
  <2>2. \A d \in Conn : done[d] => done'[d]
    BY <1>1 DEF GuardStep, FailCloses, OnDoneDeletes, OnDoneReceives, PhasePasses, TimerFires,
                SetDeadline, PoolCloses, Closes, Fail, TypeOK
  <2> QED
    BY <2>1, <2>2 DEF StopCovers, Admitted, Handling
<1>2. ASSUME NEW c \in Conn, AcceptRefuses(c) \/ Accept(c) \/ BeginHandler(c) PROVE StopCovers'
  <2>1. ~stopping /\ UNCHANGED <<serve, stopping, stopSet>>
    BY <1>2 DEF AcceptRefuses, Accept, BeginHandler, StopCovers
  <2> QED
    BY <2>1 DEF StopCovers
<1>3. ASSUME NEW c \in Conn, \/ HandlerRefuses(c) \/ HttpCloses(c) \/ HandshakeFails(c)
                             \/ NextPhase(c) \/ NextRefused(c) \/ Complete(c)
                             \/ RegisterFails(c) \/ HandlerReturns(c)
      PROVE  StopCovers'
  <2>1. UNCHANGED <<serve, stopping, stopSet>>
    BY <1>3 DEF HandlerRefuses, HttpCloses, HandshakeFails, NextPhase, NextRefused, Complete,
                RegisterFails, HandlerReturns
  <2>2. \A d \in Conn : (Admitted(d)' => Admitted(d)) /\ (done[d] => done'[d])
    BY <1>3 DEF HandlerRefuses, HttpCloses, HandshakeFails, NextPhase, NextRefused, Complete,
                RegisterFails, HandlerReturns, Closes, Fail, Goto, Admitted, TypeOK
  <2>3. Handling' \subseteq Handling
    BY <1>3 DEF HandlerRefuses, HttpCloses, HandshakeFails, NextPhase, NextRefused, Complete,
                RegisterFails, HandlerReturns, Goto, Handling, TypeOK
  <2> QED
    BY <2>1, <2>2, <2>3 DEF StopCovers
<1>4. ASSUME NEW c \in Conn, StopFails(c) PROVE StopCovers'
  <2>1. done'[c] /\ \A d \in Conn : done[d] => done'[d]
    BY <1>4 DEF StopFails, Fail, TypeOK
  <2> QED
    BY <1>4, <2>1 DEF StopFails, StopCovers, Admitted, Handling
<1>5. CASE Stop
  <2>1. \A c \in Conn : Admitted(c) /\ ~done[c] => c \in active
    BY DEF AllSound, Sound
  <2> QED
    BY <1>5, <2>1 DEF Stop, StopCovers, Admitted
<1>6. CASE StopReturns
  <2>1. Handling = {}
    BY <1>6, CountsAreFinite, FS_EmptySet DEF StopReturns, WgExact
  <2> QED
    BY <1>6, <2>1 DEF StopReturns, StopCovers, Admitted, Handling
<1>7. CASE Terminated
  BY <1>7 DEF Terminated, vars, StopCovers, Admitted, Handling
<1> QED
  BY <1>1, <1>2, <1>3, <1>4, <1>5, <1>6, <1>7 DEF Next, HandlerStep

-----------------------------------------------------------------------------
(* The theorems.                                                            *)

IndInv == TypeOK /\ AllSound /\ SlotsExact /\ WgExact /\ StopCovers

\* The inductive invariant holds of a listener as newListener returns it.
LEMMA IndInvInit == Init => IndInv
<1> SUFFICES ASSUME Init PROVE IndInv
  OBVIOUS
<1>1. TypeOK
  BY TypeInit
<1>2. AllSound
  BY DEF Init, AllSound, Sound, Admitted
<1>3. Holding = {} /\ Handling = {}
  BY DEF Init, Holding, Handling, Admitted
<1>4. SlotsExact
  BY <1>3, FS_EmptySet DEF Init, SlotsExact, Holding
<1>5. WgExact
  BY <1>3, FS_EmptySet DEF Init, WgExact
<1>6. StopCovers
  BY <1>3 DEF Init, StopCovers
<1> QED
  BY <1>1, <1>2, <1>4, <1>5, <1>6 DEF IndInv

\* Every step of the listener keeps the inductive invariant.
LEMMA IndInvStep == ASSUME IndInv, [Next]_vars PROVE IndInv'
<1>1. CASE Next
  BY <1>1, TypeStep, SoundStep, SlotsStep, WgStep, StopStep DEF IndInv
<1>2. CASE UNCHANGED vars
  <2> USE <1>2 DEF vars, listenerVars, guardVars, timeVars
  <2>1. TypeOK'
    BY DEF IndInv, TypeOK
  <2>2. AllSound'
    BY DEF IndInv, AllSound, Sound, Admitted
  <2>3. SlotsExact' /\ WgExact'
    BY DEF IndInv, SlotsExact, WgExact, Handling, Admitted
  <2>4. StopCovers'
    BY DEF IndInv, StopCovers, Handling, Admitted
  <2> QED
    BY <2>1, <2>2, <2>3, <2>4 DEF IndInv
<1> QED
  BY <1>1, <1>2

\* The inductive invariant holds in every reachable state of the listener.
THEOREM Invariance == Spec => []IndInv
BY IndInvInit, IndInvStep, PTL DEF Spec

\* Every variable keeps its type; the slots channel is within its capacity.
THEOREM TypeCorrect == Spec => []TypeOK
<1>1. IndInv => TypeOK
  BY DEF IndInv
<1> QED
  BY <1>1, Invariance, PTL

\* Each connection holds one slot and gives it back once, whichever of timer,
\* handler, stop, Pool.Stop and CompleteAuth ends its guard.
THEOREM SlotsCorrect == Spec => []SlotsExact
<1>1. IndInv => SlotsExact
  BY DEF IndInv
<1> QED
  BY <1>1, Invariance, PTL

\* An unauthenticated connection always has a deadline, and the guard neither
\* closes an authenticated one nor leaves a deadline on it.
THEOREM GuardIsTimed == Spec => []DeadlineFollowsGuard
<1>1. IndInv => DeadlineFollowsGuard
  BY DEF IndInv, AllSound, Sound, DeadlineFollowsGuard
<1> QED
  BY <1>1, Invariance, PTL

\* Serve returns only when no handler runs and every guard is finished.
THEOREM ServeWaitsForHandlers == Spec => []NoHandlerAfterServe
<1>1. IndInv => NoHandlerAfterServe
  BY DEF IndInv, StopCovers, Handling, NoHandlerAfterServe
<1> QED
  BY <1>1, Invariance, PTL
=============================================================================
