-------------------------- MODULE ClientSlotsProofs --------------------------
(***************************************************************************)
(* Proofs about module ClientSlots, for any finite set of slots, any       *)
(* MinIdle and MaxIdle the configuration admits and any backoff.           *)
(***************************************************************************)
EXTENDS ClientSlots, FiniteSetTheorems, TLAPS

-----------------------------------------------------------------------------
\* A client as Run starts it has the right types.
LEMMA TypeInit == Init => TypeOK
<1> SUFFICES ASSUME Init PROVE TypeOK
  OBVIOUS
<1>1. /\ wake \in BOOLEAN /\ backingOff \in BOOLEAN /\ timerOn \in BOOLEAN
      /\ ctxDone \in BOOLEAN /\ stopping \in BOOLEAN /\ forced \in BOOLEAN
  BY DEF Init
<1>2. /\ idle \in Int /\ connecting \in Int /\ level \in 0..MaxLevel
      /\ ctl \in {"loop", "select", "done"}
      /\ stopSet \subseteq Slot /\ forceSet \subseteq Slot
  BY BoundAssumption DEF Init
<1>3. /\ pc \in [Slot -> Place] /\ err \in [Slot -> BOOLEAN]
      /\ state \in [Slot -> {"none", "connecting", "idle", "busy"}]
      /\ conn \in [Slot -> {"nil", "open", "closed"}]
  BY DEF Init, Place
<1> QED
  BY <1>1, <1>2, <1>3 DEF TypeOK

\* Every action of the client keeps the types.
LEMMA TypeStep == ASSUME TypeOK, Next PROVE TypeOK'
<1> USE DEF serviceVars, controlVars, slotVars, shutdownVars
<1>1. CASE CtlSpawn
  <2>1. Need \in Int
    BY PoolAssumption DEF Need, TypeOK
  <2> QED
    BY <1>1, <2>1 DEF CtlSpawn, TypeOK, Place
<1>2. CASE CtlWaits \/ CtlEnough \/ CtlReturns \/ CtlWakes \/ CtlTimer \/ BackoffPasses
  BY <1>2 DEF CtlWaits, CtlEnough, CtlReturns, CtlWakes, CtlTimer, BackoffPasses, TypeOK
<1>3. CASE CtxCancel
  BY <1>3 DEF CtxCancel, TypeOK
<1>4. CASE Stop
  BY <1>4 DEF Stop, TypeOK
<1>5. CASE RuntimeForce
  BY <1>5 DEF RuntimeForce, TypeOK
<1>6. ASSUME NEW s \in Slot, StopClose(s) \/ ForceClose(s) PROVE TypeOK'
  BY <1>6 DEF StopClose, ForceClose, CloseConn, TypeOK
<1>7. ASSUME NEW s \in Slot, Start(s) \/ DialFails(s) \/ Dialled(s) \/ ConnFails(s)
                               \/ Retires(s) \/ ClosesSurplus(s) \/ Drop(s)
      PROVE  TypeOK'
  <2>1. CASE Start(s)
    BY <2>1 DEF Start, Goto, TypeOK, Place
  <2>4. CASE Dialled(s)
    BY <2>4 DEF Dialled, Ends, Goto, TypeOK, Place
  <2>2. CASE DialFails(s) \/ ConnFails(s)
    BY <2>2 DEF DialFails, ConnFails, Ends, Goto, TypeOK, Place
  <2>3. CASE Retires(s) \/ ClosesSurplus(s) \/ Drop(s)
    BY <2>3 DEF Retires, ClosesSurplus, Drop, Ends, Goto, TypeOK, Place
  <2> QED
    BY <1>7, <2>1, <2>2, <2>3, <2>4
<1>8. ASSUME NEW s \in Slot, Registered(s) \/ Opened(s) \/ KeepsConn(s) PROVE TypeOK'
  BY <1>8 DEF Registered, Opened, KeepsConn, Goto, TypeOK, Place
<1>9. ASSUME NEW s \in Slot, OpenedNotifies(s) \/ EndNotifies(s) PROVE TypeOK'
  BY <1>9 DEF OpenedNotifies, EndNotifies, Goto, TypeOK, Place
<1>10. ASSUME NEW s \in Slot, Account(s) PROVE TypeOK'
  <2>1. level' \in 0..MaxLevel /\ backingOff' \in BOOLEAN
    BY <1>10, BoundAssumption DEF Account, Backoff, TypeOK
  <2>2. idle' \in Int /\ connecting' \in Int
    BY <1>10 DEF Account, Settle, TypeOK
  <2> QED
    BY <1>10, <2>1, <2>2 DEF Account, Goto, TypeOK, Place
<1>11. CASE Terminated
  BY <1>11 DEF Terminated, vars, TypeOK
<1> QED
  BY <1>1, <1>2, <1>3, <1>4, <1>5, <1>6, <1>7, <1>8, <1>9, <1>10, <1>11
  DEF Next, Control, Shutdown, SlotStep

-----------------------------------------------------------------------------
(* Where a goroutine is decides its slot's state, and whether it has a      *)
(* connection.                                                              *)

Placed ==
    \A s \in Slot :
        /\ pc[s] \in {"spawned", "dial", "hello"} => state[s] = "connecting"
        /\ pc[s] = "serve" => state[s] = "idle"
        /\ pc[s] \in {"opened", "lease"} => state[s] = "busy"
        /\ pc[s] \in {"unused", "notify"} => state[s] = "none"
        /\ pc[s] \in {"unused", "spawned", "dial", "dropped", "notify"} => conn[s] = "nil"

\* Every action keeps a slot's state and connection in step with its goroutine.
LEMMA PlacedStep == ASSUME TypeOK, Placed, Next PROVE Placed'
<1> USE DEF serviceVars, controlVars, slotVars, shutdownVars
<1>1. CASE CtlSpawn
  <2>1. PICK new \in SUBSET {s \in Slot : pc[s] = "unused"} :
          /\ pc' = [s \in Slot |-> IF s \in new THEN "spawned" ELSE pc[s]]
          /\ state' = [s \in Slot |-> IF s \in new THEN "connecting" ELSE state[s]]
    BY <1>1 DEF CtlSpawn
  <2>2. conn' = conn
    BY <1>1 DEF CtlSpawn
  <2> QED
    BY <2>1, <2>2 DEF Placed
<1>2. ASSUME NEW s \in Slot, Start(s) \/ DialFails(s) \/ Dialled(s) \/ ConnFails(s)
                               \/ Retires(s) \/ ClosesSurplus(s) \/ Drop(s)
      PROVE  Placed'
  BY <1>2 DEF Start, DialFails, Dialled, ConnFails, Retires, ClosesSurplus, Drop, Ends,
              Goto, TypeOK, Placed
<1>3. ASSUME NEW s \in Slot, Registered(s) \/ Opened(s) \/ KeepsConn(s) PROVE Placed'
  BY <1>3 DEF Registered, Opened, KeepsConn, Goto, TypeOK, Placed
<1>4. ASSUME NEW s \in Slot, OpenedNotifies(s) \/ EndNotifies(s) \/ Account(s) PROVE Placed'
  BY <1>4 DEF OpenedNotifies, EndNotifies, Account, Goto, TypeOK, Placed
<1>5. ASSUME NEW s \in Slot, StopClose(s) \/ ForceClose(s) PROVE Placed'
  BY <1>5 DEF StopClose, ForceClose, CloseConn, TypeOK, Placed
<1>6. ASSUME UNCHANGED <<pc, state, conn>> PROVE Placed'
  BY <1>6 DEF Placed
<1>7. CASE CtlWaits \/ CtlEnough \/ CtlReturns \/ CtlWakes \/ CtlTimer \/ BackoffPasses
  BY <1>6, <1>7 DEF CtlWaits, CtlEnough, CtlReturns, CtlWakes, CtlTimer, BackoffPasses
<1>8. CASE CtxCancel \/ Stop \/ RuntimeForce
  BY <1>6, <1>8 DEF CtxCancel, Stop, RuntimeForce
<1>9. CASE Terminated
  BY <1>6, <1>9 DEF Terminated, vars
<1> QED
  BY <1>1, <1>2, <1>3, <1>4, <1>5, <1>7, <1>8, <1>9 DEF Next, Control, Shutdown, SlotStep

-----------------------------------------------------------------------------
(* The counters.                                                            *)

In(st) == {s \in Slot : state[s] = st}

\* The slots in a state can be counted.
LEMMA InIsFinite == ASSUME NEW st PROVE IsFiniteSet(In(st)) /\ Cardinality(In(st)) \in Nat
BY SlotAssumption, FS_Subset, FS_CardinalityType DEF In

\* A slot that changes state leaves one set and joins another.
LEMMA MoveOne ==
    ASSUME TypeOK, NEW s \in Slot, NEW to, state[s] # to, state' = [state EXCEPT ![s] = to]
    PROVE  \A st : Cardinality(In(st)') =
               IF state[s] = st THEN Cardinality(In(st)) - 1
               ELSE IF to = st THEN Cardinality(In(st)) + 1 ELSE Cardinality(In(st))
<1> TAKE st
<1>0. IsFiniteSet(In(st)) /\ Cardinality(In(st)) \in Nat
  BY InIsFinite
<1>1. CASE state[s] = st
  <2>1. In(st)' = In(st) \ {s} /\ s \in In(st) /\ to # st
    BY <1>1 DEF In, TypeOK
  <2>2. Cardinality(In(st) \ {s}) = Cardinality(In(st)) - 1
    BY <1>0, <2>1, FS_RemoveElement
  <2> QED
    BY <1>1, <2>1, <2>2
<1>2. CASE to = st
  <2>1. In(st)' = In(st) \cup {s} /\ s \notin In(st)
    BY <1>2 DEF In, TypeOK
  <2>2. Cardinality(In(st) \cup {s}) = Cardinality(In(st)) + 1
    BY <1>0, <2>1, FS_AddElement
  <2> QED
    BY <1>2, <2>1, <2>2
<1>3. CASE state[s] # st /\ to # st
  <2>1. In(st)' = In(st)
    BY <1>3 DEF In, TypeOK
  <2> QED
    BY <1>3, <2>1
<1> QED
  BY <1>1, <1>2, <1>3

Counted == connecting = Cardinality(In("connecting")) /\ idle = Cardinality(In("idle"))

\* Every action changes the counters by as many slots as change state.
LEMMA CountedStep == ASSUME TypeOK, Placed, Counted, Next PROVE Counted'
<1> USE DEF serviceVars, controlVars, slotVars, shutdownVars
<1>0. /\ Cardinality(In("connecting")) \in Nat /\ Cardinality(In("idle")) \in Nat
      /\ IsFiniteSet(In("connecting"))
  BY InIsFinite
<1>1. CASE CtlSpawn
  <2>1. PICK new \in SUBSET {s \in Slot : pc[s] = "unused"} :
          /\ Cardinality(new) = Need
          /\ state' = [s \in Slot |-> IF s \in new THEN "connecting" ELSE state[s]]
    BY <1>1 DEF CtlSpawn
  <2>2. IsFiniteSet(new) /\ Cardinality(new) \in Nat
    BY SlotAssumption, FS_Subset, FS_CardinalityType
  <2>3. \A s \in new : state[s] = "none"
    BY DEF Placed
  <2>4. In("connecting")' = In("connecting") \cup new /\ In("connecting") \cap new = {}
    BY <2>1, <2>3 DEF In
  <2>5. In("idle")' = In("idle")
    BY <2>1, <2>3 DEF In
  <2>6. Cardinality(In("connecting") \cup new) = Cardinality(In("connecting")) + Cardinality(new)
    BY <1>0, <2>2, <2>4, FS_Union, FS_EmptySet
  <2> QED
    BY <1>0, <1>1, <2>1, <2>2, <2>4, <2>5, <2>6 DEF CtlSpawn, Counted
<1>2. ASSUME NEW s \in Slot, Registered(s) PROVE Counted'
  <2>1. state[s] = "connecting" /\ state' = [state EXCEPT ![s] = "idle"]
    BY <1>2 DEF Registered, Placed
  <2>2. Cardinality(In("connecting")') = Cardinality(In("connecting")) - 1
    BY <2>1, MoveOne
  <2>3. Cardinality(In("idle")') = Cardinality(In("idle")) + 1
    BY <2>1, MoveOne
  <2>4. idle' = idle + 1 /\ connecting' = connecting - 1
    BY <1>2 DEF Registered
  <2> QED
    BY <1>0, <2>2, <2>3, <2>4 DEF Counted
<1>3. ASSUME NEW s \in Slot, Opened(s) PROVE Counted'
  <2>1. state[s] = "idle" /\ state' = [state EXCEPT ![s] = "busy"]
    BY <1>3 DEF Opened, Placed
  <2>2. Cardinality(In("connecting")') = Cardinality(In("connecting"))
    BY <2>1, MoveOne
  <2>3. Cardinality(In("idle")') = Cardinality(In("idle")) - 1
    BY <2>1, MoveOne
  <2>4. idle' = idle - 1 /\ connecting' = connecting
    BY <1>3 DEF Opened
  <2> QED
    BY <1>0, <2>2, <2>3, <2>4 DEF Counted
<1>4. ASSUME NEW s \in Slot, KeepsConn(s) PROVE Counted'
  <2>1. state[s] = "busy" /\ state' = [state EXCEPT ![s] = "idle"]
    BY <1>4 DEF KeepsConn, Placed
  <2>2. Cardinality(In("connecting")') = Cardinality(In("connecting"))
    BY <2>1, MoveOne
  <2>3. Cardinality(In("idle")') = Cardinality(In("idle")) + 1
    BY <2>1, MoveOne
  <2>4. idle' = idle + 1 /\ connecting' = connecting
    BY <1>4 DEF KeepsConn
  <2> QED
    BY <1>0, <2>2, <2>3, <2>4 DEF Counted
<1>5. ASSUME NEW s \in Slot, Account(s) PROVE Counted'
  <2>1. /\ state' = [state EXCEPT ![s] = "none"]
        /\ connecting' = connecting - (IF state[s] = "connecting" THEN 1 ELSE 0)
        /\ idle' = idle - (IF state[s] = "idle" THEN 1 ELSE 0)
    BY <1>5 DEF Account, Settle
  <2>2. CASE state[s] = "none"
    <3>1. state' = state
      BY <2>1, <2>2 DEF TypeOK
    <3>2. In("connecting")' = In("connecting") /\ In("idle")' = In("idle")
      BY <3>1 DEF In
    <3>3. connecting' = connecting /\ idle' = idle
      BY <2>1, <2>2 DEF TypeOK
    <3> QED
      BY <3>2, <3>3 DEF Counted
  <2>3. CASE state[s] # "none"
    <3>1. /\ Cardinality(In("connecting")')
                = IF state[s] = "connecting" THEN Cardinality(In("connecting")) - 1 ELSE Cardinality(In("connecting"))
          /\ Cardinality(In("idle")')
                = IF state[s] = "idle" THEN Cardinality(In("idle")) - 1 ELSE Cardinality(In("idle"))
      BY <2>1, <2>3, MoveOne
    <3> QED
      BY <1>0, <2>1, <3>1 DEF Counted
  <2> QED
    BY <2>2, <2>3
<1>6. ASSUME UNCHANGED <<state, idle, connecting>> PROVE Counted'
  BY <1>6 DEF Counted, In
<1>7. ASSUME NEW s \in Slot,
             \/ Start(s) \/ DialFails(s) \/ Dialled(s) \/ ConnFails(s) \/ Retires(s)
             \/ ClosesSurplus(s) \/ Drop(s) \/ OpenedNotifies(s) \/ EndNotifies(s)
             \/ StopClose(s) \/ ForceClose(s)
      PROVE  Counted'
  BY <1>6, <1>7 DEF Start, DialFails, Dialled, ConnFails, Retires, ClosesSurplus, Drop,
                    OpenedNotifies, EndNotifies, StopClose, ForceClose
<1>8. CASE CtlWaits \/ CtlEnough \/ CtlReturns \/ CtlWakes \/ CtlTimer \/ BackoffPasses
  BY <1>6, <1>8 DEF CtlWaits, CtlEnough, CtlReturns, CtlWakes, CtlTimer, BackoffPasses
<1>9. CASE CtxCancel \/ Stop \/ RuntimeForce
  BY <1>6, <1>9 DEF CtxCancel, Stop, RuntimeForce
<1>10. CASE Terminated
  BY <1>6, <1>10 DEF Terminated, vars
<1> QED
  BY <1>1, <1>2, <1>3, <1>4, <1>5, <1>7, <1>8, <1>9, <1>10
  DEF Next, Control, Shutdown, SlotStep

-----------------------------------------------------------------------------
(* The bound on idle connections.                                           *)

\* No spawn, registration or barrier takes idle+connecting past MaxIdle.
LEMMA BoundStep == ASSUME TypeOK, IdleBound, Next PROVE IdleBound'
<1> USE DEF serviceVars, controlVars, slotVars, shutdownVars
<1>0. idle \in Int /\ connecting \in Int
  BY DEF TypeOK
<1>1. CASE CtlSpawn
  BY <1>0, <1>1, PoolAssumption DEF CtlSpawn, Need, IdleBound
<1>2. ASSUME NEW s \in Slot, Registered(s) \/ Opened(s) \/ KeepsConn(s) PROVE IdleBound'
  BY <1>0, <1>2, PoolAssumption DEF Registered, Opened, KeepsConn, IsSurplus, IdleBound
<1>3. ASSUME NEW s \in Slot, Account(s) PROVE IdleBound'
  BY <1>0, <1>3, PoolAssumption DEF Account, Settle, IdleBound
<1>4. ASSUME UNCHANGED <<idle, connecting>> PROVE IdleBound'
  BY <1>4 DEF IdleBound
<1>5. ASSUME NEW s \in Slot,
             \/ Start(s) \/ DialFails(s) \/ Dialled(s) \/ ConnFails(s) \/ Retires(s)
             \/ ClosesSurplus(s) \/ Drop(s) \/ OpenedNotifies(s) \/ EndNotifies(s)
             \/ StopClose(s) \/ ForceClose(s)
      PROVE  IdleBound'
  BY <1>4, <1>5 DEF Start, DialFails, Dialled, ConnFails, Retires, ClosesSurplus, Drop,
                    OpenedNotifies, EndNotifies, StopClose, ForceClose
<1>6. CASE CtlWaits \/ CtlEnough \/ CtlReturns \/ CtlWakes \/ CtlTimer \/ BackoffPasses
  BY <1>4, <1>6 DEF CtlWaits, CtlEnough, CtlReturns, CtlWakes, CtlTimer, BackoffPasses
<1>7. CASE CtxCancel \/ Stop \/ RuntimeForce
  BY <1>4, <1>7 DEF CtxCancel, Stop, RuntimeForce
<1>8. CASE Terminated
  BY <1>4, <1>8 DEF Terminated, vars
<1> QED
  BY <1>1, <1>2, <1>3, <1>5, <1>6, <1>7, <1>8 DEF Next, Control, Shutdown, SlotStep

-----------------------------------------------------------------------------
(* Wake-ups of the controller.                                              *)

\* No action leaves the controller asleep with connections missing.
LEMMA WakeStep == ASSUME TypeOK, NoLostWake, Next PROVE NoLostWake'
<1> USE DEF serviceVars, controlVars, slotVars, shutdownVars
<1>0. idle \in Int /\ connecting \in Int /\ MinIdle \in Int
  BY PoolAssumption DEF TypeOK
<1>1. CASE CtlSpawn
  <2>1. Need' = 0
    BY <1>0, <1>1 DEF CtlSpawn, Need
  <2> QED
    BY <2>1 DEF NoLostWake
<1>2. CASE CtlWaits
  BY <1>2 DEF CtlWaits, NoLostWake
<1>3. CASE CtlEnough
  BY <1>0, <1>3 DEF CtlEnough, NoLostWake, Need
<1>4. CASE CtlReturns \/ CtlWakes \/ CtlTimer
  BY <1>4 DEF CtlReturns, CtlWakes, CtlTimer, NoLostWake
<1>5. ASSUME NEW s \in Slot, OpenedNotifies(s) \/ EndNotifies(s) PROVE NoLostWake'
  BY <1>5 DEF OpenedNotifies, EndNotifies, NoLostWake
<1>6. ASSUME NEW s \in Slot, Opened(s) \/ Account(s) PROVE NoLostWake'
  <2>1. pc'[s] \in {"opened", "notify"}
    BY <1>6 DEF Opened, Account, Goto, TypeOK
  <2> QED
    BY <2>1 DEF NoLostWake
\* The remaining steps leave the controller alone, do not lower the counters and
\* do not take a goroutine away that is about to notify.
<1>7. ASSUME UNCHANGED <<ctl, wake, timerOn>>, Need' <= Need, Need \in Int, Need' \in Int,
             \A s \in Slot : pc[s] \in {"opened", "notify"} => pc'[s] = pc[s]
      PROVE  NoLostWake'
  BY <1>7 DEF NoLostWake
<1>8. ASSUME NEW s \in Slot, Registered(s) \/ KeepsConn(s) PROVE NoLostWake'
  <2>1. Need' <= Need /\ Need \in Int /\ Need' \in Int
    BY <1>0, <1>8 DEF Registered, KeepsConn, Need
  <2>2. /\ UNCHANGED <<ctl, wake, timerOn>>
        /\ \A t \in Slot : pc[t] \in {"opened", "notify"} => pc'[t] = pc[t]
    BY <1>8 DEF Registered, KeepsConn, Goto, TypeOK
  <2> QED
    BY <1>7, <2>1, <2>2
<1>9. ASSUME NEW s \in Slot, Start(s) \/ DialFails(s) \/ Dialled(s) \/ ConnFails(s)
                               \/ Retires(s) \/ ClosesSurplus(s) \/ Drop(s)
      PROVE  NoLostWake'
  <2>1. UNCHANGED <<idle, connecting, ctl, wake, timerOn>>
    BY <1>9 DEF Start, DialFails, Dialled, ConnFails, Retires, ClosesSurplus, Drop
  <2>2. \A t \in Slot : pc[t] \in {"opened", "notify"} => pc'[t] = pc[t]
    BY <1>9 DEF Start, DialFails, Dialled, ConnFails, Retires, ClosesSurplus, Drop, Ends,
                Goto, TypeOK
  <2>3. Need' = Need /\ Need \in Int
    BY <1>0, <2>1 DEF Need
  <2> QED
    BY <1>7, <2>1, <2>2, <2>3
<1>10. ASSUME UNCHANGED <<idle, connecting, ctl, wake, timerOn, pc>> PROVE NoLostWake'
  BY <1>10 DEF NoLostWake, Need
<1>11. ASSUME NEW s \in Slot, StopClose(s) \/ ForceClose(s) PROVE NoLostWake'
  BY <1>10, <1>11 DEF StopClose, ForceClose
<1>12. CASE BackoffPasses \/ CtxCancel \/ Stop \/ RuntimeForce
  BY <1>10, <1>12 DEF BackoffPasses, CtxCancel, Stop, RuntimeForce
<1>13. CASE Terminated
  BY <1>10, <1>13 DEF Terminated, vars
<1> QED
  BY <1>1, <1>2, <1>3, <1>4, <1>5, <1>6, <1>8, <1>9, <1>11, <1>12, <1>13
  DEF Next, Control, Shutdown, SlotStep

-----------------------------------------------------------------------------
(* What stop leaves open: the snapshot it has still to close is the rest.   *)

StopCovers ==
    stopping => \A s \in Slot : conn[s] = "open" /\ s \notin stopSet => state[s] = "busy"

\* After stop no connection opens that is neither busy nor in its snapshot.
LEMMA StopStep == ASSUME TypeOK, Placed, StopCovers, Next PROVE StopCovers'
<1> USE DEF serviceVars, controlVars, slotVars, shutdownVars
<1>1. CASE CtlSpawn
  BY <1>1 DEF CtlSpawn, Running, StopCovers
<1>2. CASE Stop
  BY <1>2 DEF Stop, StopCovers
<1>3. ASSUME NEW s \in Slot, StopClose(s) \/ ForceClose(s) PROVE StopCovers'
  BY <1>3 DEF StopClose, ForceClose, CloseConn, StopCovers, TypeOK
<1>4. ASSUME NEW s \in Slot, Dialled(s) PROVE StopCovers'
  BY <1>4 DEF Dialled, StopCovers, TypeOK
<1>5. ASSUME NEW s \in Slot, Registered(s) \/ Opened(s) PROVE StopCovers'
  BY <1>5 DEF Registered, Opened, StopCovers, Placed, TypeOK
<1>6. ASSUME NEW s \in Slot, KeepsConn(s) PROVE StopCovers'
  BY <1>6 DEF KeepsConn, IsSurplus, StopCovers
<1>7. ASSUME NEW s \in Slot, Drop(s) \/ Account(s) PROVE StopCovers'
  BY <1>7 DEF Drop, Account, StopCovers, Placed, TypeOK
<1>8. ASSUME UNCHANGED <<stopping, stopSet, conn, state>> PROVE StopCovers'
  BY <1>8 DEF StopCovers
<1>9. ASSUME NEW s \in Slot,
             \/ Start(s) \/ DialFails(s) \/ ConnFails(s) \/ Retires(s) \/ ClosesSurplus(s)
             \/ OpenedNotifies(s) \/ EndNotifies(s)
      PROVE  StopCovers'
  BY <1>8, <1>9 DEF Start, DialFails, ConnFails, Retires, ClosesSurplus, OpenedNotifies,
                    EndNotifies
<1>10. CASE CtlWaits \/ CtlEnough \/ CtlReturns \/ CtlWakes \/ CtlTimer \/ BackoffPasses
  BY <1>8, <1>10 DEF CtlWaits, CtlEnough, CtlReturns, CtlWakes, CtlTimer, BackoffPasses
<1>11. CASE CtxCancel \/ RuntimeForce
  BY <1>8, <1>11 DEF CtxCancel, RuntimeForce
<1>12. CASE Terminated
  BY <1>8, <1>12 DEF Terminated, vars
<1> QED
  BY <1>1, <1>2, <1>3, <1>4, <1>5, <1>6, <1>7, <1>9, <1>10, <1>11, <1>12
  DEF Next, Control, Shutdown, SlotStep

-----------------------------------------------------------------------------
(* The inductive invariant.  Placed makes the counters exact (a goroutine   *)
(* is accounted once) and stop's snapshot complete (a dial in progress has  *)
(* nothing to close yet).                                                   *)

IndInv == TypeOK /\ Placed /\ Counted /\ IdleBound /\ NoLostWake /\ StopCovers

\* The inductive invariant holds of a client as Run starts it.
LEMMA IndInvInit == Init => IndInv
<1> SUFFICES ASSUME Init PROVE IndInv
  OBVIOUS
<1>1. TypeOK
  BY TypeInit
<1>2. Placed
  BY DEF Init, Placed
<1>3. Counted
  <2>1. In("connecting") = {} /\ In("idle") = {}
    BY DEF Init, In
  <2> QED
    BY <2>1, FS_EmptySet DEF Init, Counted
<1>4. IdleBound
  BY PoolAssumption DEF Init, IdleBound
<1>5. NoLostWake /\ StopCovers
  BY DEF Init, NoLostWake, StopCovers
<1> QED
  BY <1>1, <1>2, <1>3, <1>4, <1>5 DEF IndInv

\* Every step of the client keeps the inductive invariant.
LEMMA IndInvStep == ASSUME IndInv, [Next]_vars PROVE IndInv'
<1>1. CASE Next
  BY <1>1, TypeStep, PlacedStep, CountedStep, BoundStep, WakeStep, StopStep DEF IndInv
<1>2. CASE UNCHANGED vars
  <2> USE DEF vars, serviceVars, controlVars, slotVars, shutdownVars
  <2>1. TypeOK'
    BY <1>2 DEF IndInv, TypeOK
  <2>2. Placed' /\ StopCovers' /\ IdleBound'
    BY <1>2 DEF IndInv, Placed, StopCovers, IdleBound
  <2>3. Counted'
    BY <1>2 DEF IndInv, Counted, In
  <2>4. NoLostWake'
    BY <1>2 DEF IndInv, NoLostWake, Need
  <2> QED
    BY <2>1, <2>2, <2>3, <2>4 DEF IndInv
<1> QED
  BY <1>1, <1>2

\* The inductive invariant holds in every reachable state of the client.
THEOREM Invariance == Spec => []IndInv
BY IndInvInit, IndInvStep, PTL DEF Spec

\* Every variable keeps its type; the backoff never passes its maximum.
THEOREM TypeCorrect == Spec => []TypeOK
<1>1. IndInv => TypeOK
  BY DEF IndInv
<1> QED
  BY Invariance, <1>1, PTL

\* idle+connecting never exceeds MaxIdle.
THEOREM IdleIsBounded == Spec => []IdleBound
<1>1. IndInv => IdleBound
  BY DEF IndInv
<1> QED
  BY Invariance, <1>1, PTL

\* The counters count the slots, whatever path a connection ends by.
THEOREM CountersCorrect == Spec => []CountersExact
<1>1. IndInv => CountersExact
  BY DEF IndInv, Counted, In, CountersExact
<1> QED
  BY Invariance, <1>1, PTL

\* The controller never sleeps through a missing connection.
THEOREM ControllerIsWoken == Spec => []NoLostWake
<1>1. IndInv => NoLostWake
  BY DEF IndInv
<1> QED
  BY Invariance, <1>1, PTL

\* Once stop is through, only busy connections are open.
THEOREM StopIsComplete == Spec => []StopLeavesNoneIdle
<1>1. IndInv => StopLeavesNoneIdle
  BY DEF IndInv, StopCovers, StopLeavesNoneIdle
<1> QED
  BY Invariance, <1>1, PTL
=============================================================================
