---------------------------- MODULE ArmHostProofs ----------------------------
(***************************************************************************)
(* Proofs about ArmHost for any number of workers: types, and that in an   *)
(* orderly run one loop at a time drives the servos and serves both ports. *)
(***************************************************************************)
EXTENDS ArmHost, TLAPS

StopRecord == [pc : StopPc, whom : Workers \cup {None}]

LEMMA StopToType ==
    ASSUME TypeOK, NEW c \in Callers, NEW pc \in StopPc, StopTo(c, pc)
    PROVE  stopping' \in [Callers -> StopRecord]
<1>1. [pc |-> pc, whom |-> None] \in StopRecord
  BY DEF StopRecord
<1> QED BY <1>1 DEF TypeOK, StopTo, StopRecord

LEMMA WorkerToType ==
    ASSUME TypeOK, NEW w \in Workers, NEW pc \in WorkerPc, WorkerTo(w, pc)
    PROVE  worker' \in [Workers -> WorkerPc]
BY DEF TypeOK, WorkerTo

LEMMA StopTypes ==
    ASSUME TypeOK, NEW c \in Callers, StopStep(c)
    PROVE  TypeOK'
<1> USE DEF TypeOK
<1>1. CASE SetStop(c)
  <2>1. stopping' \in [Callers -> StopRecord]
    BY <1>1, StopToType DEF SetStop, StopPc
  <2> QED BY <1>1, <2>1 DEF SetStop, socks, StopRecord
<1>2. CASE ReadThread(c)
  <2>1. CASE thread \in {None, c}
    <3>1. stopping' \in [Callers -> StopRecord]
      BY <1>2, <2>1, StopToType DEF ReadThread, StopPc
    <3> QED BY <1>2, <3>1 DEF ReadThread, flags, socks, StopRecord
  <2>2. CASE thread \notin {None, c}
    <3>1. [pc |-> "wait", whom |-> thread] \in StopRecord
      BY DEF StopRecord, StopPc
    <3>2. stopping' \in [Callers -> StopRecord]
      BY <1>2, <2>2, <3>1 DEF ReadThread, StopRecord
    <3> QED BY <1>2, <3>2 DEF ReadThread, flags, socks, StopRecord
  <2> QED BY <2>1, <2>2
<1>3. CASE Joined(c)
  <2>1. stopping' \in [Callers -> StopRecord]
    BY <1>3, StopToType DEF Joined, StopPc
  <2>2. past' \subseteq {"late", "overlap"}
    BY <1>3 DEF Joined
  <2> QED BY <1>3, <2>1, <2>2 DEF Joined, flags, socks, StopRecord
<1>4. CASE Forget(c)
  <2>1. stopping' \in [Callers -> StopRecord]
    BY <1>4, StopToType DEF Forget, StopPc
  <2> QED BY <1>4, <2>1 DEF Forget, flags, socks, StopRecord
<1>5. ASSUME NEW p \in Ports, NEW next \in {"obs", "clear"}, CloseServer(c, p, next)
      PROVE  TypeOK'
  <2>1. stopping' \in [Callers -> StopRecord]
    BY <1>5, StopToType DEF CloseServer, StopPc
  <2>2. holder' \in [Ports -> Workers \cup {None}]
    BY <1>5 DEF CloseServer
  <2> QED BY <1>5, <2>1, <2>2 DEF CloseServer, flags, StopRecord
<1>6. CASE ClearRunning(c)
  <2>1. stopping' \in [Callers -> StopRecord]
    BY <1>6, StopToType DEF ClearRunning, StopPc
  <2>2. worker' \in [Workers -> WorkerPc]
    BY <1>6 DEF ClearRunning, WorkerPc
  <2> QED BY <1>6, <2>1, <2>2 DEF ClearRunning, socks, StopRecord
<1> QED BY <1>1, <1>2, <1>3, <1>4, <1>5, <1>6 DEF StopStep, Ports

LEMMA WorkerTypes ==
    ASSUME TypeOK, NEW w \in Workers, WorkerStep(w)
    PROVE  TypeOK'
<1> USE DEF TypeOK
<1>1. CASE Setup(w)
  <2>1. worker' \in [Workers -> WorkerPc]
    BY <1>1, WorkerToType DEF Setup, WorkerPc
  <2> QED BY <1>1, <2>1 DEF Setup, flags, socks
<1>2. ASSUME NEW p \in Ports, NEW at, NEW next \in {"bindObs", "serve"}, Bind(w, p, at, next)
      PROVE  TypeOK'
  <2>1. worker' \in [Workers -> WorkerPc]
    BY <1>2, WorkerToType DEF Bind, WorkerPc
  <2>2. holder' \in [Ports -> Workers \cup {None}] /\ field' \in [Ports -> Workers \cup {None}]
    BY <1>2 DEF Bind, socks
  <2> QED BY <1>2, <2>1, <2>2 DEF Bind, flags
<1>3. CASE Serve(w) \/ LoopEnds(w) \/ Finally(w)
  <2>1. worker' \in [Workers -> WorkerPc]
    BY <1>3, WorkerToType DEF Serve, LoopEnds, Finally, WorkerPc
  <2> QED BY <1>3, <2>1 DEF Serve, LoopEnds, Finally, flags, socks
<1>4. CASE WorkerStops(w)
  <2>1. w \in Callers
    BY DEF Callers
  <2>2. stopping' \in [Callers -> StopRecord]
    BY <1>4, <2>1, StopToType DEF WorkerStops, StopPc
  <2> QED BY <1>4, <2>2 DEF WorkerStops, socks, StopRecord
<1> QED BY <1>1, <1>2, <1>3, <1>4 DEF WorkerStep, Ports

LEMMA TypeStep == TypeOK /\ [Next]_vars => TypeOK'
<1> SUFFICES ASSUME TypeOK, [Next]_vars
             PROVE  TypeOK'
  OBVIOUS
<1>1. CASE Attach
  <2>1. past' \subseteq {"late", "overlap"}
    BY <1>1 DEF Attach, TypeOK
  <2>2. main' \in [pc : MainPc, new : Workers \cup {None}]
    BY <1>1 DEF Attach, TypeOK, MainPc
  <2> QED BY <1>1, <2>1, <2>2 DEF Attach, TypeOK, socks
<1>2. CASE MainStops
  <2>1. Main \in Callers
    BY DEF Callers
  <2>2. stopping' \in [Callers -> StopRecord]
    BY <1>2, <2>1, StopToType DEF MainStops, StopPc
  <2> QED BY <1>2, <2>2 DEF MainStops, TypeOK, socks, StopRecord
<1>3. CASE MainStep
  <2>1. CASE ResetStop
    BY <2>1 DEF ResetStop, TypeOK, MainPc, socks
  <2>2. CASE Assign
    BY <2>2 DEF Assign, TypeOK, MainPc, flags, socks
  <2>3. ASSUME NEW w \in Workers, Spawn(w)
        PROVE  TypeOK'
    <3>1. worker' \in [Workers -> WorkerPc]
      BY <2>3, WorkerToType DEF Spawn, WorkerPc
    <3> QED BY <2>3, <3>1 DEF Spawn, TypeOK, MainPc, flags, socks
  <2>4. CASE Permission
    BY <2>4 DEF Permission, TypeOK, MainPc, socks
  <2> QED BY <1>3, <2>1, <2>2, <2>3, <2>4 DEF MainStep
<1>4. ASSUME NEW c \in Callers, StopStep(c)
      PROVE  TypeOK'
  BY <1>4, StopTypes
<1>5. ASSUME NEW w \in Workers, WorkerStep(w)
      PROVE  TypeOK'
  BY <1>5, WorkerTypes
<1>6. CASE UNCHANGED vars
  BY <1>6 DEF vars, flags, socks, TypeOK
<1> QED BY <1>1, <1>2, <1>3, <1>4, <1>5, <1>6 DEF Next

(* Every flag, field and thread position keeps its type (ArmHost).          *)
THEOREM TypeCorrect == Spec => []TypeOK
<1>1. Init => TypeOK
  <2> SUFFICES ASSUME Init PROVE TypeOK
    OBVIOUS
  <2>1. Outside \in StopRecord
    BY DEF Outside, StopRecord, StopPc
  <2>2. stopping \in [Callers -> StopRecord]
    BY <2>1 DEF Init
  <2>3. main \in [pc : MainPc, new : Workers \cup {None}]
    BY DEF Init, MainPc
  <2>4. worker \in [Workers -> WorkerPc]
    BY DEF Init, WorkerPc
  <2> QED BY <2>2, <2>3, <2>4 DEF Init, TypeOK, StopRecord
<1> QED BY <1>1, TypeStep, PTL DEF Spec

-----------------------------------------------------------------------------
(* Order. A worker that may still drive the servos is the only one alive;   *)
(* it is in the thread field, or about to be put there, and either the      *)
(* starting flag is up or the main thread is in stop and waits for it.      *)

Busy(w) == worker[w] \in {"setup", "bindCmd", "bindObs", "serve", "loop", "fin"}

Waits(w) ==
    \/ stopping[Main].pc \in {"flag", "join"}
    \/ stopping[Main].pc = "wait" /\ stopping[Main].whom = w

Alone    == \A v, w \in Workers : Alive(v) /\ Alive(w) => v = w
Watched  == \A w \in Workers : Busy(w) => starting \/ Waits(w)
Stored   == \A w \in Workers : Busy(w) =>
                /\ main.pc = "idle" => thread = w
                /\ main.pc = "assign" => main.new = w
Fresh    == main.pc \in {"check", "reset", "spawn"} => starting /\ \A w \in Workers : ~Alive(w)
MainSane ==
    /\ main.pc # "idle" => stopping[Main].pc = "out"
    /\ stopping[Main].pc # "out" => ~starting
OwnStop  == \A w \in Workers : stopping[w].pc # "out" => worker[w] = "cleanup"
HasPorts == \A w \in Workers :
                /\ worker[w] \in {"bindObs", "serve", "loop"} => holder["cmd"] = w
                /\ worker[w] \in {"serve", "loop"} => holder["obs"] = w
                /\ worker[w] = "loop" => running

Order == Alone /\ Watched /\ Stored /\ Fresh /\ MainSane /\ OwnStop /\ HasPorts
OrderInv == Orderly => Order

LEMMA PastGrows == [Next]_vars /\ Orderly' => Orderly
BY DEF Next, Attach, MainStops, MainStep, Permission, ResetStop, Assign, Spawn, StopStep, SetStop, ReadThread,
   Joined, Forget, CloseServer, ClearRunning, WorkerStep, Setup, Bind, Serve, LoopEnds, Finally,
   WorkerStops, vars, Orderly

LEMMA AliveFacts ==
    ASSUME TypeOK, NEW w \in Workers
    PROVE  Alive(w) <=> Busy(w) \/ CleaningUp(w)
BY DEF TypeOK, WorkerPc, Alive, Busy, CleaningUp

LEMMA AttachOrder ==
    ASSUME TypeOK, Order, Attach, past' = {}
    PROVE  Order'
<1>1. \A w \in Workers : ~CleaningUp(w)
  BY DEF Attach
<1>2. \A w \in Workers : ~Busy(w)
  BY DEF Attach, MainIdle, Order, Watched, Waits
<1>3. \A w \in Workers : ~Alive(w)
  BY <1>1, <1>2, AliveFacts
<1>4. UNCHANGED <<running, thread, holder, worker, stopping>> /\ starting' /\ main'.pc = "check"
  BY DEF Attach, TypeOK, socks
<1>5. stopping[Main].pc = "out"
  BY DEF Attach, MainIdle
<1> QED BY <1>2, <1>3, <1>4, <1>5 DEF Order, Alone, Watched, Stored, Fresh, MainSane, OwnStop,
           HasPorts, Alive, Busy, Waits

LEMMA MainOrder ==
    ASSUME TypeOK, Order, MainStops \/ Permission \/ ResetStop \/ Assign
    PROVE  Order'
<1>1. CASE MainStops
  <2>1. stopping' = [stopping EXCEPT ![Main] = [pc |-> "flag", whom |-> None]]
    BY <1>1 DEF MainStops, StopTo
  <2>2. stopping'[Main].pc = "flag" /\ \A w \in Workers : stopping'[w] = stopping[w]
    BY <2>1, MainAssumption DEF TypeOK, Callers
  <2>3. UNCHANGED <<running, thread, holder, worker, main>> /\ starting' = FALSE /\ main.pc = "idle"
    BY <1>1 DEF MainStops, MainIdle, socks
  <2> QED BY <2>2, <2>3 DEF Order, Alone, Watched, Stored, Fresh, MainSane, OwnStop, HasPorts,
             Alive, Busy, Waits
<1>2. CASE ResetStop
  <2>1. UNCHANGED <<running, starting, thread, holder, worker, stopping>>
        /\ main.pc = "reset" /\ main'.pc = "spawn"
    BY <1>2 DEF ResetStop, TypeOK, socks
  <2> QED BY <2>1 DEF Order, Alone, Watched, Stored, Fresh, MainSane, OwnStop, HasPorts,
             Alive, Busy, Waits
<1>3. CASE Assign
  <2>1. UNCHANGED <<running, starting, holder, worker, stopping>>
        /\ main.pc = "assign" /\ main'.pc = "idle" /\ thread' = main.new
    BY <1>3 DEF Assign, flags, socks
  <2> QED BY <2>1 DEF Order, Alone, Watched, Stored, Fresh, MainSane, OwnStop, HasPorts,
             Alive, Busy, Waits
<1>4. CASE Permission
  <2>1. /\ UNCHANGED <<running, thread, holder, worker, stopping>>
        /\ main.pc = "check" /\ main'.pc \in {"reset", "idle"}
        /\ main'.pc = "reset" => starting' = starting
        /\ starting' => starting
    BY <1>4 DEF Permission, TypeOK, socks
  <2>2. starting /\ \A w \in Workers : ~Alive(w) /\ ~Busy(w)
    BY <2>1 DEF Order, Fresh, Alive, Busy
  <2> QED BY <2>1, <2>2 DEF Order, Alone, Watched, Stored, Fresh, MainSane, OwnStop, HasPorts,
             Alive, Busy, Waits
<1> QED BY <1>1, <1>2, <1>3, <1>4

LEMMA SpawnOrder ==
    ASSUME TypeOK, Order, NEW v \in Workers, Spawn(v)
    PROVE  Order'
<1>1. /\ UNCHANGED <<running, starting, thread, holder, stopping>>
      /\ main.pc = "spawn" /\ main'.pc = "assign" /\ main'.new = v
  BY DEF Spawn, flags, socks
<1>2. worker'[v] = "setup" /\ \A w \in Workers : w # v => worker'[w] = worker[w]
  BY DEF Spawn, WorkerTo, TypeOK
<1>3. starting /\ \A w \in Workers : ~Alive(w)
  BY <1>1 DEF Order, Fresh
<1>4. \A w \in Workers : w # v => ~Alive(w)' /\ ~Busy(w)'
  BY <1>2, <1>3 DEF Alive, Busy
<1>5. Alone' /\ Watched' /\ Stored' /\ Fresh'
  BY <1>1, <1>3, <1>4 DEF Alone, Watched, Stored, Fresh
<1>6. MainSane' /\ OwnStop' /\ HasPorts'
  <2>1. \A w \in Workers : stopping[w].pc = "out"
    BY <1>3 DEF Order, OwnStop, Alive
  <2>2. stopping[Main].pc = "out"
    BY <1>1 DEF Order, MainSane
  <2> QED BY <1>1, <1>2, <1>4, <2>1, <2>2 DEF Order, MainSane, OwnStop, HasPorts, Busy
<1> QED BY <1>5, <1>6 DEF Order

(* A worker that cleans up is the only one alive, so its stop harms nobody. *)
LEMMA OwnStopOrder ==
    ASSUME TypeOK, Order, NEW v \in Workers, StopStep(v)
    PROVE  Order'
<1>1. stopping[v].pc # "out" /\ v \in Callers /\ v # Main
  BY MainAssumption DEF StopStep, SetStop, ReadThread, Joined, Forget, CloseServer, ClearRunning, Callers
<1>2. worker[v] = "cleanup" /\ Alive(v)
  BY <1>1 DEF Order, OwnStop, Alive
<1>3. \A w \in Workers : ~Busy(w) /\ (w # v => ~Alive(w))
  BY <1>2 DEF Order, Alone, Alive, Busy
<1>4. UNCHANGED <<starting, main>> /\ \A c \in Callers : c # v => stopping'[c] = stopping[c]
  BY <1>1 DEF StopStep, SetStop, ReadThread, Joined, Forget, CloseServer, ClearRunning, flags,
     socks, StopTo, TypeOK
<1>5. \/ worker' = worker
      \/ worker' = [worker EXCEPT ![v] = "done"] /\ stopping'[v].pc = "out"
  <2>1. CASE ClearRunning(v)
    BY <1>1, <2>1 DEF ClearRunning, StopTo, TypeOK
  <2>2. CASE ~ClearRunning(v)
    BY <2>2 DEF StopStep, SetStop, ReadThread, Joined, Forget, CloseServer
  <2> QED BY <2>1, <2>2
<1>6. \A w \in Workers : ~Busy(w)' /\ (w # v => ~Alive(w)' /\ worker'[w] = worker[w])
  BY <1>3, <1>5 DEF Busy, Alive, TypeOK
<1>7. Alone' /\ Watched' /\ Stored' /\ HasPorts'
  BY <1>6 DEF Alone, Watched, Stored, HasPorts, Busy
<1>8. Fresh'
  BY <1>2, <1>4 DEF Order, Fresh
<1>9. MainSane'
  BY <1>1, <1>4 DEF Order, MainSane, Callers
<1>10. OwnStop'
  BY <1>2, <1>4, <1>5, <1>6 DEF Order, OwnStop, Callers, TypeOK
<1> QED BY <1>7, <1>8, <1>9, <1>10 DEF Order

LEMMA MainStopOrder ==
    ASSUME TypeOK, Order, StopStep(Main), past' = {}
    PROVE  Order'
<1>1. stopping[Main].pc # "out" /\ Main \in Callers
  BY DEF StopStep, SetStop, ReadThread, Joined, Forget, CloseServer, ClearRunning, Callers
<1>2. ~starting /\ main.pc = "idle"
  BY <1>1 DEF Order, MainSane
<1>3. UNCHANGED <<starting, main, worker>> /\ \A w \in Workers : stopping'[w] = stopping[w]
  BY <1>1, MainAssumption DEF StopStep, SetStop, ReadThread, Joined, Forget, CloseServer,
     ClearRunning, flags, socks, StopTo, TypeOK, Callers
<1>4. Alone' /\ Fresh' /\ MainSane' /\ OwnStop'
  BY <1>2, <1>3 DEF Order, Alone, Fresh, MainSane, OwnStop, Alive
<1>5. \A w \in Workers : (Busy(w)' <=> Busy(w)) /\ (Busy(w) => Waits(w) /\ thread = w)
  BY <1>2, <1>3 DEF Order, Watched, Stored, Busy
<1>6. CASE SetStop(Main)
  <2>1. stopping'[Main].pc = "join" /\ UNCHANGED <<running, thread, holder>>
    BY <1>1, <1>6 DEF SetStop, StopTo, TypeOK, socks
  <2> QED BY <1>2, <1>3, <1>4, <1>5, <2>1 DEF Order, Watched, Stored, HasPorts, Waits
<1>7. CASE ReadThread(Main)
  <2>1. UNCHANGED <<running, thread, holder>>
    BY <1>7 DEF ReadThread, flags, socks
  <2>2. ASSUME NEW w \in Workers, Busy(w)
        PROVE  stopping'[Main].pc = "wait" /\ stopping'[Main].whom = w
    <3>1. thread = w /\ w \notin {None, Main}
      BY <1>5, <2>2, HostAssumption, MainAssumption
    <3> QED BY <1>1, <1>7, <3>1 DEF ReadThread, TypeOK
  <2> QED BY <1>2, <1>3, <1>4, <1>5, <2>1, <2>2 DEF Order, Watched, Stored, HasPorts, Waits
<1>8. CASE ~SetStop(Main) /\ ~ReadThread(Main)
  <2>1. \A w \in Workers : ~Busy(w)
    <3>1. CASE Joined(Main)
      <4>1. ~Alive(stopping[Main].whom) /\ stopping[Main].pc = "wait"
        BY <3>1 DEF Joined
      <4> QED BY <1>5, <4>1 DEF Waits, Busy, Alive
    <3>2. CASE ~Joined(Main)
      <4>1. stopping[Main].pc \in {"forget", "cmd", "obs", "clear"}
        BY <1>8, <3>2 DEF StopStep, Forget, CloseServer, ClearRunning
      <4> QED BY <1>5, <4>1 DEF Waits
    <3> QED BY <3>1, <3>2
  <2> QED BY <1>3, <1>4, <1>5, <2>1 DEF Order, Watched, Stored, HasPorts, Busy
<1> QED BY <1>6, <1>7, <1>8

LEMMA WorkerOrder ==
    ASSUME TypeOK, Order, NEW v \in Workers, WorkerStep(v)
    PROVE  Order'
<1>1. Alive(v) /\ worker[v] \in WorkerPc
  BY DEF WorkerStep, Setup, Bind, Serve, LoopEnds, Finally, WorkerStops, Alive, TypeOK
<1>2. /\ \A w \in Workers : w # v => ~Alive(w) /\ ~Busy(w)
      /\ main.pc \notin {"check", "reset", "spawn"}
  BY <1>1 DEF Order, Alone, Fresh, Alive, Busy
<1>3. \A w \in Workers : w # v => worker'[w] = worker[w]
  BY DEF WorkerStep, Setup, Bind, Serve, LoopEnds, Finally, WorkerStops, WorkerTo, TypeOK
<1>4. \A w \in Workers : w # v => ~Alive(w)' /\ ~Busy(w)'
  BY <1>2, <1>3 DEF Alive, Busy
<1>5. main' = main /\ thread' = thread
  BY DEF WorkerStep, Setup, Bind, Serve, LoopEnds, Finally, WorkerStops
<1>6. Alone' /\ Fresh'
  BY <1>2, <1>4, <1>5 DEF Alone, Fresh
<1>7. CASE WorkerStops(v)
  <2>1. UNCHANGED <<worker, running, holder>> /\ worker[v] = "cleanup" /\ starting' = FALSE
    BY <1>7 DEF WorkerStops, socks
  <2>2. v \in Callers /\ v # Main /\ \A c \in Callers : c # v => stopping'[c] = stopping[c]
    BY <1>7, MainAssumption DEF WorkerStops, StopTo, TypeOK, Callers
  <2>3. \A w \in Workers : ~Busy(w)'
    BY <1>4, <2>1 DEF Busy
  <2>4. OwnStop'
    BY <2>1, <2>2 DEF Order, OwnStop, Callers
  <2>5. MainSane'
    BY <1>5, <2>1, <2>2 DEF Order, MainSane, Callers
  <2> QED BY <1>6, <2>3, <2>4, <2>5 DEF Order, Watched, Stored, HasPorts, Busy
<1>8. CASE ~WorkerStops(v)
  <2>1. Busy(v) /\ UNCHANGED <<starting, stopping>>
    BY <1>8 DEF WorkerStep, Setup, Bind, Serve, LoopEnds, Finally, Busy, flags
  <2>2. Watched' /\ Stored' /\ MainSane'
    BY <1>4, <1>5, <2>1 DEF Order, Watched, Stored, MainSane, Waits
  <2>3. OwnStop'
    <3>1. stopping[v].pc = "out"
      BY <2>1 DEF Order, OwnStop, Busy
    <3> QED BY <1>3, <2>1, <3>1 DEF Order, OwnStop
  <2>4. HasPorts'
    <3> SUFFICES /\ worker'[v] \in {"bindObs", "serve", "loop"} => holder'["cmd"] = v
                 /\ worker'[v] \in {"serve", "loop"} => holder'["obs"] = v
                 /\ worker'[v] = "loop" => running'
      BY <1>4 DEF HasPorts, Busy
    <3>1. CASE Setup(v) \/ LoopEnds(v) \/ Finally(v)
      BY <3>1 DEF Setup, LoopEnds, Finally, WorkerTo, TypeOK
    <3>2. CASE Bind(v, "cmd", "bindCmd", "bindObs")
      BY <3>2 DEF Bind, WorkerTo, TypeOK, Ports
    <3>3. CASE Bind(v, "obs", "bindObs", "serve")
      <4>1. worker[v] = "bindObs" /\ holder["cmd"] = v
        BY <3>3 DEF Bind, Order, HasPorts
      <4> QED BY <3>3, <4>1 DEF Bind, WorkerTo, TypeOK, Ports
    <3>4. CASE Serve(v)
      BY <3>4 DEF Serve, WorkerTo, TypeOK, socks, Order, HasPorts
    <3> QED BY <1>8, <3>1, <3>2, <3>3, <3>4 DEF WorkerStep
  <2> QED BY <1>6, <2>2, <2>3, <2>4 DEF Order
<1> QED BY <1>7, <1>8

LEMMA OrderStep == TypeOK /\ OrderInv /\ [Next]_vars => OrderInv'
<1> SUFFICES ASSUME TypeOK, OrderInv, [Next]_vars, Orderly'
             PROVE  Order'
  BY DEF OrderInv
<1>0. Order /\ past' = {}
  BY PastGrows DEF OrderInv, Orderly
<1>1. CASE Attach
  BY <1>0, <1>1, AttachOrder
<1>2. CASE MainStops \/ Permission \/ ResetStop \/ Assign
  BY <1>0, <1>2, MainOrder
<1>3. CASE \E w \in Workers : Spawn(w)
  BY <1>0, <1>3, SpawnOrder
<1>4. CASE \E c \in Callers : StopStep(c)
  BY <1>0, <1>4, OwnStopOrder, MainStopOrder DEF Callers
<1>5. CASE \E w \in Workers : WorkerStep(w)
  BY <1>0, <1>5, WorkerOrder
<1>6. CASE UNCHANGED vars
  BY <1>0, <1>6 DEF vars, flags, socks, Order, Alone, Watched, Stored, Fresh, MainSane, OwnStop,
     HasPorts, Alive, Busy, Waits
<1> QED BY <1>1, <1>2, <1>3, <1>4, <1>5, <1>6 DEF Next, MainStep

LEMMA OrderHolds == Spec => [](OrderInv /\ TypeOK)
<1>1. Init => OrderInv
  BY DEF Init, OrderInv, Order, Alone, Watched, Stored, Fresh, MainSane, OwnStop, HasPorts,
     Alive, Busy, Outside, Callers
<1> QED BY <1>1, OrderStep, TypeCorrect, PTL DEF Spec

(* One loop at a time drives the servos, as long as every join waited for   *)
(* its worker and attach found none that cleans up (ArmHost.attach, stop).  *)
THEOREM OneLoopEver == Spec => []OneLoop
<1>1. OrderInv => OneLoop
  BY DEF OrderInv, OneLoop, Order, Alone, Alive
<1> QED BY <1>1, OrderHolds, PTL

(* That loop has both ports and the host says that it runs (ArmHost.loop).  *)
THEOREM LoopHasPorts == Spec => []LoopServes
<1>1. OrderInv => LoopServes
  BY DEF OrderInv, LoopServes, Serves, Order, HasPorts, Ports
<1> QED BY <1>1, OrderHolds, PTL
=============================================================================
