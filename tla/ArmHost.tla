------------------------------- MODULE ArmHost -------------------------------
(***************************************************************************)
(* Starting and stopping the arm host (ArmHost.kt): attach and stop on the *)
(* main thread, worker threads that set the bus up, bind the two TCP ports,*)
(* run the loop and clean up by calling stop themselves.  All of them      *)
(* share one stop flag and the same fields.  A step is one access to a     *)
(* shared field.  The loop itself is ArmLoop.                              *)
(***************************************************************************)
EXTENDS Naturals, FiniteSets

CONSTANTS
    Workers,    \* worker threads, each started at most once
    None,       \* null in a field
    SetupFails  \* TRUE when setting up the bus or opening a server socket may fail

ASSUME HostAssumption == None \notin Workers /\ SetupFails \in BOOLEAN

Main == "main"
ASSUME MainAssumption == Main \notin Workers

Callers == Workers \cup {Main}      \* of stop()
Ports   == {"cmd", "obs"}

VARIABLES
    running, starting, stop,    \* the shared flags
    thread,                     \* the worker thread in the field, or None
    field,                      \* cmdServer, obsServer: whose socket, or None
    holder,                     \* worker whose server socket has the port, or None
    main,                       \* where the main thread is in attach
    worker,                     \* where each worker thread is
    stopping,                   \* where each caller is in stop(), and whom it joins
    past                        \* history: "late" once join(800) returned before the
                                \* worker had ended, "overlap" once attach was called
                                \* while a worker cleaned up

flags == <<running, starting, stop>>
socks == <<field, holder>>
vars  == <<flags, thread, socks, main, worker, stopping, past>>

WorkerPc == {"none", "setup", "bindCmd", "bindObs", "serve", "loop", "fin", "cleanup", "done"}
StopPc   == {"out", "flag", "join", "wait", "forget", "cmd", "obs", "clear"}
MainPc   == {"idle", "check", "reset", "spawn", "assign"}

Outside == [pc |-> "out", whom |-> None]

Init ==
    /\ running = FALSE /\ starting = FALSE /\ stop = FALSE
    /\ thread = None
    /\ field = [p \in Ports |-> None] /\ holder = [p \in Ports |-> None]
    /\ main = [pc |-> "idle", new |-> None]
    /\ worker = [w \in Workers |-> "none"]
    /\ stopping = [c \in Callers |-> Outside]
    /\ past = {}

Alive(w) == worker[w] \notin {"none", "done"}
CleaningUp(w) == worker[w] = "cleanup"

WorkerTo(w, pc)   == worker' = [worker EXCEPT ![w] = pc]
StopTo(c, pc)     == stopping' = [stopping EXCEPT ![c] = [pc |-> pc, whom |-> None]]

-----------------------------------------------------------------------------
(* Faulty variants of actions below.                                        *)

\* the caller's thread stored instead of null
Forget_Caller(c) ==
    /\ stopping[c].pc = "forget"
    /\ thread' = c
    /\ StopTo(c, "cmd")
    /\ UNCHANGED <<flags, socks, main, worker, past>>

\* stop does not wait for the worker
ReadThread_NoJoin(c) ==
    /\ stopping[c].pc = "join"
    /\ StopTo(c, "forget")
    /\ UNCHANGED <<flags, thread, socks, main, worker, past>>

\* a worker that cleans up leaves the starting flag up
WorkerStops_KeepsStarting(w) ==
    /\ worker[w] = "cleanup" /\ stopping[w].pc = "out"
    /\ StopTo(w, "flag")
    /\ UNCHANGED <<flags, thread, socks, main, worker, past>>

-----------------------------------------------------------------------------
(* attach and start, on the main thread                                     *)

MainIdle == main.pc = "idle" /\ stopping[Main].pc = "out"

Attach ==
    /\ MainIdle /\ ~running /\ ~starting /\ \E w \in Workers : worker[w] = "none"
    /\ past' = past \cup {o \in {"overlap"} : \E w \in Workers : CleaningUp(w)}
    /\ starting' = TRUE
    /\ main' = [main EXCEPT !.pc = "check"]
    /\ UNCHANGED <<running, stop, thread, socks, worker, stopping>>

(* hasPermission: without it attach gives up.                               *)
Permission ==
    /\ main.pc = "check"
    /\ \/ main' = [main EXCEPT !.pc = "reset"] /\ UNCHANGED starting
       \/ main' = [main EXCEPT !.pc = "idle"] /\ starting' = FALSE
    /\ UNCHANGED <<running, stop, thread, socks, worker, stopping, past>>

ResetStop ==
    /\ main.pc = "reset"
    /\ stop' = FALSE
    /\ main' = [main EXCEPT !.pc = "spawn"]
    /\ UNCHANGED <<running, starting, thread, socks, worker, stopping, past>>

(* The thread runs before it is stored in the field.                        *)
Spawn(w) ==
    /\ main.pc = "spawn" /\ worker[w] = "none"
    /\ WorkerTo(w, "setup")
    /\ main' = [pc |-> "assign", new |-> w]
    /\ UNCHANGED <<flags, thread, socks, stopping, past>>

Assign ==
    /\ main.pc = "assign"
    /\ thread' = main.new
    /\ main' = [pc |-> "idle", new |-> None]
    /\ UNCHANGED <<flags, socks, worker, stopping, past>>

MainStops ==
    /\ MainIdle
    /\ starting' = FALSE
    /\ StopTo(Main, "flag")
    /\ UNCHANGED <<running, stop, thread, socks, main, worker, past>>

-----------------------------------------------------------------------------
(* stop(), by the main thread or a worker that cleans up                    *)

SetStop(c) ==
    /\ stopping[c].pc = "flag"
    /\ stop' = TRUE
    /\ StopTo(c, "join")
    /\ UNCHANGED <<running, starting, thread, socks, main, worker, past>>

ReadThread(c) ==
    /\ stopping[c].pc = "join"
    /\ IF thread \in {None, c} THEN StopTo(c, "forget")
       ELSE stopping' = [stopping EXCEPT ![c] = [pc |-> "wait", whom |-> thread]]
    /\ UNCHANGED <<flags, thread, socks, main, worker, past>>

(* join(800) returns when the thread has ended, or without.                 *)
Joined(c) ==
    /\ stopping[c].pc = "wait"
    /\ past' = past \cup {l \in {"late"} : Alive(stopping[c].whom)}
    /\ StopTo(c, "forget")
    /\ UNCHANGED <<flags, thread, socks, main, worker>>

Forget(c) ==
    /\ stopping[c].pc = "forget"
    /\ thread' = None
    /\ StopTo(c, "cmd")
    /\ UNCHANGED <<flags, socks, main, worker, past>>

CloseServer(c, p, next) ==
    /\ stopping[c].pc = p
    /\ holder' = [holder EXCEPT ![p] = IF @ = field[p] THEN None ELSE @]
    /\ StopTo(c, next)
    /\ UNCHANGED <<flags, thread, field, main, worker, past>>

ClearRunning(c) ==
    /\ stopping[c].pc = "clear"
    /\ running' = FALSE
    /\ StopTo(c, "out")
    /\ worker' = IF c = Main THEN worker ELSE [worker EXCEPT ![c] = "done"]
    /\ UNCHANGED <<starting, stop, thread, socks, main, past>>

StopStep(c) ==
    \/ SetStop(c) \/ ReadThread(c) \/ Joined(c) \/ Forget(c)
    \/ CloseServer(c, "cmd", "obs") \/ CloseServer(c, "obs", "clear")
    \/ ClearRunning(c)

-----------------------------------------------------------------------------
(* The worker thread                                                        *)

(* The bus is opened and configured; the stop flag is not looked at.        *)
Setup(w) ==
    /\ worker[w] = "setup"
    /\ \/ WorkerTo(w, "bindCmd")
       \/ SetupFails /\ WorkerTo(w, "fin")
    /\ UNCHANGED <<flags, thread, socks, main, stopping, past>>

(* The field is assigned once the socket is bound; a port that is taken, or *)
(* any other error of the socket, ends the worker.                          *)
Bind(w, p, at, next) ==
    /\ worker[w] = at
    /\ \/ /\ holder[p] = None
          /\ holder' = [holder EXCEPT ![p] = w]
          /\ field' = [field EXCEPT ![p] = w]
          /\ WorkerTo(w, next)
       \/ /\ holder[p] # None \/ SetupFails
          /\ WorkerTo(w, "fin")
          /\ UNCHANGED socks
    /\ UNCHANGED <<flags, thread, main, stopping, past>>

Serve(w) ==
    /\ worker[w] = "serve"
    /\ running' = TRUE
    /\ WorkerTo(w, "loop")
    /\ UNCHANGED <<starting, stop, thread, socks, main, stopping, past>>

LoopEnds(w) ==
    /\ worker[w] = "loop" /\ stop
    /\ WorkerTo(w, "fin")
    /\ UNCHANGED <<flags, thread, socks, main, stopping, past>>

Finally(w) ==
    /\ worker[w] = "fin"
    /\ running' = FALSE
    /\ WorkerTo(w, "cleanup")
    /\ UNCHANGED <<starting, stop, thread, socks, main, stopping, past>>

WorkerStops(w) ==
    /\ worker[w] = "cleanup" /\ stopping[w].pc = "out"
    /\ starting' = FALSE
    /\ StopTo(w, "flag")
    /\ UNCHANGED <<running, stop, thread, socks, main, worker, past>>

WorkerStep(w) ==
    \/ Setup(w) \/ Bind(w, "cmd", "bindCmd", "bindObs") \/ Bind(w, "obs", "bindObs", "serve")
    \/ Serve(w) \/ LoopEnds(w) \/ Finally(w) \/ WorkerStops(w)

MainStep == Permission \/ ResetStop \/ Assign \/ \E w \in Workers : Spawn(w)

Next ==
    \/ Attach \/ MainStops \/ MainStep
    \/ \E c \in Callers : StopStep(c)
    \/ \E w \in Workers : WorkerStep(w)

Fairness ==
    /\ WF_vars(MainStep)
    /\ \A c \in Callers : WF_vars(StopStep(c))
    /\ \A w \in Workers : WF_vars(WorkerStep(w))

Spec == Init /\ [][Next]_vars /\ Fairness

-----------------------------------------------------------------------------
TypeOK ==
    /\ running \in BOOLEAN /\ starting \in BOOLEAN /\ stop \in BOOLEAN
    /\ thread \in Workers \cup {None}
    /\ field \in [Ports -> Workers \cup {None}]
    /\ holder \in [Ports -> Workers \cup {None}]
    /\ main \in [pc : MainPc, new : Workers \cup {None}]
    /\ worker \in [Workers -> WorkerPc]
    /\ stopping \in [Callers -> [pc : StopPc, whom : Workers \cup {None}]]
    /\ past \subseteq {"late", "overlap"}

(* As long as every join waited for its worker and attach found none that   *)
(* cleans up.                                                               *)
Orderly == past = {}

(* Two loops never drive servos at the same time (attach's flags and the    *)
(* join in stop see to it).                                                 *)
OneLoop ==
    Orderly => \A v, w \in Workers : worker[v] = "loop" /\ worker[w] = "loop" => v = w

(* README.md:54, "The first serial port is driven on the phone (command     *)
(* port 9101, state port 9102)": a loop that nobody stopped has both ports. *)
Serves(w) == worker[w] = "loop" /\ ~stop => running /\ \A p \in Ports : holder[p] = w

LoopServes == Orderly => \A w \in Workers : Serves(w)

(* Once attached, the host runs or can be attached again.                   *)
HostIsUsable == starting ~> (running \/ ~starting \/ ~Orderly)

=============================================================================
