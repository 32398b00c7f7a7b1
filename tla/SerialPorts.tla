---------------------------- MODULE SerialPorts ----------------------------
(***************************************************************************)
(* USB serial adapters on the phone (UsbSerialManager.kt): which adapter   *)
(* the arm host drives, which have a raw TCP listener and on which port,   *)
(* and when an adapter's serial port is open.  All of the manager's state  *)
(* belongs to the main thread; the listeners' threads (SerialTcpServer.kt) *)
(* only post to it.  Clients' bytes are left out.                          *)
(***************************************************************************)
EXTENDS Integers, SequencesExt

CONSTANTS
    Devices,   \* USB device ids; an adapter plugged in again gets a new one
    Serial,    \* the serial number of each; its own id for one that has none
    Conns,     \* TCP connections, each made once at a time
    Ports,     \* SerialPrefs.PORTS
    MaxQ,      \* messages on the main thread when another may be caused
    OpenFails  \* TRUE when opening a serial port may fail

ASSUME SerialAssumption ==
    /\ Serial \in [Devices -> STRING] /\ IsFiniteSet(Conns)
    /\ Ports \subseteq Nat \ {0} /\ Ports # {}
    /\ MaxQ \in Nat \ {0} /\ OpenFails \in BOOLEAN

NoPort   == 0
NoDevice == "none"
Keys     == Devices \cup {Serial[d] : d \in Devices}

ASSUME NoDeviceAssumption == NoDevice \notin Devices

VARIABLES
    usb,        \* plugged: deviceList; perm: hasPermission; asked: open permission
                \* dialogs; gone: ids that were unplugged
    attached,   \* the manager's map of known adapters
    arm,        \* armHostDeviceId, or NoDevice
    server,     \* TCP port each adapter's listener was started on, or NoPort
    opened,     \* adapters whose serial port is open for TCP
    closeTasks, \* adapters with a delayed close
    portOf,     \* TCP port kept under each key, or NoPort
    mainQ,      \* what is posted to the main thread
    closing,    \* the adapter a close task is about to close, or NoDevice
    conn,       \* step, adapter, last client count seen; live: in its server's list
    moved       \* history: the arm host's adapter was unplugged or given a TCP port,
                \* or an adapter was given one before there was an arm host

manager == <<attached, arm, server, opened, closeTasks, portOf>>
phone == <<usb, manager, mainQ, closing, conn>>
vars == <<phone, moved>>

ConnPc  == {"none", "joining", "open", "leaving"}
NoConn  == [pc |-> "none", dev |-> NoDevice, seen |-> 0, live |-> FALSE]
Message(kind, d, n) == [kind |-> kind, dev |-> d, n |-> n]

Init ==
    /\ usb = [plugged |-> {}, perm |-> {}, asked |-> {}, gone |-> {}]
    /\ attached = {} /\ arm = NoDevice /\ opened = {} /\ closeTasks = {}
    /\ server = [d \in Devices |-> NoPort]
    /\ portOf = [k \in Keys |-> NoPort]
    /\ mainQ = << >> /\ closing = NoDevice
    /\ conn = [c \in Conns |-> NoConn]
    /\ moved = FALSE

Room         == Len(mainQ) < MaxQ
Send(m)      == mainQ' = Append(mainQ, m)
Clients(d)   == {c \in Conns : conn[c].live /\ conn[c].dev = d}
Listens(d)   == server[d] # NoPort
Ask(devices) == usb' = [usb EXCEPT !.asked = @ \cup devices]

-----------------------------------------------------------------------------
(* TCP port numbers.  tcpPortFor gives an adapter the port kept under its   *)
(* key, or the first one no attached adapter has.  The key is the serial    *)
(* number, which Android does not tell before the permission is given.      *)

SerialKey(d) == IF d \in usb.perm THEN Serial[d] ELSE d

\* a faulty variant: the port after the last one taken
FirstFree_AfterLast(taken) == Max(taken \cup {NoPort}) + 1

FirstFree(taken) == IF Ports \subseteq taken THEN Min(Ports) ELSE Min(Ports \ taken)

PortFor(ports, known, d) ==
    IF ports[SerialKey(d)] # NoPort THEN ports
    ELSE [ports EXCEPT ![SerialKey(d)] = FirstFree({ports[SerialKey(o)] : o \in known})]

(* infos() numbers every adapter it lists, in the order of a hash set.      *)
Numbered(ports, known, devices) ==
    {FoldLeft(LAMBDA p, d : PortFor(p, known, d), ports, order) :
       order \in SetToSeqs({d \in devices : ports[SerialKey(d)] = NoPort})}

(* The arm host's adapter is left out while its host runs.                  *)
Listed(ports, known, all, host) ==
    Numbered(ports, known, all) \cup Numbered(ports, known, all \ {host})

OnChanged == portOf' \in Listed(portOf, attached', attached' \cup usb.plugged, arm')

-----------------------------------------------------------------------------
(* USB and the user                                                         *)

Plug(d) ==
    /\ Room /\ d \notin usb.plugged \cup usb.gone
    /\ \A e \in usb.plugged : Serial[e] # Serial[d]
    /\ usb' = [usb EXCEPT !.plugged = @ \cup {d}]
    /\ Send(Message("attach", d, 0))
    /\ UNCHANGED <<manager, closing, conn>>

Unplug(d) ==
    /\ Room /\ d \in usb.plugged
    /\ usb' = [plugged |-> usb.plugged \ {d}, perm |-> usb.perm \ {d},
               asked |-> usb.asked \ {d}, gone |-> usb.gone \cup {d}]
    /\ Send(Message("detach", d, 0))
    /\ UNCHANGED <<manager, closing, conn>>

Answer(d) ==
    /\ Room /\ d \in usb.asked
    /\ \/ /\ usb' = [usb EXCEPT !.asked = @ \ {d}, !.perm = @ \cup {d}]
          /\ Send(Message("granted", d, 0))
       \/ /\ usb' = [usb EXCEPT !.asked = @ \ {d}]
          /\ Send(Message("denied", d, 0))
    /\ UNCHANGED <<manager, closing, conn>>

(* A listener's threads: a count is read when the list changed and posted   *)
(* later.                                                                   *)
Accept(c, d) ==
    /\ Room /\ conn[c].pc = "none" /\ Listens(d)
    /\ \A other \in Conns : ~(conn[other].pc = "joining" /\ conn[other].dev = d)
    /\ conn' = [conn EXCEPT ![c] = [pc |-> "joining", dev |-> d, live |-> TRUE,
                                    seen |-> Cardinality(Clients(d)) + 1]]
    /\ UNCHANGED <<usb, manager, mainQ, closing>>

Leave(c) ==
    /\ conn[c].pc = "open"
    /\ conn' = [conn EXCEPT ![c].pc = "leaving", ![c].live = FALSE,
                            ![c].seen = Cardinality(Clients(conn[c].dev) \ {c})]
    /\ UNCHANGED <<usb, manager, mainQ, closing>>

PostCount(c) ==
    LET me == conn[c] IN
    /\ me.pc \in {"joining", "leaving"}
    /\ Send(Message("count", me.dev, me.seen))
    /\ conn' = [conn EXCEPT ![c] =
                  IF me.pc = "leaving" THEN NoConn
                  ELSE [me EXCEPT !.pc = IF me.live THEN "open" ELSE "leaving",
                                  !.seen = IF me.live THEN @ ELSE 0]]
    /\ UNCHANGED <<usb, manager, closing>>

(* writeOrReopen: without an open port, or when the write fails, the main   *)
(* thread is asked for one.                                                 *)
Receive(c) ==
    LET d == conn[c].dev IN
    /\ Room /\ conn[c].pc = "open"
    /\ Send(Message(IF d \in opened THEN "reopen" ELSE "open", d, 0))
    /\ UNCHANGED <<usb, manager, closing, conn>>

-----------------------------------------------------------------------------
(* What the handlers are made of                                            *)

(* stop() of a listener closes and forgets its clients.                     *)
Stopped(d) ==
    [c \in Conns |-> IF conn[c].dev = d /\ conn[c].live
                     THEN [conn[c] EXCEPT !.live = FALSE,
                             !.pc = IF @ = "joining" THEN @ ELSE "leaving",
                             !.seen = IF conn[c].pc = "joining" THEN @ ELSE 0]
                     ELSE conn[c]]

(* openPort, given the ports open before it: it needs the permission, for   *)
(* which it asks, and a listener.                                           *)
OpenPort(d, before, listens) ==
    /\ \/ /\ opened' = before
          /\ d \in before \/ d \notin usb.perm \/ ~listens \/ OpenFails
       \/ /\ opened' = before \cup {d}
          /\ d \in usb.perm /\ listens
    /\ IF d \notin before /\ d \in usb.plugged \ usb.perm THEN Ask({d}) ELSE UNCHANGED usb

TryOpen(d, before) ==
    /\ OpenPort(d, before, Listens(d))
    /\ IF d \in usb.perm \ before /\ Listens(d) THEN OnChanged ELSE UNCHANGED portOf

Next1(kind) ==
    /\ closing = NoDevice /\ mainQ # << >> /\ Head(mainQ).kind = kind
    /\ mainQ' = Tail(mainQ)
    /\ UNCHANGED closing

Dev == Head(mainQ).dev

(* scanAndListen: the first adapter with permission becomes the arm host's  *)
(* when it has none, the others get a listener. Numbers are given when the  *)
(* first of them is attached, before the rest of the list is known.         *)
ScanAndListen ==
    LET ready == usb.plugged \cap usb.perm IN
    /\ attached' = attached \cup usb.plugged
    /\ Ask(usb.plugged \ usb.perm)
    /\ \E skipped \in SUBSET (usb.plugged \ usb.perm), first \in ready \cup {NoDevice} :
         /\ first = NoDevice <=> ready = {}
         /\ arm' = IF arm = NoDevice THEN first ELSE arm
         /\ LET known == attached \cup (IF ready = {} THEN usb.plugged ELSE skipped \cup {first})
            IN  \E ports \in Listed(portOf, known, attached', arm') :
                  portOf' \in Numbered(ports, attached', ready \ (opened \cup {arm'}))
    /\ server' = [d \in Devices |->
                    IF d \in ready \ (opened \cup {arm'}) /\ ~Listens(d)
                    THEN portOf'[SerialKey(d)] ELSE server[d]]
    /\ UNCHANGED <<opened, closeTasks, conn>>

(* Faulty variants of actions below.                                        *)

\* the listener of an unplugged adapter is kept
HandleDetach_KeepsListener ==
    /\ Next1("detach")
    /\ closeTasks' = closeTasks \ {Dev}
    /\ arm' = IF arm = Dev THEN NoDevice ELSE arm
    /\ opened' = opened \ {Dev} /\ attached' = attached \ {Dev}
    /\ OnChanged
    /\ UNCHANGED <<usb, server, conn>>

\* the arm host's adapter gets a listener too
HandleGranted_ListensToo ==
    /\ Next1("granted")
    /\ attached' = attached \cup {Dev}
    /\ arm' = IF Dev \in usb.perm /\ arm = NoDevice THEN Dev ELSE arm
    /\ portOf' \in Numbered(portOf, attached', attached')
    /\ server' = IF Listens(Dev) THEN server ELSE [server EXCEPT ![Dev] = portOf'[SerialKey(Dev)]]
    /\ UNCHANGED <<usb, opened, closeTasks, conn>>

\* a client that comes back within the delay is thought to find the port open
HandleJoined_AssumesOpen ==
    /\ Next1("count") /\ Head(mainQ).n > 0
    /\ closeTasks' = closeTasks \ {Dev}
    /\ UNCHANGED <<attached, arm, server, conn>>
    /\ IF Dev \in closeTasks THEN UNCHANGED <<opened, usb, portOf>> ELSE TryOpen(Dev, opened)

-----------------------------------------------------------------------------
(* The main thread                                                          *)

HandleAttach == Next1("attach") /\ ScanAndListen

Refresh ==
    /\ closing = NoDevice
    /\ ScanAndListen
    /\ UNCHANGED <<mainQ, closing>>

HandleDetach ==
    /\ Next1("detach")
    /\ closeTasks' = closeTasks \ {Dev}
    /\ arm' = IF arm = Dev THEN NoDevice ELSE arm
    /\ opened' = opened \ {Dev}
    /\ server' = [server EXCEPT ![Dev] = NoPort]
    /\ conn' = Stopped(Dev)
    /\ attached' = attached \ {Dev}
    /\ OnChanged
    /\ UNCHANGED usb

(* attachDevice, then openPort for clients that already wait.               *)
HandleGranted ==
    /\ Next1("granted")
    /\ attached' = attached \cup {Dev}
    /\ arm' = IF Dev \in usb.perm /\ arm = NoDevice THEN Dev ELSE arm
    /\ OnChanged
    /\ server' = IF Dev \notin usb.perm \/ arm' = Dev \/ Listens(Dev) \/ Dev \in opened THEN server
                 ELSE [server EXCEPT ![Dev] = portOf'[SerialKey(Dev)]]
    /\ IF Clients(Dev) # {} THEN OpenPort(Dev, opened, Listens(Dev)) ELSE UNCHANGED <<opened, usb>>
    /\ UNCHANGED <<closeTasks, conn>>

HandleDenied ==
    /\ Next1("denied")
    /\ UNCHANGED <<usb, attached, arm, server, opened, closeTasks, conn>>
    /\ OnChanged

HandleJoined ==
    /\ Next1("count") /\ Head(mainQ).n > 0
    /\ closeTasks' = closeTasks \ {Dev}
    /\ UNCHANGED <<attached, arm, server, conn>>
    /\ TryOpen(Dev, opened)

HandleLeft ==
    /\ Next1("count") /\ Head(mainQ).n = 0
    /\ closeTasks' = closeTasks \cup {Dev}
    /\ UNCHANGED <<usb, attached, arm, server, opened, portOf, conn>>

HandleOpen ==
    /\ Next1("open")
    /\ UNCHANGED <<attached, arm, server, closeTasks, conn>>
    /\ TryOpen(Dev, opened)

HandleReopen ==
    /\ Next1("reopen")
    /\ UNCHANGED <<attached, arm, server, closeTasks, conn>>
    /\ TryOpen(Dev, opened \ {Dev})

(* The close task reads the count and then closes.                          *)
FireClose(d) ==
    /\ closing = NoDevice /\ d \in closeTasks
    /\ closeTasks' = closeTasks \ {d}
    /\ closing' = IF Clients(d) = {} THEN d ELSE NoDevice
    /\ UNCHANGED <<usb, attached, arm, server, opened, portOf, mainQ, conn>>

ClosePort ==
    /\ closing # NoDevice
    /\ opened' = opened \ {closing}
    /\ closing' = NoDevice
    /\ UNCHANGED <<usb, attached, arm, server, closeTasks, mainQ, conn>>
    /\ OnChanged

(* The user picks a TCP port for an adapter in the list; one that another   *)
(* attached adapter has is refused.                                         *)
SetTcpPort(d, port) ==
    /\ closing = NoDevice /\ d \in attached \cup usb.plugged
    /\ \E ports \in Numbered(portOf, attached, attached \ {d}) :
         /\ port \notin {ports[SerialKey(o)] : o \in attached \ {d}}
         /\ attached' = attached \cup {d}
         /\ portOf' \in Listed([ports EXCEPT ![SerialKey(d)] = port], attached',
                              attached' \cup usb.plugged, arm)
    /\ server' = [server EXCEPT ![d] = port]
    /\ conn' = Stopped(d)
    /\ IF d \in opened \/ Clients(d) # {}
       THEN OpenPort(d, opened \ {d}, TRUE)
       ELSE UNCHANGED <<opened, usb>>
    /\ UNCHANGED <<arm, closeTasks, mainQ, closing>>

(* A dashboard request lists the adapters, and so does a refused port.      *)
Snapshot ==
    /\ portOf' \in Listed(portOf, attached, attached \cup usb.plugged, arm)
    /\ UNCHANGED <<usb, attached, arm, server, opened, closeTasks, mainQ, closing, conn>>

MainThread ==
    \/ HandleAttach \/ HandleDetach \/ HandleGranted \/ HandleDenied
    \/ HandleJoined \/ HandleLeft \/ HandleOpen \/ HandleReopen \/ ClosePort
    \/ \E d \in Devices : FireClose(d)

OtherStep ==
    \/ \E d \in Devices : Plug(d) \/ Answer(d)
    \/ \E c \in Conns : PostCount(c) \/ Leave(c) \/ Receive(c) \/ \E d \in Devices : Accept(c, d)
    \/ MainThread \/ Refresh \/ Snapshot

Next ==
    \/ OtherStep /\ UNCHANGED moved
    \/ \E d \in Devices : Unplug(d) /\ moved' = (moved \/ d = arm)
    \/ \E d \in Devices, port \in Ports :
         SetTcpPort(d, port) /\ moved' = (moved \/ arm \in {d, NoDevice})

Fairness == WF_phone(MainThread) /\ \A c \in Conns : WF_phone(PostCount(c))

Spec == Init /\ [][Next]_vars /\ Fairness

-----------------------------------------------------------------------------
TypeOK ==
    /\ usb \in [plugged : SUBSET Devices, perm : SUBSET Devices,
               asked : SUBSET Devices, gone : SUBSET Devices]
    /\ usb.perm \subseteq usb.plugged /\ attached \subseteq Devices
    /\ arm \in Devices \cup {NoDevice} /\ closing \in Devices \cup {NoDevice}
    /\ server \in [Devices -> Ports \cup {NoPort}]
    /\ portOf \in [Keys -> Ports \cup {NoPort}]
    /\ opened \subseteq Devices /\ closeTasks \subseteq Devices
    /\ conn \in [Conns -> [pc : ConnPc, dev : Devices \cup {NoDevice}, seen : 0..Cardinality(Conns),
                           live : BOOLEAN]]
    /\ moved \in BOOLEAN

Posted(kinds, d) == \E i \in DOMAIN mainQ : mainQ[i].kind \in kinds /\ mainQ[i].dev = d
PostedCount(d, ns) == \E i \in DOMAIN mainQ :
                        mainQ[i].kind = "count" /\ mainQ[i].dev = d /\ mainQ[i].n \in ns

(* Nothing outlives its adapter (detachDevice, openPort): once a detach is  *)
(* handled no port or listener of that adapter is left, and an open port    *)
(* always has the listener its bytes go to.                                 *)
DetachLeavesNothing ==
    /\ \A d \in opened : Listens(d)
    /\ \A d \in Devices : Listens(d) => d \in attached
    /\ \A d \in usb.gone : ~Posted({"detach"}, d) => d \notin attached /\ arm # d

(* A connected client has its serial port open, or a message that opens it  *)
(* is on its way (onClientsChanged, the close task, setTcpPort): a close    *)
(* decided on an old count does not leave it without.                       *)
ClientIsServed ==
    \A d \in usb.perm :
      Clients(d) # {} /\ d \notin opened =>
        \/ Posted({"open", "reopen", "granted"}, d)
        \/ PostedCount(d, 1..Cardinality(Conns))
        \/ \E c \in Conns : conn[c].pc = "joining" /\ conn[c].dev = d

(* UsbSerialManager.kt:205, "First servo bus runs the 30 Hz host. Extra     *)
(* boards stay raw TCP.": as long as the host's adapter stays plugged in    *)
(* and nobody gives it a TCP port, no answer, scan, count or reopen         *)
(* message, however late, opens it for TCP.                                 *)
HostKeepsAdapter == ~moved => arm \notin opened
=============================================================================
