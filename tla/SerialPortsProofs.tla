-------------------------- MODULE SerialPortsProofs --------------------------
(***************************************************************************)
(* For any adapters, clients and ports: the arm host's adapter is never    *)
(* open for TCP, as long as it stays plugged in and the user gives ports   *)
(* to the other adapters only, once there is an arm host; nothing outlives *)
(* an unplugged adapter; as long as serial ports open, a connected client  *)
(* is served; and every variable keeps its type, the TCP ports included.   *)
(***************************************************************************)
EXTENDS SerialPorts, FiniteSetTheorems, WellFoundedInduction, TLAPS

UsbInv ==
    /\ usb \in [plugged : SUBSET Devices, perm : SUBSET Devices,
               asked : SUBSET Devices, gone : SUBSET Devices]
    /\ usb.perm \subseteq usb.plugged /\ usb.asked \subseteq usb.plugged
    /\ usb.plugged \cap usb.gone = {}

Kinds == {"attach", "detach", "granted", "denied", "count", "open", "reopen"}
Messages == [kind : Kinds, dev : Devices, n : Nat]

DetachIsTrue ==
    /\ mainQ \in Seq(Messages)
    /\ \A i \in DOMAIN mainQ : mainQ[i].kind = "detach" => mainQ[i].dev \in usb.gone

ConnInv == conn \in [Conns -> [pc : ConnPc, dev : Devices \cup {NoDevice}, seen : Nat, live : BOOLEAN]]
           /\ \A c \in Conns : conn[c].pc # "none" => conn[c].dev \in Devices

(* What is open has a listener.                                             *)
OpenListens ==
    /\ server = [d \in Devices |-> server[d]]
    /\ opened \subseteq Devices /\ \A d \in opened : Listens(d)

Base == UsbInv /\ DetachIsTrue /\ ConnInv /\ OpenListens

(* The host's adapter is plugged in and has no listener; before there is a  *)
(* host nothing listens.                                                    *)
Apart ==
    /\ arm # NoDevice => arm \in usb.plugged /\ ~Listens(arm)
    /\ arm = NoDevice => \A d \in Devices : ~Listens(d)

(* Nothing is claimed of the host once its adapter was moved.               *)
IInv == Base /\ (~moved => Apart)

Keeps == Base' /\ (Apart => Apart')

-----------------------------------------------------------------------------
(* What a handler does to the queue.                                        *)
LEMMA AppendKeeps ==
    ASSUME DetachIsTrue, NEW m \in Messages, Send(m),
           usb.gone \subseteq usb'.gone,
           m.kind = "detach" => m.dev \in usb'.gone
    PROVE  DetachIsTrue'
<1>1. mainQ' \in Seq(Messages)
  BY DEF DetachIsTrue, Send
<1>2. ASSUME NEW i \in DOMAIN mainQ', mainQ'[i].kind = "detach"
      PROVE  mainQ'[i].dev \in usb'.gone
  <2>1. i \in 1..Len(mainQ) + 1
    BY DEF DetachIsTrue, Send
  <2>2. CASE i = Len(mainQ) + 1
    BY <2>2, <1>2 DEF DetachIsTrue, Send
  <2>3. CASE i \in 1..Len(mainQ)
    BY <2>3, <1>2 DEF DetachIsTrue, Send
  <2> QED BY <2>1, <2>2, <2>3 DEF DetachIsTrue
<1> QED BY <1>1, <1>2 DEF DetachIsTrue

LEMMA HeadFacts ==
    ASSUME DetachIsTrue, mainQ # << >>, mainQ' = Tail(mainQ)
    PROVE  /\ Dev \in Devices /\ (Head(mainQ).kind = "detach" => Dev \in usb.gone)
           /\ usb.gone \subseteq usb'.gone => DetachIsTrue'
<1>1. 1 \in DOMAIN mainQ /\ Head(mainQ) = mainQ[1] /\ mainQ[1] \in Messages
  BY DEF DetachIsTrue
<1>2. Dev \in Devices /\ (Head(mainQ).kind = "detach" => Dev \in usb.gone)
  BY <1>1 DEF Dev, Messages, DetachIsTrue
<1>3. mainQ' \in Seq(Messages)
  BY DEF DetachIsTrue
<1>4. \A i \in DOMAIN mainQ' : i + 1 \in DOMAIN mainQ /\ mainQ'[i] = mainQ[i + 1]
  BY DEF DetachIsTrue
<1>5. ASSUME usb.gone \subseteq usb'.gone
      PROVE  DetachIsTrue'
  BY <1>3, <1>4, <1>5 DEF DetachIsTrue
<1> QED BY <1>2, <1>5

(* What the parts of the handlers do.                                       *)
LEMMA AskKeeps ==
    ASSUME UsbInv, NEW ds \in SUBSET usb.plugged, Ask(ds)
    PROVE  UsbInv' /\ usb'.plugged = usb.plugged /\ usb'.gone = usb.gone
BY DEF UsbInv, Ask

LEMMA OpenPortFacts ==
    ASSUME UsbInv, NEW d \in Devices, NEW before, NEW listens, OpenPort(d, before, listens)
    PROVE  /\ UsbInv' /\ usb'.plugged = usb.plugged /\ usb'.gone = usb.gone
           /\ opened' \subseteq before \cup {d}
           /\ d \in opened' => d \in before \/ listens
<1>1. CASE UNCHANGED usb
  BY <1>1 DEF OpenPort, UsbInv
<1>2. CASE d \in usb.plugged /\ Ask({d})
  <2>1. UsbInv' /\ usb'.plugged = usb.plugged /\ usb'.gone = usb.gone
    BY <1>2, AskKeeps
  <2> QED BY <2>1 DEF OpenPort
<1> QED BY <1>1, <1>2 DEF OpenPort

LEMMA MessageType ==
    ASSUME NEW d \in Devices, NEW n \in Nat, NEW kind \in Kinds
    PROVE  /\ Message(kind, d, n) \in Messages
           /\ Message(kind, d, n).kind = kind /\ Message(kind, d, n).dev = d
BY DEF Message, Messages

LEMMA CountIsNat ==
    ASSUME NEW S \in SUBSET Conns
    PROVE  Cardinality(S) \in Nat
BY FS_Subset, FS_CardinalityType, SerialAssumption

LEMMA StoppedKeeps ==
    ASSUME ConnInv, NEW d \in Devices, conn' = Stopped(d)
    PROVE  ConnInv'
<1> USE DEF ConnInv, ConnPc
<1>1. ASSUME NEW c \in Conns
      PROVE  /\ conn'[c] \in [pc : ConnPc, dev : Devices \cup {NoDevice}, seen : Nat, live : BOOLEAN]
             /\ conn'[c].pc # "none" => conn'[c].dev \in Devices
  <2>1. CASE conn[c].dev = d /\ conn[c].live
    <3>1. conn'[c] = [conn[c] EXCEPT !.live = FALSE,
                         !.pc = IF @ = "joining" THEN @ ELSE "leaving",
                         !.seen = IF conn[c].pc = "joining" THEN @ ELSE 0]
      BY <2>1 DEF Stopped
    <3>2. /\ conn'[c].dev = d /\ conn'[c].live = FALSE /\ conn'[c].pc \in ConnPc
          /\ conn'[c].seen \in Nat
          /\ DOMAIN conn'[c] = {"pc", "dev", "seen", "live"}
      BY <2>1, <3>1
    <3>3. conn'[c] = [pc |-> conn'[c].pc, dev |-> d, seen |-> conn'[c].seen, live |-> FALSE]
      BY <3>1, <2>1
    <3> QED BY <3>2, <3>3
  <2>2. CASE ~(conn[c].dev = d /\ conn[c].live)
    BY <2>2 DEF Stopped
  <2> QED BY <2>1, <2>2
<1> QED BY <1>1 DEF Stopped

-----------------------------------------------------------------------------
(* The USB side, the user's answers and the clients leave the ports alone.  *)
LEMMA OutsideStep ==
    ASSUME Base, NEW d \in Devices, Plug(d) \/ Unplug(d) \/ Answer(d)
    PROVE  Base' /\ (Apart /\ (usb'.gone = usb.gone \/ d # arm) => Apart')
<1> USE DEF Base, Kinds
<1>1. UNCHANGED <<manager, closing, conn>>
  BY DEF Plug, Unplug, Answer
<1>2. ConnInv' /\ OpenListens'
  BY <1>1 DEF ConnInv, OpenListens, Listens, manager
<1>3. \A kind \in Kinds : Message(kind, d, 0) \in Messages /\ Message(kind, d, 0).kind = kind
                                                   /\ Message(kind, d, 0).dev = d
  BY MessageType
<1>4. CASE Plug(d)
  <2>1. UsbInv'
    BY <1>4 DEF Plug, UsbInv
  <2>2. usb'.gone = usb.gone /\ usb.plugged \subseteq usb'.plugged
    BY <1>4 DEF Plug, UsbInv
  <2>3. DetachIsTrue'
    BY <1>3, <1>4, <2>2, AppendKeeps DEF Plug
  <2>4. Apart => Apart'
    BY <1>1, <2>2 DEF Apart, Listens, manager
  <2> QED BY <1>2, <2>1, <2>3, <2>4
<1>5. CASE Unplug(d)
  <2>1. UsbInv'
    BY <1>5 DEF Unplug, UsbInv
  <2>2. usb'.gone = usb.gone \cup {d} /\ usb'.plugged = usb.plugged \ {d}
    BY <1>5 DEF Unplug
  <2>3. DetachIsTrue'
    BY <1>3, <1>5, <2>2, AppendKeeps DEF Unplug
  <2>4. usb'.gone # usb.gone
    BY <1>5, <2>2 DEF Unplug, UsbInv
  <2>5. Apart /\ d # arm => Apart'
    BY <1>1, <1>5, <2>2 DEF Apart, Listens, manager, Unplug
  <2> QED BY <1>2, <2>1, <2>3, <2>4, <2>5
<1>6. CASE Answer(d)
  <2>1. /\ usb'.gone = usb.gone /\ usb'.plugged = usb.plugged
        /\ usb' \in [plugged : SUBSET Devices, perm : SUBSET Devices,
                     asked : SUBSET Devices, gone : SUBSET Devices]
        /\ usb'.perm \subseteq usb.perm \cup {d} /\ usb'.asked \subseteq usb.asked
    <3>1. CASE usb' = [usb EXCEPT !.asked = @ \ {d}, !.perm = @ \cup {d}]
      BY <3>1 DEF UsbInv
    <3>2. CASE usb' = [usb EXCEPT !.asked = @ \ {d}]
      BY <3>2 DEF UsbInv
    <3> QED BY <1>6, <3>1, <3>2 DEF Answer
  <2>2. UsbInv'
    BY <1>6, <2>1 DEF Answer, UsbInv
  <2>3. DetachIsTrue'
    <3>1. CASE Send(Message("granted", d, 0))
      BY <1>3, <2>1, <3>1, AppendKeeps
    <3>2. CASE Send(Message("denied", d, 0))
      BY <1>3, <2>1, <3>2, AppendKeeps
    <3> QED BY <1>6, <3>1, <3>2 DEF Answer
  <2>4. Apart => Apart'
    BY <1>1, <2>1 DEF Apart, Listens, manager
  <2> QED BY <1>2, <2>2, <2>3, <2>4
<1> QED BY <1>4, <1>5, <1>6

LEMMA ClientStep ==
    ASSUME Base, NEW c \in Conns,
           \/ PostCount(c) \/ Leave(c) \/ Receive(c)
           \/ \E d \in Devices : Accept(c, d)
    PROVE  Keeps
<1> USE DEF Base, Keeps, Kinds
<1>1. UNCHANGED <<usb, manager, closing>>
  BY DEF PostCount, Leave, Receive, Accept
<1>2. UsbInv' /\ OpenListens' /\ (Apart => Apart') /\ usb'.gone = usb.gone
  BY <1>1 DEF UsbInv, OpenListens, Apart, Listens, manager
<1>3. CASE PostCount(c)
  <2>1. conn[c].dev \in Devices /\ conn[c].seen \in Nat
    BY <1>3 DEF PostCount, ConnInv
  <2>2. DetachIsTrue'
    <3>1. Message("count", conn[c].dev, conn[c].seen) \in Messages
      BY <2>1, MessageType
    <3>2. Message("count", conn[c].dev, conn[c].seen).kind = "count"
      BY <2>1, MessageType
    <3> QED BY <1>2, <1>3, <3>1, <3>2, AppendKeeps DEF PostCount
  <2>3. ConnInv'
    <3>1. CASE conn[c].pc = "leaving"
      BY <1>3, <3>1 DEF PostCount, ConnInv, ConnPc, NoConn
    <3>2. CASE conn[c].pc = "joining" /\ conn[c].live
      BY <1>3, <3>2 DEF PostCount, ConnInv, ConnPc
    <3>3. CASE conn[c].pc = "joining" /\ ~conn[c].live
      BY <1>3, <3>3 DEF PostCount, ConnInv, ConnPc
    <3> QED BY <1>3, <3>1, <3>2, <3>3 DEF PostCount
  <2> QED BY <1>2, <2>2, <2>3
<1>4. CASE Leave(c)
  <2>1. Cardinality(Clients(conn[c].dev) \ {c}) \in Nat
    BY CountIsNat DEF Clients
  <2>2. ConnInv'
    <3> DEFINE n == Cardinality(Clients(conn[c].dev) \ {c})
               Types == [pc : ConnPc, dev : Devices \cup {NoDevice}, seen : Nat, live : BOOLEAN]
    <3> HIDE DEF n
    <3>1. n \in Nat
      BY <2>1 DEF n
    <3>2. conn \in [Conns -> Types] /\ conn[c] \in Types /\ conn[c].dev \in Devices
      BY <1>4 DEF Leave, ConnInv
    <3>3. [conn[c] EXCEPT !.pc = "leaving", !.live = FALSE, !.seen = n] \in Types
      BY <3>1, <3>2 DEF ConnPc
    <3>4. conn' = [conn EXCEPT ![c] = [conn[c] EXCEPT !.pc = "leaving", !.live = FALSE, !.seen = n]]
      BY <1>4, <3>2 DEF Leave, n
    <3> QED BY <3>2, <3>3, <3>4 DEF ConnInv
  <2>3. DetachIsTrue'
    BY <1>2, <1>4 DEF Leave, DetachIsTrue
  <2> QED BY <1>2, <2>2, <2>3
<1>5. CASE Receive(c)
  <2>1. conn[c].dev \in Devices
    BY <1>5 DEF Receive, ConnInv
  <2>2. DetachIsTrue'
    <3>1. CASE Send(Message("open", conn[c].dev, 0))
      BY <1>2, <2>1, <3>1, MessageType, AppendKeeps
    <3>2. CASE Send(Message("reopen", conn[c].dev, 0))
      BY <1>2, <2>1, <3>2, MessageType, AppendKeeps
    <3> QED BY <1>5, <3>1, <3>2 DEF Receive
  <2> QED BY <1>2, <2>2, <1>5 DEF Receive, ConnInv
<1>6. ASSUME NEW d \in Devices, Accept(c, d)
      PROVE  Keeps
  <2>1. Cardinality(Clients(d)) + 1 \in Nat
    BY CountIsNat DEF Clients
  <2>2. ConnInv'
    BY <1>6, <2>1 DEF Accept, ConnInv, ConnPc
  <2>3. DetachIsTrue'
    BY <1>2, <1>6 DEF Accept, DetachIsTrue
  <2> QED BY <1>2, <2>2, <2>3
<1> QED BY <1>3, <1>4, <1>5, <1>6
-----------------------------------------------------------------------------
(* Handlers that choose no new host only open ports that have a listener.   *)
LEMMA OpenKeepsPorts ==
    ASSUME UsbInv, OpenListens, NEW d \in Devices, NEW before \in SUBSET opened,
           OpenPort(d, before, Listens(d)), server' = server, arm' = arm
    PROVE  OpenListens' /\ (Apart => Apart')
<1>1. usb'.plugged = usb.plugged /\ opened' \subseteq before \cup {d}
      /\ (d \in opened' => d \in before \/ Listens(d))
  BY OpenPortFacts
<1> QED BY <1>1 DEF OpenListens, Apart, Listens

LEMMA ScanStep ==
    ASSUME Base, ScanAndListen
    PROVE  UsbInv' /\ ConnInv' /\ OpenListens' /\ usb'.gone = usb.gone /\ (Apart => Apart')
<1> USE DEF Base
<1>1. UsbInv' /\ usb'.plugged = usb.plugged /\ usb'.gone = usb.gone
  BY AskKeeps DEF ScanAndListen
<1>2. ConnInv' /\ opened' = opened
  BY DEF ScanAndListen, ConnInv
<1> DEFINE ready == usb.plugged \cap usb.perm
<1>3. PICK first \in ready \cup {NoDevice} :
        /\ first = NoDevice <=> ready = {}
        /\ arm' = IF arm = NoDevice THEN first ELSE arm
  BY DEF ScanAndListen
<1>4. server' = [d \in Devices |->
                    IF d \in ready \ (opened \cup {arm'}) /\ ~Listens(d)
                    THEN portOf'[SerialKey(d)] ELSE server[d]]
  BY DEF ScanAndListen
<1> HIDE DEF ready
<1>5. \A d \in Devices : d = arm' \/ Listens(d) \/ ready = {} => server'[d] = server[d]
  BY <1>4
<1>6. server' = [d \in Devices |-> server'[d]] /\ \A d \in Devices : Listens(d) => Listens(d)'
  BY <1>4, <1>5 DEF Listens
<1>7. OpenListens'
  BY <1>2, <1>6 DEF OpenListens
<1>8. ASSUME Apart
      PROVE  Apart'
  <2>1. ~(arm' = NoDevice) => arm' \in usb.plugged /\ server'[arm'] = server[arm']
    BY <1>3, <1>5, <1>8 DEF ready, Apart, UsbInv
  <2>2. arm' = NoDevice => ready = {}
    BY <1>3, NoDeviceAssumption DEF ready, UsbInv
  <2> QED BY <1>1, <1>3, <1>5, <1>8, <2>1, <2>2 DEF Apart, Listens, UsbInv, ready
<1> QED BY <1>1, <1>2, <1>7, <1>8

LEMMA DetachStep ==
    ASSUME Base, HandleDetach
    PROVE  Keeps
<1> USE DEF Base, Keeps, Kinds
<1>1. Dev \in Devices /\ Dev \in usb.gone /\ DetachIsTrue'
  BY HeadFacts DEF HandleDetach, Next1
<1>2. UsbInv' /\ ConnInv'
  BY <1>1, StoppedKeeps DEF HandleDetach, UsbInv
<1>3. /\ server' = [server EXCEPT ![Dev] = NoPort]
      /\ opened' = opened \ {Dev} /\ usb' = usb
  BY DEF HandleDetach
<1>4. \A d \in Devices : server'[d] = IF d = Dev THEN NoPort ELSE server[d]
  BY <1>3 DEF OpenListens
<1>5. server' = [d \in Devices |-> server'[d]]
  BY <1>3 DEF OpenListens
<1>6. OpenListens'
  BY <1>3, <1>4, <1>5 DEF OpenListens, Listens
<1>7. ASSUME Apart
      PROVE  Apart'
  <2>1. arm' = arm /\ (arm # NoDevice => arm # Dev)
    BY <1>1, <1>7 DEF HandleDetach, Apart, UsbInv
  <2> QED BY <1>3, <1>4, <1>7, <2>1 DEF Apart, Listens, UsbInv
<1> QED BY <1>1, <1>2, <1>6, <1>7

LEMMA GrantedStep ==
    ASSUME Base, HandleGranted
    PROVE  Keeps
<1> USE DEF Base, Keeps, Kinds
<1>1. Dev \in Devices /\ (usb.gone \subseteq usb'.gone => DetachIsTrue')
  BY HeadFacts DEF HandleGranted, Next1
<1>2. /\ UsbInv' /\ usb'.plugged = usb.plugged /\ usb'.gone = usb.gone
      /\ opened' \subseteq opened \cup {Dev}
      /\ Dev \in opened' => Dev \in opened \/ Listens(Dev)
  <2>1. CASE Clients(Dev) # {}
    BY <1>1, <2>1, OpenPortFacts DEF HandleGranted
  <2>2. CASE Clients(Dev) = {}
    BY <2>2 DEF HandleGranted, UsbInv
  <2> QED BY <2>1, <2>2
<1>3. ConnInv' /\ DetachIsTrue'
  BY <1>1, <1>2 DEF HandleGranted, ConnInv
<1>4. /\ arm' = IF Dev \in usb.perm /\ arm = NoDevice THEN Dev ELSE arm
      /\ server' = IF Dev \notin usb.perm \/ arm' = Dev \/ Listens(Dev) \/ Dev \in opened
                   THEN server ELSE [server EXCEPT ![Dev] = portOf'[SerialKey(Dev)]]
  BY DEF HandleGranted
<1>5. server' = [d \in Devices |-> server'[d]]
  BY <1>4 DEF OpenListens
<1>6. \A d \in Devices :
        d # Dev \/ Listens(d) \/ d = arm' \/ d \notin usb.perm => server'[d] = server[d]
  BY <1>4 DEF OpenListens
<1>7. OpenListens'
  BY <1>1, <1>2, <1>5, <1>6, <1>4 DEF OpenListens, Listens
<1>8. ASSUME Apart
      PROVE  Apart'
  <2>1. CASE arm # NoDevice
    BY <2>1, <1>1, <1>2, <1>4, <1>5, <1>6, <1>8 DEF Apart, Listens, UsbInv
  <2>2. CASE arm = NoDevice /\ Dev \in usb.perm
    BY <2>2, <1>1, <1>2, <1>4, <1>5, <1>6, <1>8, NoDeviceAssumption DEF Apart, Listens, UsbInv
  <2>3. CASE arm = NoDevice /\ Dev \notin usb.perm
    BY <2>3, <1>1, <1>2, <1>4, <1>5, <1>8 DEF Apart, Listens, UsbInv
  <2> QED BY <2>1, <2>2, <2>3
<1> QED BY <1>2, <1>3, <1>7, <1>8

LEMMA PortStep ==
    ASSUME Base, NEW d \in Devices, NEW port \in Ports, SetTcpPort(d, port)
    PROVE  Base' /\ (Apart /\ arm \notin {d, NoDevice} => Apart')
<1> USE DEF Base
<1>1. /\ arm' = arm
      /\ server' = [server EXCEPT ![d] = port] /\ mainQ' = mainQ
  BY DEF SetTcpPort
<1>2. /\ UsbInv' /\ usb'.plugged = usb.plugged /\ usb'.gone = usb.gone
      /\ opened' \subseteq opened \cup {d}
  <2>1. CASE d \in opened \/ Clients(d) # {}
    <3>1. OpenPort(d, opened \ {d}, TRUE)
      BY <2>1 DEF SetTcpPort
    <3>2. /\ UsbInv' /\ usb'.plugged = usb.plugged /\ usb'.gone = usb.gone
          /\ opened' \subseteq (opened \ {d}) \cup {d}
      BY <3>1, OpenPortFacts, Zenon
    <3> QED BY <3>2
  <2>2. CASE ~(d \in opened \/ Clients(d) # {})
    BY <2>2 DEF SetTcpPort, UsbInv
  <2> QED BY <2>1, <2>2
<1>3. ConnInv' /\ DetachIsTrue'
  <2>1. ConnInv'
    BY StoppedKeeps DEF SetTcpPort
  <2> QED BY <1>1, <1>2, <2>1 DEF DetachIsTrue
<1>4. port # NoPort
  BY SerialAssumption DEF NoPort
<1>5. server' = [e \in Devices |-> server'[e]]
  BY <1>1 DEF OpenListens
<1>6. \A e \in Devices : server'[e] = IF e = d THEN port ELSE server[e]
  BY <1>1 DEF OpenListens
<1>7. OpenListens'
  BY <1>1, <1>2, <1>4, <1>5, <1>6 DEF OpenListens, Listens
<1>8. Apart /\ arm \notin {d, NoDevice} => Apart'
  BY <1>1, <1>2, <1>6 DEF Apart, Listens, UsbInv
<1> QED BY <1>2, <1>3, <1>7, <1>8

LEMMA MainThreadStep ==
    ASSUME Base, MainThread
    PROVE  Keeps
<1> USE DEF Base, Keeps, Kinds
<1>1. CASE HandleAttach
  <2>1. UsbInv' /\ ConnInv' /\ OpenListens' /\ usb'.gone = usb.gone /\ (Apart => Apart')
    BY <1>1, ScanStep DEF HandleAttach
  <2> QED BY <1>1, <2>1, HeadFacts DEF HandleAttach, Next1
<1>2. ASSUME NEW kind \in Kinds, Next1(kind), UNCHANGED <<arm, server, conn>>,
             NEW before \in SUBSET opened, OpenPort(Dev, before, Listens(Dev))
      PROVE  Keeps
  <2>1. Dev \in Devices /\ (usb.gone \subseteq usb'.gone => DetachIsTrue')
    BY <1>2, HeadFacts DEF Next1
  <2>2. UsbInv' /\ usb'.gone = usb.gone /\ OpenListens' /\ (Apart => Apart')
    BY <1>2, <2>1, OpenPortFacts, OpenKeepsPorts
  <2> QED BY <1>2, <2>1, <2>2 DEF ConnInv
<1>3. CASE HandleJoined \/ HandleOpen
  <2>1. OpenPort(Dev, opened, Listens(Dev)) /\ UNCHANGED <<arm, server, conn>>
        /\ (Next1("count") \/ Next1("open"))
    BY <1>3 DEF HandleJoined, HandleOpen, TryOpen
  <2> QED BY <2>1, <1>2
<1>4. CASE HandleReopen
  <2>1. OpenPort(Dev, opened \ {Dev}, Listens(Dev)) /\ UNCHANGED <<arm, server, conn>>
        /\ Next1("reopen")
    BY <1>4 DEF HandleReopen, TryOpen
  <2> QED BY <2>1, <1>2
<1>5. ASSUME UNCHANGED <<usb, arm, server, conn>>, opened' \subseteq opened
      PROVE  UsbInv' /\ ConnInv' /\ OpenListens' /\ (Apart => Apart') /\ (mainQ' = mainQ => DetachIsTrue')
  BY <1>5 DEF UsbInv, OpenListens, Apart, ConnInv, DetachIsTrue, Listens
<1>6. CASE HandleDenied \/ HandleLeft
  <2>1. UNCHANGED <<usb, arm, server, conn>> /\ opened' = opened
        /\ (Next1("denied") \/ Next1("count"))
    BY <1>6 DEF HandleDenied, HandleLeft
  <2>2. DetachIsTrue'
    BY <2>1, HeadFacts DEF Next1
  <2> QED BY <1>5, <2>1, <2>2
<1>7. CASE ClosePort \/ \E d \in Devices : FireClose(d)
  <2>1. UNCHANGED <<usb, arm, server, conn, mainQ>> /\ opened' \subseteq opened
    BY <1>7 DEF ClosePort, FireClose
  <2> QED BY <1>5, <2>1
<1> QED BY <1>1, <1>3, <1>4, <1>6, <1>7, DetachStep, GrantedStep DEF MainThread

LEMMA OtherStepKeeps ==
    ASSUME Base, OtherStep
    PROVE  Keeps
<1>1. CASE Refresh
  <2>1. UsbInv' /\ ConnInv' /\ OpenListens' /\ usb'.gone = usb.gone /\ (Apart => Apart') /\ mainQ' = mainQ
    BY <1>1, ScanStep DEF Refresh
  <2> QED BY <2>1 DEF Base, Keeps, DetachIsTrue
<1>2. CASE Snapshot
  BY <1>2 DEF Snapshot, Base, Keeps, UsbInv, OpenListens, Apart, ConnInv, DetachIsTrue, Listens
<1>3. ASSUME NEW d \in Devices, Plug(d) \/ Answer(d)
      PROVE  Keeps
  <2>1. usb'.gone = usb.gone
    BY <1>3 DEF Plug, Answer, Base, UsbInv
  <2> QED BY <1>3, <2>1, OutsideStep DEF Keeps
<1> QED BY <1>1, <1>2, <1>3, ClientStep, MainThreadStep DEF OtherStep

LEMMA InductiveStep ==
    ASSUME IInv, [Next]_vars
    PROVE  IInv'
<1>1. CASE OtherStep /\ UNCHANGED moved
  BY <1>1, OtherStepKeeps DEF IInv, Keeps
<1>2. ASSUME NEW d \in Devices, Unplug(d), moved' = (moved \/ d = arm)
      PROVE  IInv'
  BY <1>2, OutsideStep DEF IInv
<1>3. ASSUME NEW d \in Devices, NEW port \in Ports, SetTcpPort(d, port),
             moved' = (moved \/ arm \in {d, NoDevice})
      PROVE  IInv'
  BY <1>3, PortStep DEF IInv
<1>4. CASE UNCHANGED vars
  BY <1>4 DEF vars, phone, manager, IInv, Base, UsbInv, OpenListens, Apart, ConnInv, DetachIsTrue, Listens
<1> QED BY <1>1, <1>2, <1>3, <1>4 DEF Next

-----------------------------------------------------------------------------
LEMMA InitHolds == Init => IInv
BY NoDeviceAssumption DEF Init, IInv, Base, UsbInv, DetachIsTrue, ConnInv, OpenListens, Apart, Listens, NoConn, ConnPc

(* The arm host's adapter is never open for TCP (attachDevice, openPort)    *)
(* while it stays plugged in and keeps away from setTcpPort.                *)
THEOREM OwnerHolds == Spec => []HostKeepsAdapter
<1>1. Init => IInv
  BY InitHolds
<1>2. IInv /\ [Next]_vars => IInv'
  BY InductiveStep
<1>3. IInv => HostKeepsAdapter
  BY NoDeviceAssumption DEF IInv, Base, UsbInv, OpenListens, Apart, HostKeepsAdapter, Listens
<1> QED BY <1>1, <1>2, <1>3, PTL DEF Spec
-----------------------------------------------------------------------------
(* Nothing outlives its adapter.  A permission answered before the adapter  *)
(* was unplugged is handled before the message that says so.                *)

Leaving(d) == Posted({"detach"}, d)

DetachFollows ==
    \A i \in DOMAIN mainQ :
      mainQ[i].kind = "granted" /\ mainQ[i].dev \in usb.gone =>
        \E j \in DOMAIN mainQ : j > i /\ mainQ[j].kind = "detach" /\ mainQ[j].dev = mainQ[i].dev

Tidy ==
    /\ \A d \in Devices : Listens(d) => d \in attached
    /\ \A d \in usb.gone : ~Leaving(d) => d \notin attached /\ arm # d
    /\ DetachFollows

LEMMA RestOfQueue ==
    ASSUME DetachIsTrue, DetachFollows, mainQ # << >>, mainQ' = Tail(mainQ), usb'.gone = usb.gone
    PROVE  /\ DetachFollows'
           /\ \A d : Leaving(d) /\ (Head(mainQ).kind # "detach" \/ Dev # d) => Leaving(d)'
           /\ Head(mainQ).kind = "granted" => \A d \in usb.gone : d = Dev => Leaving(d)'
<1>1. \A i \in DOMAIN mainQ' : i \in Nat /\ i + 1 \in DOMAIN mainQ /\ mainQ'[i] = mainQ[i + 1]
  BY DEF DetachIsTrue
<1>2. \A i \in DOMAIN mainQ : i \in Nat /\ (i # 1 => i - 1 \in DOMAIN mainQ' /\ mainQ'[i - 1] = mainQ[i])
  BY DEF DetachIsTrue
<1>3. 1 \in DOMAIN mainQ /\ Head(mainQ) = mainQ[1]
  BY DEF DetachIsTrue
<1>4. ASSUME NEW i \in DOMAIN mainQ', mainQ'[i].kind = "granted", mainQ'[i].dev \in usb.gone
      PROVE  \E j \in DOMAIN mainQ' : j > i /\ mainQ'[j].kind = "detach" /\ mainQ'[j].dev = mainQ'[i].dev
  <2>1. i + 1 \in DOMAIN mainQ /\ mainQ[i + 1] = mainQ'[i]
    BY <1>1
  <2>2. PICK j \in DOMAIN mainQ : j > i + 1 /\ mainQ[j].kind = "detach" /\ mainQ[j].dev = mainQ'[i].dev
    BY <1>4, <2>1 DEF DetachFollows
  <2>3. j - 1 \in DOMAIN mainQ' /\ mainQ'[j - 1] = mainQ[j] /\ j - 1 > i
    BY <1>1, <1>2, <2>2
  <2> QED BY <2>2, <2>3
<1>5. ASSUME NEW d, Leaving(d), Head(mainQ).kind # "detach" \/ Dev # d
      PROVE  Leaving(d)'
  <2>1. PICK i \in DOMAIN mainQ : mainQ[i].kind = "detach" /\ mainQ[i].dev = d
    BY <1>5 DEF Leaving, Posted
  <2>2. i # 1
    BY <1>3, <1>5, <2>1 DEF Dev
  <2> QED BY <1>2, <2>1, <2>2 DEF Leaving, Posted
<1>6. ASSUME Head(mainQ).kind = "granted", Dev \in usb.gone
      PROVE  \A d : d = Dev => Leaving(d)'
  <2>1. PICK j \in DOMAIN mainQ : j > 1 /\ mainQ[j].kind = "detach" /\ mainQ[j].dev = Dev
    BY <1>3, <1>6 DEF DetachFollows, Dev
  <2> QED BY <1>2, <2>1 DEF Leaving, Posted
<1> QED BY <1>4, <1>5, <1>6 DEF DetachFollows

LEMMA LongerQueue ==
    ASSUME DetachIsTrue, DetachFollows, NEW m \in Messages, Send(m),
           \/ usb'.gone = usb.gone /\ (m.kind = "granted" => m.dev \notin usb.gone)
           \/ usb'.gone = usb.gone \cup {m.dev} /\ m.kind = "detach"
    PROVE  /\ DetachFollows'
           /\ \A d : Leaving(d) => Leaving(d)'
           /\ m.kind = "detach" => \A d : d = m.dev => Leaving(d)'
<1> DEFINE last == Len(mainQ) + 1
<1>1. /\ DOMAIN mainQ' = DOMAIN mainQ \cup {last} /\ mainQ'[last] = m
      /\ \A i \in DOMAIN mainQ : mainQ'[i] = mainQ[i] /\ last > i
  BY DEF DetachIsTrue, Send
<1> HIDE DEF last
<1>2. ASSUME NEW i \in DOMAIN mainQ', mainQ'[i].kind = "granted", mainQ'[i].dev \in usb'.gone
      PROVE  \E j \in DOMAIN mainQ' : j > i /\ mainQ'[j].kind = "detach" /\ mainQ'[j].dev = mainQ'[i].dev
  <2>1. i \in DOMAIN mainQ /\ mainQ'[i] = mainQ[i]
    BY <1>1, <1>2
  <2>2. CASE mainQ[i].dev \in usb.gone
    BY <1>1, <1>2, <2>1, <2>2 DEF DetachFollows
  <2>3. CASE m.kind = "detach" /\ m.dev = mainQ[i].dev
    BY <1>1, <2>1, <2>3
  <2> QED BY <1>2, <2>1, <2>2, <2>3
<1>3. \A d : Leaving(d) => Leaving(d)'
  BY <1>1 DEF Leaving, Posted
<1>4. m.kind = "detach" => \A d : d = m.dev => Leaving(d)'
  BY <1>1 DEF Leaving, Posted
<1> QED BY <1>2, <1>3, <1>4 DEF DetachFollows

(* Steps that leave the adapters and their listeners alone.                 *)
LEMMA QuietStep ==
    ASSUME Tidy, UNCHANGED <<server, attached, arm>>, DetachFollows',
           \A d \in usb.gone : Leaving(d) => Leaving(d)',
           \A d \in usb'.gone : d \in usb.gone \/ Leaving(d)'
    PROVE  Tidy'
BY DEF Tidy, Listens

LEMMA OutsideTidy ==
    ASSUME Base, Tidy, NEW d \in Devices, Plug(d) \/ Unplug(d) \/ Answer(d)
    PROVE  Tidy'
<1> USE DEF Base, Kinds
<1>1. UNCHANGED <<server, attached, arm>>
  BY DEF Plug, Unplug, Answer, manager
<1>2. \A kind \in Kinds : Message(kind, d, 0) \in Messages /\ Message(kind, d, 0).kind = kind
                                                   /\ Message(kind, d, 0).dev = d
  BY MessageType
<1>3. CASE Plug(d)
  <2>1. usb'.gone = usb.gone /\ Send(Message("attach", d, 0))
    BY <1>3 DEF Plug, UsbInv
  <2> QED BY <1>1, <1>2, <2>1, LongerQueue, QuietStep DEF Tidy
<1>4. CASE Unplug(d)
  <2>1. usb'.gone = usb.gone \cup {d} /\ Send(Message("detach", d, 0))
    BY <1>4 DEF Unplug
  <2>2. DetachFollows' /\ Leaving(d)' /\ \A e : Leaving(e) => Leaving(e)'
    BY <1>2, <2>1, LongerQueue DEF Tidy
  <2> QED BY <1>1, <2>1, <2>2, QuietStep
<1>5. CASE Answer(d)
  <2>1. usb'.gone = usb.gone /\ d \notin usb.gone
    BY <1>5 DEF Answer, UsbInv
  <2>2. CASE Send(Message("granted", d, 0))
    BY <1>1, <1>2, <2>1, <2>2, LongerQueue, QuietStep DEF Tidy
  <2>3. CASE Send(Message("denied", d, 0))
    BY <1>1, <1>2, <2>1, <2>3, LongerQueue, QuietStep DEF Tidy
  <2> QED BY <1>5, <2>2, <2>3 DEF Answer
<1> QED BY <1>3, <1>4, <1>5

LEMMA ClientTidy ==
    ASSUME Base, Tidy, NEW c \in Conns,
           \/ PostCount(c) \/ Leave(c) \/ Receive(c)
           \/ \E d \in Devices : Accept(c, d)
    PROVE  Tidy'
<1> USE DEF Base, Kinds
<1>1. UNCHANGED <<server, attached, arm, usb>>
  BY DEF PostCount, Leave, Receive, Accept, manager
<1>2. ASSUME mainQ' = mainQ
      PROVE  Tidy'
  BY <1>1, <1>2 DEF Tidy, Listens, Leaving, Posted, DetachFollows
<1>3. ASSUME NEW m \in Messages, Send(m), m.kind # "granted"
      PROVE  Tidy'
  BY <1>1, <1>3, LongerQueue, QuietStep DEF Tidy
<1>4. CASE PostCount(c)
  <2>1. conn[c].dev \in Devices /\ conn[c].seen \in Nat
    BY <1>4 DEF PostCount, ConnInv
  <2>2. Message("count", conn[c].dev, conn[c].seen) \in Messages
        /\ Message("count", conn[c].dev, conn[c].seen).kind = "count"
    BY <2>1, MessageType
  <2> QED BY <1>3, <1>4, <2>2 DEF PostCount
<1>5. CASE Receive(c)
  <2>1. conn[c].dev \in Devices
    BY <1>5 DEF Receive, ConnInv
  <2>2. \A kind \in {"open", "reopen"} : Message(kind, conn[c].dev, 0) \in Messages
                                      /\ Message(kind, conn[c].dev, 0).kind = kind
    BY <2>1, MessageType
  <2>3. \E kind \in {"open", "reopen"} : Send(Message(kind, conn[c].dev, 0))
    BY <1>5 DEF Receive
  <2> QED BY <1>3, <2>2, <2>3
<1>6. CASE Leave(c) \/ \E d \in Devices : Accept(c, d)
  BY <1>2, <1>6 DEF Leave, Accept
<1> QED BY <1>4, <1>5, <1>6

(* A scan and an answer only add adapters that are plugged in, and an       *)
(* answer those it was given for.                                           *)
LEMMA ScanTidy ==
    ASSUME Base, Tidy, ScanAndListen,
           DetachFollows', \A d \in usb.gone : Leaving(d) => Leaving(d)'
    PROVE  Tidy'
<1> USE DEF Base
<1>1. usb'.gone = usb.gone /\ attached' = attached \cup usb.plugged
  BY ScanStep DEF ScanAndListen
<1>2. arm' = arm \/ arm' \in usb.plugged \cup {NoDevice}
  BY DEF ScanAndListen
<1>3. \A d \in Devices : Listens(d)' => Listens(d) \/ d \in usb.plugged
  BY DEF ScanAndListen, Listens
<1>4. \A d \in usb.gone : d \notin usb.plugged /\ d # NoDevice
  BY NoDeviceAssumption DEF UsbInv
<1> QED BY <1>1, <1>2, <1>3, <1>4 DEF Tidy

LEMMA DetachTidy ==
    ASSUME Base, Tidy, HandleDetach
    PROVE  Tidy'
<1> USE DEF Base
<1>1. Dev \in Devices /\ mainQ # << >> /\ mainQ' = Tail(mainQ) /\ usb' = usb
  BY HeadFacts DEF HandleDetach, Next1
<1>2. DetachFollows' /\ \A d : Leaving(d) /\ Dev # d => Leaving(d)'
  BY <1>1, RestOfQueue DEF Tidy
<1>3. /\ attached' = attached \ {Dev} /\ server' = [server EXCEPT ![Dev] = NoPort]
      /\ arm' = IF arm = Dev THEN NoDevice ELSE arm
  BY DEF HandleDetach
<1>4. \A d \in Devices : Listens(d)' => Listens(d) /\ d # Dev
  BY <1>3 DEF Listens, OpenListens
<1>5. \A d \in usb.gone : d # NoDevice
  BY NoDeviceAssumption DEF UsbInv
<1>6. Dev \notin attached' /\ arm' # Dev
  BY <1>1, <1>3, NoDeviceAssumption
<1>7. \A d \in usb.gone : d # Dev => (d \in attached' => d \in attached) /\ (arm' = d => arm = d)
  BY <1>3, <1>5
<1> QED BY <1>1, <1>2, <1>3, <1>4, <1>6, <1>7 DEF Tidy

LEMMA GrantedTidy ==
    ASSUME Base, Tidy, HandleGranted
    PROVE  Tidy'
<1> USE DEF Base
<1>1. /\ Dev \in Devices /\ mainQ # << >> /\ mainQ' = Tail(mainQ)
      /\ Head(mainQ).kind = "granted"
  BY HeadFacts DEF HandleGranted, Next1
<1>2. usb'.gone = usb.gone
  BY <1>1, OpenPortFacts DEF HandleGranted
<1>3. /\ DetachFollows' /\ \A d : Leaving(d) => Leaving(d)'
      /\ \A d \in usb.gone : d = Dev => Leaving(d)'
  BY <1>1, <1>2, RestOfQueue DEF Tidy
<1>4. attached' = attached \cup {Dev} /\ (arm' = arm \/ arm' = Dev)
  BY DEF HandleGranted
<1>5. \A d \in Devices : Listens(d)' => Listens(d) \/ d = Dev
  BY DEF HandleGranted, Listens, OpenListens
<1> QED BY <1>2, <1>3, <1>4, <1>5 DEF Tidy

LEMMA PortTidy ==
    ASSUME Base, Tidy, NEW d \in Devices, NEW port \in Ports, SetTcpPort(d, port)
    PROVE  Tidy'
<1> USE DEF Base
<1>1. /\ d \in attached \cup usb.plugged /\ attached' = attached \cup {d}
      /\ server' = [server EXCEPT ![d] = port] /\ arm' = arm /\ mainQ' = mainQ
  BY DEF SetTcpPort
<1>2. usb'.gone = usb.gone
  <2>1. CASE d \in opened \/ Clients(d) # {}
    BY <2>1, OpenPortFacts, Zenon DEF SetTcpPort
  <2>2. CASE ~(d \in opened \/ Clients(d) # {})
    BY <2>2 DEF SetTcpPort
  <2> QED BY <2>1, <2>2
<1>3. DetachFollows' /\ \A e : Leaving(e)' <=> Leaving(e)
  BY <1>1, <1>2 DEF DetachFollows, Leaving, Posted, Tidy
<1>4. \A e \in Devices : Listens(e)' => Listens(e) \/ e = d
  BY <1>1 DEF Listens, OpenListens
<1>5. d \in usb.gone => d \in attached
  BY <1>1 DEF UsbInv
<1> QED BY <1>1, <1>2, <1>3, <1>4, <1>5 DEF Tidy

LEMMA MainThreadTidy ==
    ASSUME Base, Tidy, MainThread
    PROVE  Tidy'
<1> USE DEF Base
<1>1. CASE HandleAttach
  <2>1. mainQ # << >> /\ mainQ' = Tail(mainQ) /\ Head(mainQ).kind = "attach" /\ ScanAndListen
    BY <1>1 DEF HandleAttach, Next1
  <2>2. usb'.gone = usb.gone
    BY <2>1, ScanStep
  <2> QED BY <2>1, <2>2, RestOfQueue, ScanTidy DEF Tidy
<1>2. ASSUME NEW kind \in {"denied", "count", "open", "reopen"}, Next1(kind),
             UNCHANGED <<server, attached, arm>>, usb'.gone = usb.gone
      PROVE  Tidy'
  <2>1. mainQ # << >> /\ mainQ' = Tail(mainQ) /\ Head(mainQ).kind # "detach"
    BY <1>2 DEF Next1
  <2> QED BY <1>2, <2>1, RestOfQueue, QuietStep DEF Tidy
<1>3. ASSUME NEW before, NEW kind, Next1(kind), TryOpen(Dev, before)
      PROVE  usb'.gone = usb.gone
  <2>1. Dev \in Devices
    BY <1>3, HeadFacts DEF Next1
  <2> QED BY <1>3, <2>1, OpenPortFacts DEF TryOpen
<1>4. CASE HandleJoined \/ HandleLeft
  BY <1>2, <1>3, <1>4 DEF HandleJoined, HandleLeft
<1>5. CASE HandleOpen \/ HandleReopen
  BY <1>2, <1>3, <1>5 DEF HandleOpen, HandleReopen
<1>6. CASE HandleDenied
  BY <1>2, <1>6 DEF HandleDenied
<1>7. CASE ClosePort \/ \E d \in Devices : FireClose(d)
  <2>1. UNCHANGED <<usb, server, attached, arm, mainQ>>
    BY <1>7 DEF ClosePort, FireClose
  <2> QED BY <2>1 DEF Tidy, Listens, Leaving, Posted, DetachFollows
<1> QED BY <1>1, <1>4, <1>5, <1>6, <1>7, DetachTidy, GrantedTidy DEF MainThread

LEMMA TidyStep ==
    ASSUME Base, Tidy, [Next]_vars
    PROVE  Tidy'
<1>1. CASE Refresh
  <2>1. mainQ' = mainQ /\ ScanAndListen /\ usb'.gone = usb.gone
    BY <1>1, ScanStep DEF Refresh
  <2>2. DetachFollows' /\ \A d : Leaving(d) => Leaving(d)'
    BY <2>1 DEF Tidy, DetachFollows, Leaving, Posted
  <2> QED BY <2>1, <2>2, ScanTidy
<1>2. CASE Snapshot \/ UNCHANGED vars
  <2>1. UNCHANGED <<usb, server, attached, arm, mainQ>>
    BY <1>2 DEF Snapshot, vars, phone, manager
  <2> QED BY <2>1 DEF Tidy, Listens, Leaving, Posted, DetachFollows
<1>3. CASE OtherStep
  BY <1>1, <1>2, <1>3, OutsideTidy, ClientTidy, MainThreadTidy DEF OtherStep
<1> QED BY <1>2, <1>3, OutsideTidy, PortTidy DEF Next

(* Once a detach is handled no port or listener of that adapter is left,    *)
(* and an open port has the listener its bytes go to (detachDevice,         *)
(* attachDevice, openPort), whatever the user does with ports and hosts.    *)
THEOREM DetachHolds == Spec => []DetachLeavesNothing
<1> DEFINE Inv == IInv /\ Tidy
<1>1. Init => Inv
  BY InitHolds DEF Init, Tidy, Listens, DetachFollows
<1>2. Inv /\ [Next]_vars => Inv'
  BY InductiveStep, TidyStep DEF IInv
<1>3. Inv => DetachLeavesNothing
  BY DEF IInv, Base, OpenListens, Tidy, Leaving, DetachLeavesNothing
<1> HIDE DEF Inv
<1> QED BY <1>1, <1>2, <1>3, PTL DEF Spec
-----------------------------------------------------------------------------
(* A connected client has its port open or is about to.  While a close is   *)
(* under way its port counts as closed: the main thread handles no message  *)
(* then, so the one of a client that came since is still there.             *)

Opener(m, d) ==
    /\ m.dev = d
    /\ m.kind \in {"open", "reopen", "granted"} \/ (m.kind = "count" /\ m.n \in 1..Cardinality(Conns))

Waiting(d) == \E i \in DOMAIN mainQ : Opener(mainQ[i], d)
Joining(d) == \E c \in Conns : conn[c].pc = "joining" /\ conn[c].dev = d

Serve ==
    \A d \in usb.perm : Clients(d) # {} /\ d \notin opened \ {closing} => Waiting(d) \/ Joining(d)

Live ==
    \A c \in Conns :
      /\ conn[c].live => conn[c].dev \in Devices /\ Listens(conn[c].dev) /\ conn[c].pc # "none"
      /\ conn[c].pc = "joining" => conn[c].seen \in 1..Cardinality(Conns)

LEMMA WaitingRest ==
    ASSUME DetachIsTrue, mainQ # << >>, mainQ' = Tail(mainQ)
    PROVE  \A d : Waiting(d) /\ ~Opener(Head(mainQ), d) => Waiting(d)'
<1>1. \A i \in DOMAIN mainQ : i # 1 => i - 1 \in DOMAIN mainQ' /\ mainQ'[i - 1] = mainQ[i]
  BY DEF DetachIsTrue
<1>2. Head(mainQ) = mainQ[1]
  BY DEF DetachIsTrue
<1> QED BY <1>1, <1>2 DEF Waiting, Opener

LEMMA WaitingLonger ==
    ASSUME DetachIsTrue, NEW m \in Messages, Send(m)
    PROVE  \A d : Waiting(d) \/ Opener(m, d) => Waiting(d)'
<1> DEFINE last == Len(mainQ) + 1
<1>1. /\ DOMAIN mainQ' = DOMAIN mainQ \cup {last} /\ mainQ'[last] = m
      /\ \A i \in DOMAIN mainQ : mainQ'[i] = mainQ[i]
  BY DEF DetachIsTrue, Send
<1> HIDE DEF last
<1> QED BY <1>1 DEF Waiting, Opener

(* Steps that open and close nothing and add no client.                     *)
LEMMA ServeKeeps ==
    ASSUME Serve, usb'.perm \subseteq usb.perm,
           opened \ {closing} \subseteq opened' \ {closing'},
           \A d \in Devices : Clients(d)' \subseteq Clients(d),
           \A d \in Devices : Waiting(d) \/ Joining(d) => Waiting(d)' \/ Joining(d)',
           UsbInv
    PROVE  Serve'
BY DEF Serve, UsbInv

LEMMA StoppedClients ==
    ASSUME ConnInv, NEW d \in Devices, conn' = Stopped(d)
    PROVE  /\ Clients(d)' = {} /\ \A e \in Devices : Clients(e)' \subseteq Clients(e)
           /\ \A e \in Devices : Joining(e) => Joining(e)'
           /\ \A c \in Conns :
                /\ conn'[c].dev = conn[c].dev
                /\ conn'[c].live => conn[c].live /\ conn[c].dev # d /\ conn'[c].pc = conn[c].pc
                /\ conn'[c].pc = "joining" => conn[c].pc = "joining" /\ conn'[c].seen = conn[c].seen
<1>1. ASSUME NEW c \in Conns
      PROVE  /\ conn'[c].dev = conn[c].dev
             /\ conn'[c].live => conn[c].live /\ conn[c].dev # d /\ conn'[c].pc = conn[c].pc
             /\ conn'[c].pc = "joining" => conn[c].pc = "joining" /\ conn'[c].seen = conn[c].seen
             /\ conn[c].pc = "joining" => conn'[c].pc = "joining"
  <2>1. CASE conn[c].dev = d /\ conn[c].live
    <3>1. conn'[c] = [conn[c] EXCEPT !.live = FALSE,
                         !.pc = IF @ = "joining" THEN @ ELSE "leaving",
                         !.seen = IF conn[c].pc = "joining" THEN @ ELSE 0]
      BY <2>1 DEF Stopped
    <3> QED BY <2>1, <3>1 DEF ConnInv
  <2>2. CASE ~(conn[c].dev = d /\ conn[c].live)
    BY <2>2 DEF Stopped
  <2> QED BY <2>1, <2>2
<1> QED BY <1>1 DEF Clients, Joining

LEMMA ServeOutside ==
    ASSUME Base, Serve, Live, NEW d \in Devices, Plug(d) \/ Unplug(d) \/ Answer(d)
    PROVE  Serve' /\ Live'
<1> USE DEF Base, Kinds
<1>1. UNCHANGED <<server, opened, closing, conn>>
  BY DEF Plug, Unplug, Answer, manager
<1>2. Live' /\ \A e \in Devices : Clients(e)' = Clients(e) /\ (Joining(e) <=> Joining(e)')
  BY <1>1 DEF Live, Listens, Clients, Joining
<1>3. \A kind \in Kinds : Message(kind, d, 0) \in Messages /\ Message(kind, d, 0).kind = kind
                                                   /\ Message(kind, d, 0).dev = d
  BY MessageType
<1>4. \E kind \in Kinds : Send(Message(kind, d, 0))
  BY DEF Plug, Unplug, Answer
<1>5. \A e : Waiting(e) => Waiting(e)'
  BY <1>3, <1>4, WaitingLonger
<1>6. CASE usb'.perm \subseteq usb.perm
  BY <1>1, <1>2, <1>5, <1>6, ServeKeeps
<1>7. CASE Send(Message("granted", d, 0)) /\ usb'.perm = usb.perm \cup {d}
  <2>1. Waiting(d)'
    BY <1>3, <1>7, WaitingLonger DEF Opener
  <2> QED BY <1>1, <1>2, <1>5, <1>7, <2>1 DEF Serve, UsbInv
<1>8. Plug(d) \/ Unplug(d) => usb'.perm \subseteq usb.perm
  BY DEF Plug, Unplug, UsbInv
<1>9. CASE Answer(d)
  <2>1. CASE Send(Message("granted", d, 0)) /\ usb' = [usb EXCEPT !.asked = @ \ {d}, !.perm = @ \cup {d}]
    BY <1>7, <2>1 DEF UsbInv
  <2>2. CASE usb' = [usb EXCEPT !.asked = @ \ {d}]
    BY <1>6, <2>2 DEF UsbInv
  <2> QED BY <1>9, <2>1, <2>2 DEF Answer
<1> QED BY <1>2, <1>6, <1>8, <1>9

LEMMA RoomForOne ==
    ASSUME NEW c \in Conns, NEW S \in SUBSET (Conns \ {c})
    PROVE  Cardinality(S) + 1 \in 1..Cardinality(Conns)
<1>1. IsFiniteSet(S \cup {c}) /\ IsFiniteSet(S) /\ Cardinality(S \cup {c}) = Cardinality(S) + 1
  <2>1. IsFiniteSet(S)
    BY SerialAssumption, FS_Subset
  <2> QED BY <2>1, FS_AddElement
<1>2. Cardinality(S \cup {c}) <= Cardinality(Conns)
  BY SerialAssumption, FS_Subset
<1>3. Cardinality(S) \in Nat /\ Cardinality(Conns) \in Nat
  BY <1>1, SerialAssumption, FS_CardinalityType
<1> QED BY <1>1, <1>2, <1>3

LEMMA ServeClient ==
    ASSUME Base, Serve, Live, NEW c \in Conns,
           \/ PostCount(c) \/ Leave(c) \/ Receive(c)
           \/ \E d \in Devices : Accept(c, d)
    PROVE  Serve' /\ Live'
<1> USE DEF Base, Kinds
<1>1. UNCHANGED <<usb, server, opened, closing>>
  BY DEF PostCount, Leave, Receive, Accept, manager
<1>2. CASE PostCount(c)
  <2>1. conn[c].dev \in Devices /\ conn[c].seen \in Nat
    BY <1>2 DEF PostCount, ConnInv
  <2> DEFINE m == Message("count", conn[c].dev, conn[c].seen)
  <2>2. m \in Messages /\ m.dev = conn[c].dev /\ m.n = conn[c].seen /\ m.kind = "count" /\ Send(m)
    BY <1>2, <2>1 DEF PostCount, Message, Messages
  <2>3. /\ \A e \in Conns : e # c => conn'[e] = conn[e]
        /\ conn'[c].pc # "joining"
        /\ conn'[c].live => conn[c].live /\ conn'[c].dev = conn[c].dev /\ conn'[c].pc # "none"
    <3>1. CASE conn[c].pc = "leaving"
      BY <1>2, <3>1 DEF PostCount, ConnInv, NoConn
    <3>2. CASE conn[c].pc = "joining" /\ conn[c].live
      BY <1>2, <3>2 DEF PostCount, ConnInv
    <3>3. CASE conn[c].pc = "joining" /\ ~conn[c].live
      BY <1>2, <3>3 DEF PostCount, ConnInv
    <3> QED BY <1>2, <3>1, <3>2, <3>3 DEF PostCount
  <2>4. \A d \in Devices : Waiting(d) \/ Joining(d) => Waiting(d)' \/ Joining(d)'
    BY <2>2, <2>3, WaitingLonger DEF Joining, Opener, Live
  <2>5. \A d \in Devices : Clients(d)' \subseteq Clients(d)
    BY <2>3 DEF Clients
  <2>6. Live'
    BY <1>1, <2>3 DEF Live, Listens
  <2> QED BY <1>1, <2>4, <2>5, <2>6, ServeKeeps
<1>3. CASE Receive(c)
  <2>1. conn[c].dev \in Devices /\ conn' = conn
    BY <1>3 DEF Receive, ConnInv
  <2>2. \E kind \in {"open", "reopen"} : Send(Message(kind, conn[c].dev, 0))
    BY <1>3 DEF Receive
  <2>3. \A d : Waiting(d) => Waiting(d)'
    BY <2>1, <2>2, MessageType, WaitingLonger
  <2>4. Live' /\ \A e \in Devices : Clients(e)' = Clients(e) /\ (Joining(e) <=> Joining(e)')
    BY <1>1, <2>1 DEF Live, Listens, Clients, Joining
  <2> QED BY <1>1, <2>3, <2>4, ServeKeeps
<1>4. CASE Leave(c)
  <2>1. /\ \A e \in Conns : e # c => conn'[e] = conn[e]
        /\ conn[c].pc = "open" /\ ~conn'[c].live /\ conn'[c].pc = "leaving" /\ mainQ' = mainQ
    BY <1>4 DEF Leave, ConnInv
  <2>2. Live'
    BY <1>1, <2>1 DEF Live, Listens
  <2>3. \A e \in Devices : Clients(e)' \subseteq Clients(e) /\ (Joining(e) => Joining(e)')
                            /\ (Waiting(e) => Waiting(e)')
    BY <2>1 DEF Clients, Joining, Waiting
  <2> QED BY <1>1, <2>2, <2>3, ServeKeeps
<1>5. ASSUME NEW d \in Devices, Accept(c, d)
      PROVE  Serve' /\ Live'
  <2>1. /\ \A e \in Conns : e # c => conn'[e] = conn[e]
        /\ conn[c].pc = "none" /\ Listens(d) /\ mainQ' = mainQ
        /\ conn'[c] = [pc |-> "joining", dev |-> d, live |-> TRUE,
                       seen |-> Cardinality(Clients(d)) + 1]
    BY <1>5 DEF Accept, ConnInv
  <2>2. Clients(d) \in SUBSET (Conns \ {c})
    BY <2>1 DEF Clients, Live
  <2>3. Live'
    BY <1>1, <2>1, <2>2, RoomForOne DEF Live, Listens
  <2>4. \A e \in Devices : e # d => Clients(e)' = Clients(e)
    BY <2>1, <2>2 DEF Clients, Live
  <2>5. Joining(d)' /\ \A e \in Devices : (Joining(e) => Joining(e)') /\ (Waiting(e) => Waiting(e)')
    BY <2>1 DEF Joining, Waiting
  <2> QED BY <1>1, <2>3, <2>4, <2>5 DEF Serve, UsbInv
<1> QED BY <1>2, <1>3, <1>4, <1>5

LEMMA OpenServes ==
    ASSUME ~OpenFails, Base, Live, NEW d \in Devices, NEW before \in SUBSET opened,
           OpenPort(d, before, Listens(d))
    PROVE  /\ usb'.perm = usb.perm /\ before \subseteq opened'
           /\ d \in usb.perm /\ Clients(d) # {} => d \in opened'
<1>1. Clients(d) # {} => Listens(d)
  BY DEF Live, Clients
<1>2. usb'.perm = usb.perm
  BY DEF OpenPort, Ask, Base, UsbInv
<1> QED BY <1>1, <1>2 DEF OpenPort

(* A message is handled: its adapter's clients are served, or it was none   *)
(* that opens a port.                                                       *)
LEMMA ServeHead ==
    ASSUME Base, Serve, NEW kind, Next1(kind), usb'.perm = usb.perm,
           \A e \in Devices : Clients(e)' \subseteq Clients(e) /\ (Joining(e) => Joining(e)'),
           \A e \in Devices : e # Dev /\ e \in opened => e \in opened',
           Dev \in usb.perm /\ Clients(Dev) # {} =>
             \/ Dev \in opened' \/ \A d : d = Dev => Clients(d)' = {}
             \/ ~Opener(Head(mainQ), Dev) /\ opened \subseteq opened'
    PROVE  Serve'
<1> USE DEF Base
<1>1. /\ mainQ # << >> /\ mainQ' = Tail(mainQ) /\ closing = NoDevice /\ closing' = NoDevice
      /\ NoDevice \notin Devices
  BY NoDeviceAssumption DEF Next1
<1>2. \A d : Waiting(d) /\ ~Opener(Head(mainQ), d) => Waiting(d)'
  BY <1>1, WaitingRest
<1>3. \A d : d # Dev => ~Opener(Head(mainQ), d)
  BY DEF Opener, Dev
<1>4. ASSUME NEW d \in usb'.perm, Clients(d)' # {}, d \notin opened' \ {closing'}
      PROVE  Waiting(d)' \/ Joining(d)'
  <2>1. d \in Devices /\ d \in usb.perm /\ Clients(d) # {} /\ d \notin opened'
    BY <1>1, <1>4 DEF UsbInv
  <2>2. ~Opener(Head(mainQ), d) /\ d \notin opened
    BY <1>3, <1>4, <2>1
  <2> QED BY <1>1, <1>2, <2>1, <2>2 DEF Serve
<1> QED BY <1>4 DEF Serve

LEMMA SameConn ==
    ASSUME conn' = conn
    PROVE  /\ \A e \in Devices : Clients(e)' \subseteq Clients(e) /\ (Joining(e) => Joining(e)')
           /\ Live /\ (\A d \in Devices : Listens(d) => Listens(d)') => Live'
BY DEF Clients, Joining, Live

LEMMA StoppedLive ==
    ASSUME ConnInv, Live, NEW d \in Devices, conn' = Stopped(d),
           \A e \in Devices : e # d /\ Listens(e) => Listens(e)'
    PROVE  Live'
<1>1. ASSUME NEW c \in Conns
      PROVE  /\ conn'[c].live => conn'[c].dev \in Devices /\ (\A e : e = conn'[c].dev => Listens(e)')
                                                        /\ conn'[c].pc # "none"
             /\ conn'[c].pc = "joining" => conn'[c].seen \in 1..Cardinality(Conns)
  BY <1>1, StoppedClients DEF Live
<1> QED BY <1>1 DEF Live, Listens

LEMMA ServeMain ==
    ASSUME ~OpenFails, Base, Serve, Live, MainThread
    PROVE  Serve' /\ Live'
<1> USE DEF Base
<1>1. ASSUME NEW before \in SUBSET opened, NEW kind, Next1(kind),
             OpenPort(Dev, before, Listens(Dev)), UNCHANGED <<server, conn>>,
             opened \ {Dev} \subseteq before
      PROVE  Serve' /\ Live'
  <2>1. Dev \in Devices
    BY <1>1, HeadFacts DEF Next1
  <2>2. usb'.perm = usb.perm /\ before \subseteq opened'
        /\ (Dev \in usb.perm /\ Clients(Dev) # {} => Dev \in opened')
    BY <1>1, <2>1, OpenServes
  <2>3. Live'
    BY <1>1, SameConn DEF Listens
  <2> QED BY <1>1, <2>2, <2>3, ServeHead, SameConn
<1>2. CASE HandleJoined \/ HandleOpen \/ HandleReopen
  BY <1>1, <1>2 DEF HandleJoined, HandleOpen, HandleReopen, TryOpen
<1>3. ASSUME NEW kind, Next1(kind), ~Opener(Head(mainQ), Dev), usb'.perm = usb.perm,
             opened' = opened, conn' = conn, \A d \in Devices : Listens(d) => Listens(d)'
      PROVE  Serve' /\ Live'
  BY <1>3, ServeHead, SameConn
<1>4. CASE HandleLeft \/ HandleDenied
  <2>1. Next1("count") \/ Next1("denied")
    BY <1>4 DEF HandleLeft, HandleDenied
  <2>2. ~Opener(Head(mainQ), Dev)
    BY <1>4 DEF HandleLeft, HandleDenied, Next1, Opener
  <2>3. UNCHANGED <<usb, opened, conn, server>>
    BY <1>4 DEF HandleLeft, HandleDenied
  <2> QED BY <1>3, <2>1, <2>2, <2>3 DEF Listens
<1>5. CASE HandleAttach
  <2>1. Next1("attach") /\ ScanAndListen /\ ~Opener(Head(mainQ), Dev)
    BY <1>5 DEF HandleAttach, Next1, Opener
  <2>2. usb'.perm = usb.perm /\ opened' = opened /\ conn' = conn
    BY <2>1 DEF ScanAndListen, Ask, UsbInv
  <2>3. \A d \in Devices : Listens(d) => Listens(d)'
    BY <2>1 DEF ScanAndListen, Listens
  <2> QED BY <1>3, <2>1, <2>2, <2>3
<1>6. CASE HandleDetach
  <2>1. Next1("detach") /\ Dev \in Devices
    BY <1>6, HeadFacts DEF HandleDetach, Next1
  <2>2. /\ conn' = Stopped(Dev) /\ usb' = usb /\ opened' = opened \ {Dev}
        /\ server' = [server EXCEPT ![Dev] = NoPort]
    BY <1>6 DEF HandleDetach
  <2>3. PICK d \in Devices : d = Dev
    BY <2>1
  <2>4. Clients(d)' = {} /\ \A e \in Devices : Clients(e)' \subseteq Clients(e) /\ (Joining(e) => Joining(e)')
    BY <2>2, <2>3, StoppedClients
  <2>5. Serve'
    BY <2>1, <2>2, <2>3, <2>4, ServeHead
  <2>6. \A e \in Devices : e # d /\ Listens(e) => Listens(e)'
    BY <2>2, <2>3 DEF Listens, OpenListens
  <2> QED BY <2>2, <2>3, <2>5, <2>6, StoppedLive
<1>7. CASE HandleGranted
  <2>1. Next1("granted") /\ Dev \in Devices /\ conn' = conn
    BY <1>7, HeadFacts DEF HandleGranted, Next1
  <2>2. \A d \in Devices : Listens(d) => Listens(d)'
    BY <1>7, <2>1 DEF HandleGranted, Listens, OpenListens
  <2>3. CASE Clients(Dev) # {}
    <3>1. usb'.perm = usb.perm /\ opened \subseteq opened'
          /\ (Dev \in usb.perm /\ Clients(Dev) # {} => Dev \in opened')
      BY <1>7, <2>1, <2>3, OpenServes DEF HandleGranted
    <3> QED BY <2>1, <2>2, <3>1, ServeHead, SameConn
  <2>4. CASE Clients(Dev) = {}
    <3>1. UNCHANGED <<usb, opened>>
      BY <1>7, <2>4 DEF HandleGranted
    <3> QED BY <2>1, <2>2, <2>4, <3>1, ServeHead, SameConn
  <2> QED BY <2>3, <2>4
<1>8. CASE ClosePort
  <2>1. UNCHANGED <<usb, server, conn, mainQ>> /\ opened' = opened \ {closing} /\ closing' = NoDevice
    BY <1>8 DEF ClosePort
  <2> QED BY <2>1, ServeKeeps, SameConn, NoDeviceAssumption DEF Listens, Waiting, OpenListens
<1>9. ASSUME NEW d \in Devices, FireClose(d)
      PROVE  Serve' /\ Live'
  <2>1. UNCHANGED <<usb, server, conn, mainQ, opened>>
        /\ closing = NoDevice /\ closing' = IF Clients(d) = {} THEN d ELSE NoDevice
    BY <1>9 DEF FireClose
  <2>2. \A e : Clients(e)' = Clients(e) /\ (Waiting(e)' <=> Waiting(e)) /\ (Joining(e)' <=> Joining(e))
    BY <2>1 DEF Clients, Waiting, Joining
  <2>3. Live'
    BY <2>1, SameConn DEF Listens
  <2> QED BY <2>1, <2>2, <2>3, NoDeviceAssumption DEF Serve, UsbInv, OpenListens
<1> QED BY <1>2, <1>4, <1>5, <1>6, <1>7, <1>8, <1>9 DEF MainThread

LEMMA ServePort ==
    ASSUME ~OpenFails, Base, Serve, Live, NEW d \in Devices, NEW port \in Ports, SetTcpPort(d, port)
    PROVE  Serve' /\ Live'
<1> USE DEF Base
<1>1. /\ closing = NoDevice /\ closing' = NoDevice /\ mainQ' = mainQ
      /\ server' = [server EXCEPT ![d] = port] /\ conn' = Stopped(d)
  BY DEF SetTcpPort
<1>2. usb'.perm = usb.perm /\ opened \ {d} \subseteq opened'
  <2>1. CASE d \in opened \/ Clients(d) # {}
    <3>1. OpenPort(d, opened \ {d}, TRUE)
      BY <2>1 DEF SetTcpPort
    <3> QED BY <3>1 DEF OpenPort, Ask, UsbInv
  <2>2. CASE ~(d \in opened \/ Clients(d) # {})
    BY <2>2 DEF SetTcpPort
  <2> QED BY <2>1, <2>2
<1>3. Clients(d)' = {} /\ \A e \in Devices : Clients(e)' \subseteq Clients(e) /\ (Joining(e) => Joining(e)')
  BY <1>1, StoppedClients
<1>4. \A e \in Devices : e # d /\ Listens(e) => Listens(e)'
  BY <1>1 DEF Listens, OpenListens
<1>5. \A e : Waiting(e)' <=> Waiting(e)
  BY <1>1 DEF Waiting
<1>6. Serve'
  BY <1>1, <1>2, <1>3, <1>5, NoDeviceAssumption DEF Serve, UsbInv, OpenListens
<1> QED BY <1>1, <1>4, <1>6, StoppedLive

LEMMA ServeStep ==
    ASSUME ~OpenFails, Base, Serve, Live, [Next]_vars
    PROVE  Serve' /\ Live'
<1>1. CASE Snapshot \/ UNCHANGED vars \/ Refresh
  <2>1. UNCHANGED <<conn, opened, mainQ, closing>> /\ usb'.perm = usb.perm
    BY <1>1 DEF Snapshot, vars, phone, manager, Refresh, ScanAndListen, Ask, Base, UsbInv
  <2>2. \A d \in Devices : Listens(d) => Listens(d)'
    BY <1>1 DEF Snapshot, vars, phone, manager, Refresh, ScanAndListen, Listens
  <2> QED BY <2>1, <2>2, ServeKeeps, SameConn DEF Base, Waiting
<1>2. CASE OtherStep
  BY <1>1, <1>2, ServeOutside, ServeClient, ServeMain DEF OtherStep
<1> QED BY <1>1, <1>2, ServeOutside, ServePort DEF Next

(* As long as serial ports open, a connected client has its port open or a  *)
(* message that opens it is on its way (openPort, scheduleClosePort and     *)
(* setTcpPort), for any adapters and clients.                               *)
THEOREM ClientsAreServed ==
    ASSUME ~OpenFails
    PROVE  Spec => []ClientIsServed
<1> DEFINE Inv == IInv /\ Serve /\ Live
<1>1. Init => Inv
  BY InitHolds DEF Init, Serve, Live, NoConn
<1>2. Inv /\ [Next]_vars => Inv'
  BY InductiveStep, ServeStep DEF IInv
<1>3. Inv => ClientIsServed
  BY DEF Serve, Waiting, Opener, Joining, ClientIsServed, Posted, PostedCount
<1> HIDE DEF Inv
<1> QED BY <1>1, <1>2, <1>3, PTL DEF Spec
-----------------------------------------------------------------------------
(* Port numbers: what infos() keeps under the keys are ports.  The fold over *)
(* the listed adapters is a function of the prefixes of their list; it is   *)
(* built up, and shown to return ports, from one prefix to the next.        *)
PortFns == [Keys -> Ports \cup {NoPort}]

(* A set of natural numbers has a least element, and so a list of naturals *)
(* a Min, and what lies between 1 and k a Max.                              *)
LEMMA LeastNat ==
    ASSUME NEW S \in SUBSET Nat, S # {}
    PROVE  \E n \in S : \A m \in S : n <= m
<1>1. IsWellFoundedOn(OpToRel(<, Nat), Nat)
  BY NatLessThanWellFounded
<1>2. PICK n \in S : \A m \in S : <<m, n>> \notin OpToRel(<, Nat)
  BY <1>1, WFMin, Zenon
<1>3. \A m \in S : ~(m < n)
  BY <1>2 DEF OpToRel
<1> QED BY <1>3

LEMMA MinIsIn ==
    ASSUME NEW S \in SUBSET Nat, S # {}
    PROVE  Min(S) \in S
BY LeastNat DEF Min

LEMMA MaxIsIn ==
    ASSUME NEW k \in Nat, NEW s \in SUBSET (1..k), s # {}
    PROVE  Max(s) \in s /\ \A i \in s : i <= Max(s)
<1> DEFINE Above == {n \in Nat : \A i \in s : i <= n}
<1>1. PICK n \in Above : \A m \in Above : n <= m
  <2>1. k \in Above
    OBVIOUS
  <2> QED BY <2>1, LeastNat
<1>2. n \in s
  <2>1. SUFFICES ASSUME n \notin s
                 PROVE  FALSE
    OBVIOUS
  <2>2. \A i \in s : i \in 1..k /\ i <= n /\ i # n
    BY <2>1
  <2>3. PICK i \in s : TRUE
    OBVIOUS
  <2>4. n - 1 \in Nat
    BY <2>2, <2>3
  <2>5. n - 1 \in Above /\ ~(n <= n - 1)
    BY <2>2, <2>4
  <2> QED BY <1>1, <2>5
<1>3. \E x \in s : \A y \in s : x >= y
  BY <1>2
<1>4. Max(s) \in s /\ \A y \in s : Max(s) >= y
  BY <1>3 DEF Max
<1> QED BY <1>4

(* One number given (tcpPortFor).                                           *)
LEMMA PortForType ==
    ASSUME UsbInv, NEW ports \in PortFns, NEW known \in SUBSET Devices, NEW d \in Devices
    PROVE  PortFor(ports, known, d) \in PortFns
<1>1. \A e \in Devices : SerialKey(e) \in Keys
  BY DEF SerialKey, Keys
<1>2. \A taken : FirstFree(taken) \in Ports
  BY MinIsIn, SerialAssumption DEF FirstFree
<1> QED BY <1>1, <1>2 DEF PortFor, PortFns

(* What FoldLeft makes of a set of positions of its list, and the function  *)
(* it is taken from.                                                        *)
Folded(it, s, ports, known, order) ==
    IF s = {} THEN ports ELSE PortFor(it[s \ {Max(s)}], known, order[Max(s)])

Iterates(it, ports, known, order) ==
    it = [s \in SUBSET DOMAIN order |-> Folded(it, s, ports, known, order)]

(* There is such a function: from the first k positions to k + 1.           *)
LEMMA IteratesExists ==
    ASSUME UsbInv, NEW ports \in PortFns, NEW known \in SUBSET Devices,
           NEW n \in Nat, NEW order \in [1..n -> Devices]
    PROVE  \E it \in [SUBSET (1..n) -> PortFns] :
             \A s \in SUBSET (1..n) : it[s] = Folded(it, s, ports, known, order)
<1> DEFINE Has(k) == \E it \in [SUBSET (1..k) -> PortFns] :
                       \A s \in SUBSET (1..k) : it[s] = Folded(it, s, ports, known, order)
           Without == {k \in 0..n : ~Has(k)}
<1>1. Has(0)
  <2>1. SUBSET (1..0) = {{}}
    OBVIOUS
  <2>2. [s \in SUBSET (1..0) |-> ports] \in [SUBSET (1..0) -> PortFns]
    OBVIOUS
  <2>3. \A it : Folded(it, {}, ports, known, order) = ports
    BY DEF Folded
  <2> QED BY <2>1, <2>2, <2>3
<1>2. ASSUME NEW k \in 0..n, k # n, Has(k)
      PROVE  Has(k + 1)
  <2>1. PICK it \in [SUBSET (1..k) -> PortFns] :
              \A s \in SUBSET (1..k) : it[s] = Folded(it, s, ports, known, order)
    BY <1>2
  <2> DEFINE At(s) == IF k + 1 \in s THEN PortFor(it[s \ {k + 1}], known, order[k + 1]) ELSE it[s]
             it2 == [s \in SUBSET (1..k + 1) |-> At(s)]
  <2>2. ASSUME NEW s \in SUBSET (1..k + 1)
        PROVE  s \ {k + 1} \in SUBSET (1..k) /\ (k + 1 \notin s => s \in SUBSET (1..k))
    OBVIOUS
  <2>3. order[k + 1] \in Devices
    BY <1>2
  <2>4. ASSUME NEW s \in SUBSET (1..k + 1)
        PROVE  At(s) \in PortFns
    BY <2>1, <2>2, <2>3, PortForType
  <2>5. it2 \in [SUBSET (1..k + 1) -> PortFns]
    BY <2>4
  <2>6. \A s \in SUBSET (1..k) : s \in SUBSET (1..k + 1) /\ k + 1 \notin s
    BY <1>2
  <2>7. \A s \in SUBSET (1..k) : it2[s] = it[s]
    BY <2>6
  <2> HIDE DEF At
  <2>8. \A s \in SUBSET (1..k + 1) : it2[s] = At(s)
    OBVIOUS
  <2> HIDE DEF it2
  <2>9. ASSUME NEW s \in SUBSET (1..k + 1)
        PROVE  it2[s] = Folded(it2, s, ports, known, order)
    <3>1. CASE k + 1 \in s
      <4>1. k + 1 \in Nat /\ s # {}
        BY <1>2, <3>1
      <4>2. Max(s) \in 1..k + 1 /\ k + 1 <= Max(s)
        BY <3>1, <4>1, MaxIsIn
      <4>3. Max(s) = k + 1
        BY <4>1, <4>2
      <4>4. it2[s \ {k + 1}] = it[s \ {k + 1}]
        BY <2>2, <2>7
      <4> QED BY <2>8, <3>1, <4>1, <4>3, <4>4 DEF Folded, At
    <3>2. CASE k + 1 \notin s
      <4>1. s \in SUBSET (1..k) /\ s \ {Max(s)} \in SUBSET (1..k)
        BY <2>2, <3>2
      <4>2. it2[s] = it[s] /\ it2[s \ {Max(s)}] = it[s \ {Max(s)}]
        BY <2>7, <4>1
      <4> QED BY <2>1, <4>1, <4>2 DEF Folded
    <3> QED BY <3>1, <3>2
  <2> QED BY <2>5, <2>9
<1> HIDE DEF Has
<1>3. ASSUME Without # {}
      PROVE  FALSE
  <2>1. Without \in SUBSET Nat
    OBVIOUS
  <2>2. PICK k \in Without : \A m \in Without : k <= m
    BY <1>3, <2>1, LeastNat, Zenon
  <2>3. k # 0
    BY <1>1, <2>2
  <2>4. k - 1 \in 0..n /\ k - 1 # n /\ k - 1 \notin Without
    BY <2>2, <2>3
  <2>5. Has(k - 1)
    BY <2>4
  <2>6. Has((k - 1) + 1)
    BY <1>2, <2>4, <2>5
  <2>7. (k - 1) + 1 = k
    OBVIOUS
  <2> QED BY <2>2, <2>6, <2>7
<1>4. Has(n)
  BY <1>3
<1> QED BY <1>4 DEF Has

(* Every function of the kind returns ports, on ever longer lists.          *)
LEMMA FoldType ==
    ASSUME UsbInv, NEW ports \in PortFns, NEW known \in SUBSET Devices,
           NEW n \in Nat, NEW order \in [1..n -> Devices]
    PROVE  FoldLeft(LAMBDA p, d : PortFor(p, known, d), ports, order) \in PortFns
<1> DEFINE it == CHOOSE f : Iterates(f, ports, known, order)
<1>1. FoldLeft(LAMBDA p, d : PortFor(p, known, d), ports, order) = it[DOMAIN order]
  BY DEF FoldLeft, MapThenFoldSet, Iterates, Folded
<1>2. PICK f \in [SUBSET (1..n) -> PortFns] :
            \A s \in SUBSET (1..n) : f[s] = Folded(f, s, ports, known, order)
  BY IteratesExists
<1>3. f = [s \in SUBSET (1..n) |-> Folded(f, s, ports, known, order)]
  BY <1>2
<1>4. Iterates(f, ports, known, order)
  BY <1>3 DEF Iterates
<1>5. Iterates(it, ports, known, order)
  BY <1>4
<1> HIDE DEF it
<1>6. \A s \in SUBSET (1..n) : it[s] = Folded(it, s, ports, known, order)
  <2>1. it = [s \in SUBSET (1..n) |-> Folded(it, s, ports, known, order)]
    BY <1>5 DEF Iterates
  <2> QED BY <2>1
<1> DEFINE Untyped == {k \in 0..n : \E s \in SUBSET (1..k) : it[s] \notin PortFns}
<1>7. ASSUME Untyped # {}
      PROVE  FALSE
  <2>1. Untyped \in SUBSET Nat
    OBVIOUS
  <2>2. PICK k \in Untyped : \A m \in Untyped : k <= m
    BY <1>7, <2>1, LeastNat, Zenon
  <2>3. PICK s \in SUBSET (1..k) : it[s] \notin PortFns
    BY <2>2
  <2>4. k \in 0..n /\ s \in SUBSET (1..n)
    BY <2>2
  <2>5. it[s] = Folded(it, s, ports, known, order)
    BY <1>6, <2>4
  <2>6. s # {}
    BY <2>3, <2>5 DEF Folded
  <2>7. Max(s) \in s /\ \A i \in s : i <= Max(s)
    BY <2>4, <2>6, MaxIsIn
  <2> DEFINE j == Max(s) - 1
  <2>8. Max(s) \in 1..k
    BY <2>7
  <2>9. j \in 0..n /\ ~(k <= j)
    BY <2>4, <2>8
  <2>10. s \ {Max(s)} \in SUBSET (1..j)
    <3>1. ASSUME NEW i \in s, i # Max(s)
          PROVE  i \in 1..j
      BY <2>7, <2>8, <3>1
    <3> QED BY <3>1
  <2>11. it[s \ {Max(s)}] \in PortFns
    BY <2>2, <2>9, <2>10
  <2>12. PortFor(it[s \ {Max(s)}], known, order[Max(s)]) \in PortFns
    BY <2>4, <2>7, <2>11, PortForType
  <2> QED BY <2>3, <2>5, <2>6, <2>12 DEF Folded
<1>8. it[1..n] \in PortFns
  BY <1>7
<1>9. DOMAIN order = 1..n
  OBVIOUS
<1> QED BY <1>8, <1>9, <1>1, Zenon

(* What infos() may leave, in any order of its set.                         *)
LEMMA NumberedType ==
    ASSUME UsbInv, NEW ports \in PortFns, NEW known \in SUBSET Devices,
           NEW devices \in SUBSET Devices, IsFiniteSet(devices)
    PROVE  Numbered(ports, known, devices) \subseteq PortFns
<1> DEFINE new == {d \in devices : ports[SerialKey(d)] = NoPort}
<1>1. IsFiniteSet(new) /\ Cardinality(new) \in Nat
  BY FS_Subset, FS_CardinalityType
<1>2. SetToSeqs(new) \subseteq [1..Cardinality(new) -> Devices]
  BY DEF SetToSeqs
<1>3. \A order \in SetToSeqs(new) :
        FoldLeft(LAMBDA p, d : PortFor(p, known, d), ports, order) \in PortFns
  BY <1>1, <1>2, FoldType
<1> QED BY <1>3 DEF Numbered

LEMMA ListedType ==
    ASSUME UsbInv, NEW ports \in PortFns, NEW known \in SUBSET Devices,
           NEW all \in SUBSET Devices, IsFiniteSet(all), NEW host
    PROVE  Listed(ports, known, all, host) \subseteq PortFns
<1>1. all \ {host} \in SUBSET Devices /\ IsFiniteSet(all \ {host})
  BY FS_Subset
<1> QED BY <1>1, NumberedType DEF Listed

-----------------------------------------------------------------------------
(* The types Base leaves out.                                               *)
Adapters ==
    /\ attached \in SUBSET Devices /\ IsFiniteSet(attached) /\ IsFiniteSet(usb.plugged)
    /\ arm \in Devices \cup {NoDevice} /\ closing \in Devices \cup {NoDevice}
    /\ closeTasks \in SUBSET Devices
    /\ server \in [Devices -> Ports \cup {NoPort}] /\ portOf \in PortFns

(* A count is at most the number of connections.                            *)
Counted ==
    \A c \in Conns :
      conn[c].seen <= Cardinality(Conns) /\ (conn[c].live => conn[c].pc # "none")

(* What changes the clients.                                                *)
LEMMA ConnSteps ==
    ASSUME [Next]_vars, Base
    PROVE  \/ conn' = conn
           \/ \E d \in Devices : conn' = Stopped(d)
           \/ \E c \in Conns : PostCount(c) \/ Leave(c) \/ \E d \in Devices : Accept(c, d)
<1>1. CASE MainThread
  <2>1. CASE HandleDetach
    BY <2>1, HeadFacts DEF HandleDetach, Next1, Base
  <2>2. CASE ~HandleDetach
    BY <1>1, <2>2 DEF MainThread, HandleAttach, HandleGranted, HandleDenied, HandleJoined, HandleLeft,
       HandleOpen, HandleReopen, ClosePort, FireClose, ScanAndListen
  <2> QED BY <2>1, <2>2
<1>2. CASE OtherStep
  BY <1>1, <1>2 DEF OtherStep, Plug, Answer, Receive, Refresh, Snapshot, ScanAndListen
<1>3. ASSUME NEW d \in Devices, Unplug(d)
      PROVE  conn' = conn
  BY <1>3 DEF Unplug
<1>4. ASSUME NEW d \in Devices, NEW port \in Ports, SetTcpPort(d, port)
      PROVE  conn' = Stopped(d)
  BY <1>4 DEF SetTcpPort
<1>5. CASE UNCHANGED vars
  BY <1>5 DEF vars, phone
<1> QED BY <1>2, <1>3, <1>4, <1>5 DEF Next

LEMMA CountedStep ==
    ASSUME Base, Counted, [Next]_vars
    PROVE  Counted'
<1> USE DEF Base
<1>1. Cardinality(Conns) \in Nat
  BY CountIsNat
<1>2. ASSUME conn' = conn
      PROVE  Counted'
  BY <1>2 DEF Counted
<1>3. ASSUME NEW d \in Devices, conn' = Stopped(d)
      PROVE  Counted'
  <2>1. ASSUME NEW c \in Conns
        PROVE  conn'[c].seen \in {0, conn[c].seen} /\ (conn'[c].live => conn[c].live /\ conn'[c].pc = conn[c].pc)
    <3>1. CASE conn[c].dev = d /\ conn[c].live
      <4>1. conn'[c] = [conn[c] EXCEPT !.live = FALSE,
                           !.pc = IF @ = "joining" THEN @ ELSE "leaving",
                           !.seen = IF conn[c].pc = "joining" THEN @ ELSE 0]
        BY <1>3, <3>1 DEF Stopped
      <4> QED BY <3>1, <4>1 DEF ConnInv
    <3>2. CASE ~(conn[c].dev = d /\ conn[c].live)
      BY <1>3, <3>2 DEF Stopped
    <3> QED BY <3>1, <3>2
  <2> QED BY <1>1, <2>1 DEF Counted
<1>4. ASSUME NEW c \in Conns, \A e \in Conns : e # c => conn'[e] = conn[e],
             conn'[c].seen <= Cardinality(Conns), conn'[c].live => conn'[c].pc # "none"
      PROVE  Counted'
  BY <1>4 DEF Counted
<1>5. ASSUME NEW c \in Conns, PostCount(c)
      PROVE  Counted'
  <2>1. /\ \A e \in Conns : e # c => conn'[e] = conn[e]
        /\ conn'[c].seen \in {0, conn[c].seen} /\ (conn'[c].live => conn'[c].pc # "none")
    <3>1. CASE conn[c].pc = "leaving"
      BY <1>5, <3>1 DEF PostCount, ConnInv, NoConn
    <3>2. CASE conn[c].pc = "joining" /\ conn[c].live
      BY <1>5, <3>2 DEF PostCount, ConnInv
    <3>3. CASE conn[c].pc = "joining" /\ ~conn[c].live
      BY <1>5, <3>3 DEF PostCount, ConnInv
    <3> QED BY <1>5, <3>1, <3>2, <3>3 DEF PostCount
  <2> QED BY <1>1, <1>4, <2>1 DEF Counted
<1>6. ASSUME NEW c \in Conns, Leave(c)
      PROVE  Counted'
  <2> DEFINE left == Clients(conn[c].dev) \ {c}
  <2>1. left \in SUBSET Conns
    BY DEF Clients
  <2>2. Cardinality(left) <= Cardinality(Conns)
    BY <2>1, SerialAssumption, FS_Subset
  <2>3. /\ \A e \in Conns : e # c => conn'[e] = conn[e]
        /\ conn'[c].seen = Cardinality(left) /\ conn'[c].live = FALSE
    BY <1>6 DEF Leave, ConnInv
  <2> QED BY <1>4, <2>2, <2>3
<1>7. ASSUME NEW c \in Conns, NEW d \in Devices, Accept(c, d)
      PROVE  Counted'
  <2>1. Clients(d) \in SUBSET (Conns \ {c})
    BY <1>7 DEF Accept, Clients, Counted
  <2>2. Cardinality(Clients(d)) + 1 <= Cardinality(Conns)
    BY <1>1, <2>1, RoomForOne
  <2>3. /\ \A e \in Conns : e # c => conn'[e] = conn[e]
        /\ conn'[c].seen = Cardinality(Clients(d)) + 1 /\ conn'[c].pc = "joining"
    BY <1>7 DEF Accept, ConnInv
  <2> QED BY <1>4, <2>2, <2>3
<1> QED BY <1>2, <1>3, <1>5, <1>6, <1>7, ConnSteps

LEMMA OnChangedType ==
    ASSUME UsbInv, Adapters, attached' \in SUBSET Devices, IsFiniteSet(attached'), OnChanged
    PROVE  portOf' \in PortFns
<1>1. attached' \cup usb.plugged \in SUBSET Devices /\ IsFiniteSet(attached' \cup usb.plugged)
  BY FS_Union DEF Adapters, UsbInv
<1>2. Listed(portOf, attached', attached' \cup usb.plugged, arm') \subseteq PortFns
  BY <1>1, ListedType DEF Adapters
<1> QED BY <1>2 DEF OnChanged

LEMMA PortOfKey ==
    ASSUME UsbInv, NEW ports \in PortFns, NEW d \in Devices
    PROVE  SerialKey(d) \in Keys /\ ports[SerialKey(d)] \in Ports \cup {NoPort}
BY DEF PortFns, SerialKey, Keys

(* The numbers given while the first adapter is attached and after it.      *)
LEMMA ScanTypes ==
    ASSUME Base, Adapters, ScanAndListen, closing' \in Devices \cup {NoDevice}
    PROVE  Adapters'
<1> USE DEF Base
<1> DEFINE ready == usb.plugged \cap usb.perm
<1>1. ready \in SUBSET Devices /\ ready \subseteq usb.plugged /\ usb.plugged \in SUBSET Devices
  BY DEF UsbInv
<1>2. usb'.plugged = usb.plugged /\ closeTasks' = closeTasks /\ attached' = attached \cup usb.plugged
  BY AskKeeps DEF ScanAndListen
<1>3. attached' \in SUBSET Devices /\ IsFiniteSet(attached')
  BY <1>1, <1>2, FS_Union DEF Adapters
<1>4. PICK skipped \in SUBSET (usb.plugged \ usb.perm), first \in ready \cup {NoDevice} :
        /\ arm' = IF arm = NoDevice THEN first ELSE arm
        /\ \E ports \in Listed(portOf, attached \cup (IF ready = {} THEN usb.plugged ELSE skipped \cup {first}),
                              attached', arm') :
             portOf' \in Numbered(ports, attached', ready \ (opened \cup {arm'}))
        /\ ready # {} => first \in ready
  BY DEF ScanAndListen
<1>5. server' = [d \in Devices |->
                    IF d \in ready \ (opened \cup {arm'}) /\ ~Listens(d)
                    THEN portOf'[SerialKey(d)] ELSE server[d]]
  BY DEF ScanAndListen
<1> DEFINE known == attached \cup (IF ready = {} THEN usb.plugged ELSE skipped \cup {first})
           asked == ready \ (opened \cup {arm'})
<1>6. known \in SUBSET Devices
  BY <1>1, <1>4 DEF Adapters
<1>7. arm' \in Devices \cup {NoDevice}
  BY <1>1, <1>4 DEF Adapters
<1>8. asked \in SUBSET Devices /\ IsFiniteSet(asked)
  <2>1. asked \in SUBSET usb.plugged
    BY <1>1
  <2>2. IsFiniteSet(asked)
    BY <2>1, FS_Subset DEF Adapters
  <2> QED BY <1>1, <2>2
<1>9. PICK ports \in Listed(portOf, known, attached', arm') : portOf' \in Numbered(ports, attached', asked)
  BY <1>4
<1> HIDE DEF known, asked, ready
<1>10. ports \in PortFns
  BY <1>3, <1>6, <1>9, ListedType DEF Adapters
<1>11. portOf' \in PortFns
  BY <1>3, <1>8, <1>9, <1>10, NumberedType
<1>12. ASSUME NEW d \in Devices
       PROVE  server'[d] \in Ports \cup {NoPort}
  <2>1. portOf'[SerialKey(d)] \in Ports \cup {NoPort}
    BY <1>11, PortOfKey
  <2> QED BY <1>5, <2>1 DEF Adapters
<1>13. server' \in [Devices -> Ports \cup {NoPort}]
  BY <1>5, <1>12
<1> QED BY <1>2, <1>3, <1>7, <1>11, <1>13 DEF Adapters

(* The other handlers of the main thread.                                   *)
LEMMA HandlerTypes ==
    ASSUME Base, Adapters, NEW kind \in Kinds, Next1(kind), usb'.plugged = usb.plugged,
           attached' \in {attached, attached \cup {Dev}, attached \ {Dev}},
           arm' \in {arm, Dev, NoDevice}, closeTasks' \subseteq closeTasks \cup {Dev},
           OnChanged \/ portOf' = portOf,
           \/ server' \in {server, [server EXCEPT ![Dev] = NoPort]}
           \/ server' = [server EXCEPT ![Dev] = portOf'[SerialKey(Dev)]]
    PROVE  Adapters'
<1>1. Dev \in Devices
  BY HeadFacts DEF Base, Next1
<1>2. attached' \in SUBSET Devices /\ IsFiniteSet(attached')
  BY <1>1, FS_AddElement, FS_RemoveElement DEF Adapters
<1>3. portOf' \in PortFns
  BY <1>2, OnChangedType DEF Adapters, Base
<1>4. portOf'[SerialKey(Dev)] \in Ports \cup {NoPort}
  BY <1>1, <1>3, PortOfKey DEF Base
<1>5. server' \in [Devices -> Ports \cup {NoPort}]
  BY <1>4 DEF Adapters
<1>6. closing' \in Devices \cup {NoDevice}
  BY DEF Next1, Adapters
<1> QED BY <1>1, <1>2, <1>3, <1>5, <1>6 DEF Adapters

LEMMA MainThreadTypes ==
    ASSUME Base, Adapters, MainThread
    PROVE  Adapters'
<1> USE DEF Kinds
<1>1. CASE HandleAttach
  BY <1>1, ScanTypes DEF HandleAttach, Next1, Adapters
<1>2. CASE HandleDetach
  BY <1>2, HandlerTypes DEF HandleDetach
<1>3. CASE HandleGranted
  <2>1. Dev \in Devices
    BY <1>3, HeadFacts DEF HandleGranted, Next1, Base
  <2>2. usb'.plugged = usb.plugged
    BY <1>3, <2>1, OpenPortFacts DEF HandleGranted, Base
  <2>3. attached' = attached \cup {Dev} /\ arm' \in {arm, Dev} /\ OnChanged /\ closeTasks' = closeTasks
        /\ (server' = server \/ server' = [server EXCEPT ![Dev] = portOf'[SerialKey(Dev)]])
    BY <1>3 DEF HandleGranted
  <2> QED BY <1>3, <2>2, <2>3, HandlerTypes DEF HandleGranted
<1>4. CASE HandleDenied \/ HandleLeft
  <2>1. /\ UNCHANGED <<usb, attached, arm, server>> /\ closeTasks' \subseteq closeTasks \cup {Dev}
        /\ OnChanged \/ portOf' = portOf
        /\ Next1("denied") \/ Next1("count")
    BY <1>4 DEF HandleDenied, HandleLeft
  <2> QED BY <2>1, HandlerTypes
<1>5. CASE HandleJoined \/ HandleOpen \/ HandleReopen
  <2>1. PICK kind \in {"count", "open", "reopen"}, before \in {opened, opened \ {Dev}} :
          /\ Next1(kind) /\ TryOpen(Dev, before)
          /\ UNCHANGED <<attached, arm, server>> /\ closeTasks' \subseteq closeTasks
    BY <1>5 DEF HandleJoined, HandleOpen, HandleReopen
  <2>2. Dev \in Devices
    BY <2>1, HeadFacts DEF Next1, Base
  <2>3. usb'.plugged = usb.plugged /\ (OnChanged \/ portOf' = portOf)
    BY <2>1, <2>2, OpenPortFacts DEF TryOpen, Base
  <2> QED BY <2>1, <2>3, HandlerTypes
<1>6. CASE ClosePort
  <2>1. UNCHANGED <<usb, attached, arm, server, closeTasks>> /\ closing' = NoDevice /\ OnChanged
    BY <1>6 DEF ClosePort
  <2>2. portOf' \in PortFns
    BY <2>1, OnChangedType DEF Adapters, Base
  <2> QED BY <2>1, <2>2 DEF Adapters
<1>7. ASSUME NEW d \in Devices, FireClose(d)
      PROVE  Adapters'
  BY <1>7 DEF FireClose, Adapters
<1> QED BY <1>1, <1>2, <1>3, <1>4, <1>5, <1>6, <1>7 DEF MainThread

LEMMA SetPortTypes ==
    ASSUME Base, Adapters, NEW d \in Devices, NEW port \in Ports, SetTcpPort(d, port)
    PROVE  Adapters'
<1> USE DEF Base
<1>1. /\ attached' = attached \cup {d} /\ server' = [server EXCEPT ![d] = port]
      /\ UNCHANGED <<arm, closeTasks, closing>>
  BY DEF SetTcpPort
<1>2. usb'.plugged = usb.plugged
  <2>1. CASE d \in opened \/ Clients(d) # {}
    <3>1. OpenPort(d, opened \ {d}, TRUE)
      BY <2>1 DEF SetTcpPort
    <3> QED BY <3>1, OpenPortFacts, Zenon
  <2>2. CASE ~(d \in opened \/ Clients(d) # {})
    BY <2>2 DEF SetTcpPort
  <2> QED BY <2>1, <2>2
<1>3. /\ attached' \in SUBSET Devices /\ IsFiniteSet(attached')
      /\ attached \ {d} \in SUBSET Devices /\ IsFiniteSet(attached \ {d})
  BY <1>1, FS_AddElement, FS_RemoveElement DEF Adapters
<1>4. attached' \cup usb.plugged \in SUBSET Devices /\ IsFiniteSet(attached' \cup usb.plugged)
  BY <1>3, FS_Union DEF Adapters, UsbInv
<1>5. PICK ports \in Numbered(portOf, attached, attached \ {d}) :
        portOf' \in Listed([ports EXCEPT ![SerialKey(d)] = port], attached',
                           attached' \cup usb.plugged, arm)
  BY DEF SetTcpPort
<1>6. ports \in PortFns
  BY <1>3, <1>5, NumberedType DEF Adapters
<1>7. [ports EXCEPT ![SerialKey(d)] = port] \in PortFns
  BY <1>6 DEF PortFns
<1>8. portOf' \in PortFns
  BY <1>3, <1>4, <1>5, <1>7, ListedType
<1>9. server' \in [Devices -> Ports \cup {NoPort}]
  BY <1>1 DEF Adapters
<1> QED BY <1>1, <1>2, <1>3, <1>8, <1>9 DEF Adapters

LEMMA AdaptersStep ==
    ASSUME Base, Adapters, [Next]_vars
    PROVE  Adapters'
<1> USE DEF Base
<1>1. ASSUME NEW d \in Devices, Plug(d) \/ Unplug(d) \/ Answer(d)
      PROVE  Adapters'
  <2>1. UNCHANGED <<manager, closing>>
    BY <1>1 DEF Plug, Unplug, Answer
  <2>2. usb'.plugged \in {usb.plugged, usb.plugged \cup {d}, usb.plugged \ {d}}
    <3>1. CASE Plug(d)
      BY <3>1 DEF Plug, UsbInv
    <3>2. CASE Unplug(d)
      BY <3>2 DEF Unplug
    <3>3. CASE Answer(d)
      BY <3>3 DEF Answer, UsbInv
    <3> QED BY <1>1, <3>1, <3>2, <3>3
  <2>3. IsFiniteSet(usb'.plugged)
    BY <2>2, FS_AddElement, FS_RemoveElement DEF Adapters
  <2> QED BY <2>1, <2>3 DEF Adapters, manager
<1>2. ASSUME NEW c \in Conns, PostCount(c) \/ Leave(c) \/ Receive(c) \/ \E d \in Devices : Accept(c, d)
      PROVE  UNCHANGED <<usb, manager, closing>>
  BY <1>2 DEF PostCount, Leave, Receive, Accept
<1>3. ASSUME UNCHANGED <<usb, manager, closing>>
      PROVE  Adapters'
  BY <1>3 DEF Adapters, manager
<1>4. CASE UNCHANGED vars
  BY <1>3, <1>4 DEF vars, phone
<1>5. CASE Refresh
  BY <1>5, ScanTypes DEF Refresh, Adapters
<1>6. CASE Snapshot
  <2>1. UNCHANGED <<usb, attached, arm, server, closeTasks, closing>> /\ OnChanged
    BY <1>6 DEF Snapshot, OnChanged
  <2>2. portOf' \in PortFns
    BY <2>1, OnChangedType DEF Adapters
  <2> QED BY <2>1, <2>2 DEF Adapters
<1>7. CASE OtherStep
  BY <1>1, <1>2, <1>3, <1>5, <1>6, <1>7, MainThreadTypes DEF OtherStep
<1> QED BY <1>1, <1>4, <1>7, SetPortTypes DEF Next

(* The state is what the maps of the manager can hold (UsbSerialManager.kt, *)
(* SerialTcpServer.kt): every number kept or listened on is one of PORTS,   *)
(* also when infos() runs out of them, and no count exceeds the clients.    *)
THEOREM TypeCorrect == Spec => []TypeOK
<1> DEFINE Inv == IInv /\ Adapters /\ Counted /\ moved \in BOOLEAN
<1>1. Init => Inv
  <2>1. Init => Adapters
    BY FS_EmptySet DEF Init, Adapters, PortFns
  <2>2. Init => Counted
    BY CountIsNat DEF Init, Counted, NoConn
  <2> QED BY <2>1, <2>2, InitHolds DEF Init
<1>2. Inv /\ [Next]_vars => Inv'
  <2>1. moved \in BOOLEAN /\ [Next]_vars => moved' \in BOOLEAN
    BY DEF Next, vars
  <2> QED BY <2>1, InductiveStep, AdaptersStep, CountedStep DEF IInv
<1>3. Inv => TypeOK
  <2> SUFFICES ASSUME Inv
               PROVE  TypeOK
    OBVIOUS
  <2>1. conn \in [Conns -> [pc : ConnPc, dev : Devices \cup {NoDevice}, seen : 0..Cardinality(Conns),
                            live : BOOLEAN]]
    <3>1. Cardinality(Conns) \in Nat
      BY CountIsNat
    <3>2. ASSUME NEW c \in Conns
          PROVE  conn[c] \in [pc : ConnPc, dev : Devices \cup {NoDevice}, seen : 0..Cardinality(Conns),
                               live : BOOLEAN]
      <4>1. conn[c] \in [pc : ConnPc, dev : Devices \cup {NoDevice}, seen : Nat, live : BOOLEAN]
            /\ conn[c].seen \in 0..Cardinality(Conns)
        BY <3>1 DEF IInv, Base, ConnInv, Counted
      <4> QED BY <4>1
    <3> QED BY <3>2 DEF IInv, Base, ConnInv
  <2> QED BY <2>1 DEF TypeOK, IInv, Base, UsbInv, OpenListens, Adapters, PortFns
<1> HIDE DEF Inv
<1> QED BY <1>1, <1>2, <1>3, PTL DEF Spec
=============================================================================
