-------------------------- MODULE ConnTrackInvariant --------------------------
(***************************************************************************)
(* The inductive invariant of ConnTrack.  The initial state has it, and    *)
(* the steps of the kernel keep it, as do the steps of the agent that      *)
(* leave the tables alone.  ConnTrackTables and ConnTrackProofs do the     *)
(* others.                                                                 *)
(***************************************************************************)
EXTENDS ConnTrack, TLAPS

-----------------------------------------------------------------------------
(* The inductive invariant.                                                *)

KernConn == [fd : Fds, addr : Addrs, start : Nat, end : Nat, proto : Protocols,
             seq : [Kinds -> Nat]]
Event == [type : {"connect", "infer", "close"}, k : Nat, proto : Protocols, ts : Nat]
Data == [kind : Kinds, k : Nat, fd : Fds, ts : Nat, seq : Nat]
Connection4 == [k : Nat, fd : Fds, addr : Addrs, ConnectStartTs : Nat, CloseTs : Nat,
                Status : {"Connected", "Closed"}, Protocol : Protocols, tracable : Traces,
                prevConn : Seq(Nat), temp : Seq(Data)]

Shape ==
  /\ now \in 0..Horizon
  /\ kern \in Seq(KernConn) /\ Len(kern) <= MaxConns
  /\ connInfo \in [Fds -> [k : Nat, noTrace : Traces]]
  /\ sockIds \in [Addrs -> {NoSockId} \cup [fd : Fds, noTrace : Traces]]
  /\ connEvents \in Seq(Event)
  /\ dataEvents \in [Kinds -> Seq(Data)]
  /\ objs \in Seq(Connection4)
  /\ connMap \in [Fds -> Nat]
  /\ sockMap \in [Addrs -> Nat]
  /\ proc \in [pc : {"idle", "find", "add"}, obj : Nat, existed : Nat]
  /\ sweep \in [visit : SUBSET Fds, needsDelete : SUBSET Fds, obj : Nat]

\* A descriptor has one open connection at a time, the last of its connections.
KernelInOrder ==
  /\ \A f \in Fds : connInfo[f].k # 0 =>
       /\ connInfo[f].k \in DOMAIN kern
       /\ kern[connInfo[f].k].fd = f
       /\ Open(connInfo[f].k)
  /\ \A k \in DOMAIN kern : Open(k) => connInfo[kern[k].fd].k = k
  /\ \A i, j \in DOMAIN kern : i < j /\ kern[i].fd = kern[j].fd => ~Open(i)

\* The events of a descriptor are about its connections in their order, and a
\* connect event is the first one about its connection.
EventsInOrder ==
  /\ \A i \in DOMAIN connEvents :
       /\ connEvents[i].k \in DOMAIN kern
       /\ connEvents[i].ts <= now
       /\ connEvents[i].type = "close" => ~Open(connEvents[i].k)
  /\ \A i, j \in DOMAIN connEvents : i < j =>
       /\ connEvents[i].ts < connEvents[j].ts
       /\ kern[connEvents[i].k].fd = kern[connEvents[j].k].fd
            => connEvents[i].k <= connEvents[j].k
       /\ connEvents[j].type = "connect" => connEvents[i].k # connEvents[j].k

\* An object belongs to a connection, its earlier objects to the same descriptor.
ObjectsOfConnections ==
  \A o \in DOMAIN objs :
    /\ objs[o].k \in DOMAIN kern
    /\ objs[o].fd = kern[objs[o].k].fd
    /\ objs[o].addr = kern[objs[o].k].addr
    /\ objs[o].ConnectStartTs <= now
    /\ \A i \in DOMAIN objs[o].prevConn :
         /\ objs[o].prevConn[i] \in 1..(o - 1)
         /\ objs[objs[o].prevConn[i]].prevConn = << >>
         /\ objs[objs[o].prevConn[i]].fd = objs[o].fd
    /\ \A i, j \in DOMAIN objs[o].prevConn :
         i < j => objs[o].prevConn[i] < objs[o].prevConn[j]

\* The events still to come are later than those the objects were made from.
EventsToCome ==
  \A o \in DOMAIN objs, i \in DOMAIN connEvents :
    (proc.pc # "idle" /\ o = proc.obj => i > 1) =>
      /\ objs[o].ConnectStartTs < connEvents[i].ts
      /\ objs[o].fd = kern[connEvents[i].k].fd => objs[o].k <= connEvents[i].k
      /\ connEvents[i].type = "connect" => objs[o].k # connEvents[i].k

\* What the tables, the sweeper and the delayed OnClose calls refer to.
References ==
  /\ \A f \in Fds : connMap[f] # 0 => connMap[f] \in DOMAIN objs /\ objs[connMap[f]].fd = f
  /\ \A a \in Addrs : sockMap[a] \in 0..Len(objs)
  /\ sweep.obj \in 0..Len(objs)
  /\ \A c \in closing : c.obj \in DOMAIN objs /\ ~Open(objs[c.obj].k)

\* The Processor between NewConnFromEvent and AddConnection4 has the newest object
\* in hand, which no table by descriptor has yet.
InHand ==
  /\ proc.pc = "idle" => proc = Idle
  /\ proc.pc = "find" => proc.existed = 0
  /\ proc.pc # "idle" =>
       LET n == proc.obj IN
       /\ connEvents # << >>
       /\ n \in DOMAIN objs /\ n = Len(objs)
       /\ objs[n].k = connEvents[1].k
       /\ objs[n].ConnectStartTs = connEvents[1].ts
       /\ objs[n].prevConn = << >> /\ objs[n].tracable = "unset"
       /\ connEvents[1].type \in {"connect", "infer"}
       /\ connEvents[1].type = "infer" => connMap[objs[n].fd] = 0 /\ proc.existed = 0
       /\ \A f \in Fds : connMap[f] # n
       /\ sweep.obj # n
  /\ proc.existed # 0 =>
       /\ proc.existed \in DOMAIN objs /\ proc.existed # proc.obj
       /\ objs[proc.existed].fd = objs[proc.obj].fd
  /\ proc.pc = "add" => connMap[objs[proc.obj].fd] \in {0, proc.existed}

\* o is s, or an earlier object that s holds.
Holds(s, o) == o = s \/ \E i \in DOMAIN objs[s].prevConn : o = objs[s].prevConn[i]

HasKey(o) ==
  objs[o].Status = "Connected" /\ objs[o].k \notin removed /\ SoleUser(objs[o].k)
    => sockMap[objs[o].addr] = o

\* The sweeper took the object that AddConnection4 has found.
Lost == proc.existed # 0 /\ connMap[objs[proc.obj].fd] # proc.existed

\* The keys of the objects that the tables hold, that the Processor has in hand,
\* and that the sweeper has taken.
Keys ==
  /\ \A f \in Fds, o \in DOMAIN objs : connMap[f] # 0 /\ Holds(connMap[f], o) => HasKey(o)
  /\ proc.pc # "idle" => HasKey(proc.obj)
  /\ sweep.obj # 0 => \A o \in DOMAIN objs : Holds(sweep.obj, o) => objs[o].k \in removed
  /\ Lost => \A o \in DOMAIN objs : Holds(proc.existed, o) =>
               /\ objs[o].k \in removed
               /\ sweep.obj # proc.existed => sockMap[objs[o].addr] = 0

InUse(s) == (\E f \in Fds : s = connMap[f]) \/ s \in {proc.obj, proc.existed, sweep.obj}

KeysHeld ==
  \A a \in Addrs : sockMap[a] # 0 =>
    \E s, o \in DOMAIN objs : InUse(s) /\ Holds(s, o) /\ objs[o].addr = a

IInv == /\ Shape /\ KernelInOrder /\ EventsInOrder /\ ObjectsOfConnections
        /\ EventsToCome /\ References /\ InHand /\ Keys /\ KeysHeld
        /\ ClosedOnlyAfterClose /\ TraceStateReachesKernel

\* What the types say of the parts.
LEMMA Types ==
  ASSUME Shape
  PROVE  /\ now \in Nat
         /\ DOMAIN kern = 1..Len(kern) /\ Len(kern) \in Nat
         /\ \A k \in DOMAIN kern : kern[k] \in KernConn
         /\ DOMAIN connEvents = 1..Len(connEvents) /\ Len(connEvents) \in Nat
         /\ \A i \in DOMAIN connEvents : connEvents[i] \in Event
         /\ DOMAIN objs = 1..Len(objs) /\ Len(objs) \in Nat
         /\ \A o \in DOMAIN objs : objs[o] \in Connection4
  BY ConnTrackAssumption, SMTT(20) DEF Shape, Horizon

LEMMA InitIInv == Init => IInv
<1> SUFFICES ASSUME Init PROVE IInv
  BY Zenon
<1>1. Horizon \in Nat
  BY ConnTrackAssumption DEF Horizon
<1>2. Shape
  BY <1>1, ConnTrackAssumption DEF Init, Shape, Traces, NoSockId, Idle, Resting
<1>3. DOMAIN kern = {} /\ DOMAIN connEvents = {} /\ DOMAIN objs = {} /\ Len(objs) = 0
  BY DEF Init
<1>4. KernelInOrder /\ EventsInOrder /\ ObjectsOfConnections /\ EventsToCome
  BY <1>3, Zenon DEF Init, KernelInOrder, EventsInOrder, ObjectsOfConnections, EventsToCome
<1>5. References /\ InHand
  BY <1>3 DEF Init, References, InHand, Idle, Resting
<1>6. Keys /\ KeysHeld
  BY <1>3, Zenon DEF Init, Keys, KeysHeld, Lost, Idle, Resting
<1>7. ClosedOnlyAfterClose /\ TraceStateReachesKernel
  BY <1>3, Zenon DEF Init, ClosedOnlyAfterClose, TraceStateReachesKernel, Objects
<1> QED BY <1>2, <1>4, <1>5, <1>6, <1>7, Zenon DEF IInv

-----------------------------------------------------------------------------
(* The kernel.                                                             *)

\* What a step of the kernel does to its connections: they keep descriptor and
\* address, and a closed one stays closed.
KernGrows ==
  /\ Len(kern') >= Len(kern)
  /\ \A k \in DOMAIN kern : /\ kern'[k].fd = kern[k].fd
                            /\ kern'[k].addr = kern[k].addr
                            /\ ~Open(k) => kern'[k].end # 0

\* An event that may follow those reported so far.
Follows(ev) ==
  /\ ev.ts = now'
  /\ ev.k \in DOMAIN kern'
  /\ \A j \in DOMAIN kern' : kern'[j].fd = kern'[ev.k].fd => j <= ev.k
  /\ ev.type = "close" => kern'[ev.k].end # 0
  /\ ev.type = "connect" => ev.k \notin DOMAIN kern

Reports ==
  /\ Len(connEvents') >= Len(connEvents)
  /\ \A i \in DOMAIN connEvents : connEvents'[i] = connEvents[i]
  /\ \A i \in DOMAIN connEvents' \ DOMAIN connEvents :
       Follows(connEvents'[i]) /\ i = Len(connEvents) + 1

agentVars == <<objs, connMap, sockMap, proc, closing, sweep, removed>>

\* A step of the kernel, with the event it reports if any, leaves the agent's part
\* of the invariant as it was.
LEMMA KernelStep ==
  ASSUME IInv, Shape', KernGrows, now' > now, UNCHANGED agentVars, Reports
  PROVE  /\ EventsInOrder' /\ ObjectsOfConnections' /\ EventsToCome' /\ References'
         /\ InHand' /\ Keys' /\ KeysHeld' /\ ClosedOnlyAfterClose'
<1>1. /\ kern \in Seq(KernConn) /\ kern' \in Seq(KernConn) /\ connEvents \in Seq(Event)
      /\ connEvents' \in Seq(Event) /\ objs \in Seq(Connection4)
      /\ now \in Nat /\ now' \in Nat
  BY ConnTrackAssumption DEF IInv, Shape, Horizon
<1>2. /\ DOMAIN kern = 1..Len(kern) /\ Len(kern) \in Nat
      /\ DOMAIN kern' = 1..Len(kern') /\ Len(kern') \in Nat
      /\ DOMAIN connEvents = 1..Len(connEvents) /\ Len(connEvents) \in Nat
      /\ DOMAIN connEvents' = 1..Len(connEvents') /\ Len(connEvents') \in Nat
  BY <1>1
<1>3. DOMAIN kern \subseteq DOMAIN kern'
  BY <1>2 DEF KernGrows
<1>4. /\ Len(connEvents') >= Len(connEvents)
      /\ \A i \in DOMAIN connEvents : connEvents'[i] = connEvents[i]
      /\ \A i \in DOMAIN connEvents' \ DOMAIN connEvents :
           Follows(connEvents'[i]) /\ i = Len(connEvents) + 1
  BY Zenon DEF Reports
<1>5. \A i \in DOMAIN connEvents : connEvents[i].k \in DOMAIN kern /\ connEvents[i].ts \in Nat
  <2>1. \A i \in DOMAIN connEvents : connEvents[i] \in Event
    BY <1>1
  <2>2. \A e \in Event : e.ts \in Nat
    BY Zenon DEF Event
  <2> QED BY <2>1, <2>2, Zenon DEF IInv, EventsInOrder
<1>6. \A o \in DOMAIN objs : objs[o].k \in DOMAIN kern /\ objs[o].ConnectStartTs \in Nat
  <2>1. \A o \in DOMAIN objs : objs[o] \in Connection4
    BY <1>1
  <2>2. \A c \in Connection4 : c.ConnectStartTs \in Nat
    BY Zenon DEF Connection4
  <2> QED BY <2>1, <2>2, Zenon DEF IInv, ObjectsOfConnections
<1>7. objs' = objs /\ connMap' = connMap /\ sockMap' = sockMap /\ proc' = proc
      /\ closing' = closing /\ sweep' = sweep /\ removed' = removed
  BY Zenon DEF agentVars
<1>8. EventsInOrder'
  <2>1. ASSUME NEW i \in DOMAIN connEvents'
        PROVE  /\ connEvents'[i].k \in DOMAIN kern'
               /\ connEvents'[i].ts <= now'
               /\ connEvents'[i].type = "close" => kern'[connEvents'[i].k].end # 0
    <3>1. CASE i \in DOMAIN connEvents
      <4>1. /\ connEvents'[i] = connEvents[i] /\ connEvents[i].k \in DOMAIN kern
            /\ connEvents[i].ts <= now /\ connEvents[i].ts \in Nat
            /\ connEvents[i].type = "close" => ~Open(connEvents[i].k)
        BY <1>4, <1>5, <3>1, Zenon DEF IInv, EventsInOrder
      <4> QED BY <1>1, <1>3, <4>1 DEF KernGrows
    <3>2. CASE i \notin DOMAIN connEvents
      BY <1>1, <1>4, <3>2 DEF Follows, Open
    <3> QED BY <3>1, <3>2, Zenon
  <2>2. ASSUME NEW i \in DOMAIN connEvents', NEW j \in DOMAIN connEvents', i < j
        PROVE  /\ connEvents'[i].ts < connEvents'[j].ts
               /\ kern'[connEvents'[i].k].fd = kern'[connEvents'[j].k].fd
                    => connEvents'[i].k <= connEvents'[j].k
               /\ connEvents'[j].type = "connect" => connEvents'[i].k # connEvents'[j].k
    <3>0. i \in DOMAIN connEvents
      BY <1>2, <1>4, <2>2
    <3>1. CASE j \in DOMAIN connEvents
      BY <1>4, <1>5, <2>2, <3>0, <3>1 DEF IInv, EventsInOrder, KernGrows
    <3>2. CASE j \notin DOMAIN connEvents
      <4>1. /\ connEvents'[i] = connEvents[i] /\ connEvents[i].k \in DOMAIN kern
            /\ connEvents[i].ts <= now /\ connEvents[i].ts \in Nat
        BY <1>4, <1>5, <3>0, Zenon DEF IInv, EventsInOrder
      <4>2. Follows(connEvents'[j])
        BY <1>4, <3>2, Zenon
      <4> QED BY <1>1, <1>3, <4>1, <4>2, SMTT(20) DEF Follows
    <3> QED BY <3>1, <3>2, Zenon
  <2> QED BY <2>1, <2>2, Zenon DEF EventsInOrder, Open
<1>9. ObjectsOfConnections'
  <2>1. ASSUME NEW o \in DOMAIN objs
        PROVE  /\ objs[o].k \in DOMAIN kern'
               /\ objs[o].fd = kern'[objs[o].k].fd
               /\ objs[o].addr = kern'[objs[o].k].addr
               /\ objs[o].ConnectStartTs <= now'
    <3>1. /\ objs[o].k \in DOMAIN kern /\ objs[o].fd = kern[objs[o].k].fd
          /\ objs[o].addr = kern[objs[o].k].addr /\ objs[o].ConnectStartTs <= now
      BY Zenon DEF IInv, ObjectsOfConnections
    <3> QED BY <1>1, <1>3, <1>6, <3>1 DEF KernGrows
  <2> QED BY <1>7, <2>1 DEF IInv, ObjectsOfConnections
<1>10. EventsToCome'
  <2> SUFFICES ASSUME NEW o \in DOMAIN objs, NEW i \in DOMAIN connEvents',
                      proc.pc # "idle" /\ o = proc.obj => i > 1
               PROVE  /\ objs[o].ConnectStartTs < connEvents'[i].ts
                      /\ objs[o].fd = kern'[connEvents'[i].k].fd => objs[o].k <= connEvents'[i].k
                      /\ connEvents'[i].type = "connect" => objs[o].k # connEvents'[i].k
    BY <1>7, Zenon DEF EventsToCome
  <2>1. CASE i \in DOMAIN connEvents
    BY <1>4, <1>5, <2>1 DEF IInv, EventsToCome, KernGrows
  <2>2. CASE i \notin DOMAIN connEvents
    <3>1. Follows(connEvents'[i])
      BY <1>4, <2>2, Zenon
    <3>2. /\ objs[o].ConnectStartTs <= now /\ objs[o].k \in DOMAIN kern
          /\ objs[o].fd = kern'[objs[o].k].fd
      BY <1>6, Zenon DEF IInv, ObjectsOfConnections, KernGrows
    <3> QED BY <1>1, <1>3, <1>6, <3>1, <3>2 DEF Follows
  <2> QED BY <2>1, <2>2, Zenon
<1>11. References'
  <2>1. \A c \in closing : c.obj \in DOMAIN objs /\ kern'[objs[c.obj].k].end # 0
    BY <1>6, <1>7, Zenon DEF IInv, References, KernGrows, Open
  <2> QED BY <1>7, <2>1, Zenon DEF IInv, References, Open
<1>12. InHand'
  <2>1. connEvents # << >> => connEvents' # << >> /\ connEvents'[1] = connEvents[1]
    <3> SUFFICES ASSUME connEvents # << >> PROVE connEvents' # << >> /\ connEvents'[1] = connEvents[1]
      BY Zenon
    <3>1. Len(connEvents) > 0
      BY <1>1
    <3>2. 1 \in DOMAIN connEvents /\ Len(connEvents') > 0
      BY <1>2, <1>4, <3>1
    <3> QED BY <1>1, <1>4, <3>2
  <2> QED BY <1>7, <2>1, Zenon DEF IInv, InHand
<1>13. \A o \in DOMAIN objs : HasKey(o) => HasKey(o)'
  <2>1. ASSUME NEW o \in DOMAIN objs, SoleUser(objs[o].k)' PROVE SoleUser(objs[o].k)
    BY <1>3, <1>6, <1>7, <2>1, Zenon DEF SoleUser, KernGrows
  <2> QED BY <1>7, <2>1, Zenon DEF HasKey
<1>14. Keys' /\ KeysHeld'
  <2>1. \A s, o : Holds(s, o)' = Holds(s, o)
    BY <1>7, Zenon DEF Holds
  <2>2. Lost' = Lost
    BY <1>7, Zenon DEF Lost
  <2>3. proc.pc # "idle" => proc.obj \in DOMAIN objs
    BY Zenon DEF IInv, InHand
  <2>4. Keys'
    BY <1>7, <1>13, <2>1, <2>2, <2>3, Zenon DEF IInv, Keys
  <2>5. KeysHeld'
    BY <1>7, <2>1 DEF IInv, KeysHeld, InUse
  <2> QED BY <2>4, <2>5, Zenon
<1>15. ClosedOnlyAfterClose'
  BY <1>6, <1>7, Zenon DEF IInv, ClosedOnlyAfterClose, KernGrows, Objects, Open
<1> QED BY <1>8, <1>9, <1>10, <1>11, <1>12, <1>14, <1>15, Zenon

LEMMA ReportsOne ==
  ASSUME connEvents \in Seq(Event), NEW ev \in Event, Follows(ev),
         connEvents' = Append(connEvents, ev)
  PROVE  Reports /\ connEvents' \in Seq(Event)
<1>1. /\ connEvents' \in Seq(Event)
      /\ Len(connEvents') = Len(connEvents) + 1 /\ Len(connEvents) \in Nat
      /\ DOMAIN connEvents = 1..Len(connEvents)
      /\ DOMAIN connEvents' = 1..(Len(connEvents) + 1)
      /\ \A i \in DOMAIN connEvents : connEvents'[i] = connEvents[i]
      /\ connEvents'[Len(connEvents) + 1] = ev
  OBVIOUS
<1>2. ASSUME NEW i \in DOMAIN connEvents' \ DOMAIN connEvents
      PROVE  Follows(connEvents'[i]) /\ i = Len(connEvents) + 1
  <2>1. i = Len(connEvents) + 1
    BY <1>1, <1>2
  <2> QED BY <1>1, <2>1, Zenon DEF Follows
<1> QED BY <1>1, <1>2 DEF Reports

LEMMA ReportsNone == ASSUME connEvents' = connEvents PROVE Reports
  BY DEF Reports

\* The last connection of a descriptor is the one its entry leads to.
LEMMA LastOfDescriptor ==
  ASSUME IInv, NEW f \in Fds, connInfo[f].k # 0, NEW j \in DOMAIN kern, kern[j].fd = f
  PROVE  j <= connInfo[f].k
<1>1. /\ DOMAIN kern = 1..Len(kern) /\ Len(kern) \in Nat
  BY Types, Zenon DEF IInv
<1>2. connInfo[f].k \in DOMAIN kern /\ kern[connInfo[f].k].fd = f /\ Open(connInfo[f].k)
  BY Zenon DEF IInv, KernelInOrder
<1>3. ~(connInfo[f].k < j)
  BY <1>2, Zenon DEF IInv, KernelInOrder
<1> QED BY <1>1, <1>2, <1>3

LEMMA CreateIInv ==
  ASSUME IInv, NEW f \in Fds, NEW a \in Addrs, create_conn_info(f, a)
  PROVE  IInv'
<1> DEFINE k == Len(kern) + 1
           c == [fd |-> f, addr |-> a, start |-> now + 1, end |-> 0,
                 proto |-> "unset", seq |-> [d \in Kinds |-> 0]]
<1>1. /\ Shape /\ now \in Nat /\ DOMAIN kern = 1..Len(kern) /\ Len(kern) \in Nat
      /\ kern \in Seq(KernConn) /\ connEvents \in Seq(Event)
  BY Types, Zenon DEF IInv, Shape
<1>2. /\ now' = now + 1 /\ now < MaxTime /\ k <= MaxConns /\ connInfo[f].k = 0
      /\ kern' = Append(kern, c)
      /\ connInfo' = [connInfo EXCEPT ![f] = [k |-> k, noTrace |-> "unset"]]
      /\ sockIds' = IF sockIds[a] = NoSockId
                    THEN [sockIds EXCEPT ![a] = [fd |-> f, noTrace |-> "unset"]]
                    ELSE sockIds
      /\ connEvents' = Append(connEvents, ConnEvent("connect", k, "unset"))
      /\ UNCHANGED <<dataEvents, tables, proc, closing, sweep, history>>
  BY Zenon DEF create_conn_info, KernelEvent, Advance
<1>3. UNCHANGED <<objs, connMap, sockMap, proc, closing, sweep, removed, dataEvents>>
  BY <1>2, Zenon DEF tables, history
<1>4. c \in KernConn
  BY <1>1 DEF KernConn, Protocols
<1> HIDE DEF c
<1>5. /\ kern' \in Seq(KernConn) /\ Len(kern') = k /\ DOMAIN kern' = 1..k
      /\ \A j \in DOMAIN kern : kern'[j] = kern[j]
      /\ kern'[k] = c /\ c.end = 0 /\ c.fd = f
  BY <1>1, <1>2, <1>4 DEF c
<1>6. PICK ev \in Event : ev = ConnEvent("connect", k, "unset")
  <2>1. ConnEvent("connect", k, "unset") \in Event
    BY <1>1 DEF Event, ConnEvent, Protocols
  <2> QED BY <2>1, Zenon
<1>7. ev.ts = now + 1 /\ ev.k = k /\ ev.type = "connect"
  BY <1>6, Zenon DEF ConnEvent
<1>8. Follows(ev)
  BY <1>1, <1>2, <1>5, <1>7 DEF Follows
<1>9. Reports /\ connEvents' \in Seq(Event)
  BY <1>1, <1>2, <1>6, <1>8, ReportsOne, Zenon
<1>10. Shape'
  <2>1. now' \in 0..Horizon
    BY <1>1, <1>2, ConnTrackAssumption DEF Horizon
  <2>2. connInfo' \in [Fds -> [k : Nat, noTrace : Traces]]
    BY <1>1, <1>2 DEF Shape, Traces
  <2>3. sockIds' \in [Addrs -> {NoSockId} \cup [fd : Fds, noTrace : Traces]]
    BY <1>1, <1>2, Zenon DEF Shape, Traces
  <2> QED BY <1>1, <1>2, <1>3, <1>5, <1>9, <2>1, <2>2, <2>3, Zenon DEF Shape
<1>11. KernGrows
  BY <1>1, <1>5 DEF KernGrows, Open
<1>12. KernelInOrder'
  <2>1. \A j \in DOMAIN kern : kern[j].fd = f => ~Open(j)
    BY <1>1, <1>2 DEF IInv, KernelInOrder
  <2>2. ASSUME NEW g \in Fds, connInfo'[g].k # 0
        PROVE  /\ connInfo'[g].k \in DOMAIN kern'
               /\ kern'[connInfo'[g].k].fd = g
               /\ kern'[connInfo'[g].k].end = 0
    <3>1. CASE g = f
      BY <1>1, <1>2, <1>5, <3>1 DEF Shape
    <3>2. CASE g # f
      <4>1. connInfo'[g] = connInfo[g]
        BY <1>1, <1>2, <3>2, Zenon DEF Shape
      <4>2. connInfo[g].k \in DOMAIN kern /\ kern[connInfo[g].k].fd = g /\ Open(connInfo[g].k)
        BY <2>2, <4>1, Zenon DEF IInv, KernelInOrder
      <4> QED BY <1>1, <1>5, <4>1, <4>2 DEF Open
    <3> QED BY <3>1, <3>2, Zenon
  <2>3. ASSUME NEW j \in DOMAIN kern', kern'[j].end = 0 PROVE connInfo'[kern'[j].fd].k = j
    <3>1. CASE j = k
      BY <1>1, <1>2, <1>5, <3>1, Zenon DEF Shape
    <3>2. CASE j # k
      <4>1. j \in DOMAIN kern /\ kern'[j] = kern[j] /\ kern[j].fd \in Fds
        <5>1. j \in DOMAIN kern /\ kern'[j] = kern[j]
          BY <1>1, <1>5, <3>2
        <5>2. kern[j] \in KernConn
          BY <1>1, <5>1, Types, Zenon
        <5> QED BY <5>1, <5>2, Zenon DEF KernConn
      <4>2. kern[j].fd # f /\ connInfo[kern[j].fd].k = j
        BY <2>1, <2>3, <4>1, Zenon DEF Open, IInv, KernelInOrder
      <4> QED BY <1>1, <1>2, <4>1, <4>2, Zenon DEF Shape
    <3> QED BY <3>1, <3>2, Zenon
  <2>4. ASSUME NEW i \in DOMAIN kern', NEW j \in DOMAIN kern', i < j, kern'[i].fd = kern'[j].fd
        PROVE  kern'[i].end # 0
    <3>1. i \in DOMAIN kern /\ kern'[i] = kern[i]
      BY <1>1, <1>5, <2>4
    <3>2. CASE j = k
      BY <1>5, <2>1, <2>4, <3>1, <3>2, Zenon DEF Open
    <3>3. CASE j # k
      BY <1>1, <1>5, <2>4, <3>1, <3>3 DEF IInv, KernelInOrder, Open
    <3> QED BY <3>2, <3>3, Zenon
  <2> QED BY <2>2, <2>3, <2>4, Zenon DEF KernelInOrder, Open
<1>13. TraceStateReachesKernel'
  <2> SUFFICES ASSUME NEW g \in Fds, connMap[g] # 0, connInfo'[g].k # 0,
                      objs[connMap[g]].tracable = "traceable",
                      objs[connMap[g]].k = connInfo'[g].k
               PROVE  connInfo'[g].noTrace = "traceable"
    BY <1>3, Zenon DEF TraceStateReachesKernel
  <2>1. objs[connMap[g]].k \in DOMAIN kern
    BY Zenon DEF IInv, References, ObjectsOfConnections
  <2>2. g # f
    BY <1>1, <1>2, <2>1 DEF Shape
  <2>3. connInfo'[g] = connInfo[g]
    BY <1>1, <1>2, <2>2, Zenon DEF Shape
  <2> QED BY <2>3, Zenon DEF IInv, TraceStateReachesKernel
<1> QED BY <1>3, <1>9, <1>10, <1>11, <1>12, <1>13, <1>1, <1>2, KernelStep DEF IInv, agentVars

\* A connection after its close, and after data of a kind.
LEMMA EndedConn ==
  ASSUME NEW c \in KernConn, NEW t \in Nat
  PROVE  LET d == [c EXCEPT !.end = t] IN
         d \in KernConn /\ d.fd = c.fd /\ d.addr = c.addr /\ d.end = t
  BY Zenon DEF KernConn

LEMMA CountedConn ==
  ASSUME NEW c \in KernConn, NEW kind \in Kinds, NEW p \in Protocols
  PROVE  LET d == [c EXCEPT !.proto = p, !.seq[kind] = @ + 1] IN
         d \in KernConn /\ d.fd = c.fd /\ d.addr = c.addr /\ d.end = c.end
<1>1. c.seq \in [Kinds -> Nat]
  BY Zenon DEF KernConn
<1>2. [c.seq EXCEPT ![kind] = @ + 1] \in [Kinds -> Nat]
  BY <1>1
<1> QED BY <1>2, Zenon DEF KernConn

\* A step that changes one connection and keeps its descriptor and address.
LEMMA KernChanged ==
  ASSUME kern \in Seq(KernConn), NEW k \in DOMAIN kern, NEW c \in KernConn,
         c.fd = kern[k].fd, c.addr = kern[k].addr, kern[k].end # 0 => c.end # 0,
         kern' = [kern EXCEPT ![k] = c]
  PROVE  /\ kern' \in Seq(KernConn) /\ Len(kern') = Len(kern) /\ DOMAIN kern' = DOMAIN kern
         /\ \A j \in DOMAIN kern : kern'[j] = IF j = k THEN c ELSE kern[j]
         /\ KernGrows
<1>1. /\ kern' \in Seq(KernConn) /\ Len(kern') = Len(kern) /\ DOMAIN kern' = DOMAIN kern
      /\ \A j \in DOMAIN kern : kern'[j] = IF j = k THEN c ELSE kern[j]
      /\ Len(kern) \in Nat
  OBVIOUS
<1>2. KernGrows
  BY <1>1 DEF KernGrows, Open
<1> QED BY <1>1, <1>2, Zenon

\* The order of the kernel's connections is about descriptors, ends and entries.
LEMMA OrderKept ==
  ASSUME KernelInOrder, DOMAIN kern' = DOMAIN kern,
         \A j \in DOMAIN kern : kern'[j].fd = kern[j].fd /\ kern'[j].end = kern[j].end,
         \A j \in DOMAIN kern : kern[j].fd \in Fds,
         \A f \in Fds : connInfo'[f].k = connInfo[f].k
  PROVE  KernelInOrder'
  BY DEF KernelInOrder, Open

LEMMA CloseSyscallIInv ==
  ASSUME IInv, NEW f \in Fds, process_syscall_close(f)
  PROVE  IInv'
<1> DEFINE k == connInfo[f].k
           c == [kern[k] EXCEPT !.end = now + 1]
<1>1. /\ Shape /\ now \in Nat /\ DOMAIN kern = 1..Len(kern) /\ Len(kern) \in Nat
      /\ kern \in Seq(KernConn) /\ connEvents \in Seq(Event)
  BY Types, Zenon DEF IInv, Shape
<1>2. /\ now' = now + 1 /\ now < MaxTime /\ k # 0
      /\ kern' = [kern EXCEPT ![k] = c]
      /\ connEvents' = Append(connEvents, ConnEvent("close", k, kern[k].proto))
      /\ connInfo' = [connInfo EXCEPT ![f] = [k |-> 0, noTrace |-> "unset"]]
      /\ sockIds' = [sockIds EXCEPT ![kern[k].addr] = NoSockId]
      /\ UNCHANGED <<dataEvents, tables, proc, closing, sweep, history>>
  BY Zenon DEF process_syscall_close, KernelEvent, Advance
<1>3. UNCHANGED <<objs, connMap, sockMap, proc, closing, sweep, removed, dataEvents>>
  BY <1>2, Zenon DEF tables, history
<1>4. k \in DOMAIN kern /\ kern[k].fd = f /\ kern[k].end = 0 /\ kern[k] \in KernConn
  BY <1>1, <1>2, Types, Zenon DEF IInv, KernelInOrder, Open
<1>5. c \in KernConn /\ c.fd = f /\ c.addr = kern[k].addr /\ c.end # 0
  <2>1. now + 1 \in Nat /\ now + 1 # 0
    BY <1>1
  <2> QED BY <1>4, <2>1, EndedConn, Zenon
<1>6. \A j \in DOMAIN kern : kern[j].fd = f => j <= k
  BY <1>2, LastOfDescriptor, Zenon
<1> HIDE DEF c
<1>7. /\ kern' \in Seq(KernConn) /\ Len(kern') = Len(kern) /\ DOMAIN kern' = DOMAIN kern
      /\ \A j \in DOMAIN kern : kern'[j] = IF j = k THEN c ELSE kern[j]
      /\ KernGrows
  BY <1>1, <1>2, <1>4, <1>5, KernChanged, Zenon
<1>8. PICK ev \in Event : ev = ConnEvent("close", k, kern[k].proto)
  <2>1. ConnEvent("close", k, kern[k].proto) \in Event
    BY <1>1, <1>4 DEF Event, ConnEvent, KernConn
  <2> QED BY <2>1, Zenon
<1>9. ev.ts = now + 1 /\ ev.k = k /\ ev.type = "close"
  BY <1>8, Zenon DEF ConnEvent
<1>10. Follows(ev)
  BY <1>2, <1>4, <1>5, <1>6, <1>7, <1>9, Zenon DEF Follows
<1>11. Reports /\ connEvents' \in Seq(Event)
  BY <1>1, <1>2, <1>8, <1>10, ReportsOne, Zenon
<1>12. Shape'
  <2>1. now' \in 0..Horizon
    BY <1>1, <1>2, ConnTrackAssumption DEF Horizon
  <2>2. connInfo' \in [Fds -> [k : Nat, noTrace : Traces]]
    BY <1>1, <1>2, Zenon DEF Shape, Traces
  <2>3. sockIds' \in [Addrs -> {NoSockId} \cup [fd : Fds, noTrace : Traces]]
    BY <1>1, <1>2, Zenon DEF Shape
  <2> QED BY <1>1, <1>2, <1>3, <1>7, <1>11, <2>1, <2>2, <2>3, Zenon DEF Shape
<1>13. connInfo'[f].k = 0 /\ \A g \in Fds : g # f => connInfo'[g] = connInfo[g]
  BY <1>1, <1>2, Zenon DEF Shape
<1>14. KernelInOrder'
  <2>1. ASSUME NEW g \in Fds, connInfo'[g].k # 0
        PROVE  /\ connInfo'[g].k \in DOMAIN kern'
               /\ kern'[connInfo'[g].k].fd = g
               /\ kern'[connInfo'[g].k].end = 0
    BY <1>4, <1>7, <1>13, <2>1 DEF IInv, KernelInOrder, Open
  <2>2. ASSUME NEW j \in DOMAIN kern', kern'[j].end = 0 PROVE connInfo'[kern'[j].fd].k = j
    <3>1. j # k /\ kern'[j] = kern[j] /\ j \in DOMAIN kern
      BY <1>5, <1>7, <2>2, Zenon
    <3>2. connInfo[kern[j].fd].k = j /\ kern[j].fd \in Fds
      BY <1>1, <2>2, <3>1, Types, Zenon DEF IInv, KernelInOrder, Open, KernConn
    <3> QED BY <1>13, <3>1, <3>2, Zenon
  <2>3. ASSUME NEW i \in DOMAIN kern', NEW j \in DOMAIN kern', i < j, kern'[i].fd = kern'[j].fd
        PROVE  kern'[i].end # 0
    BY <1>4, <1>5, <1>7, <2>3 DEF IInv, KernelInOrder, Open
  <2> QED BY <2>1, <2>2, <2>3, Zenon DEF KernelInOrder, Open
<1>15. TraceStateReachesKernel'
  BY <1>3, <1>13, Zenon DEF IInv, TraceStateReachesKernel
<1> QED BY <1>1, <1>2, <1>3, <1>7, <1>11, <1>12, <1>14, <1>15, KernelStep DEF IInv, agentVars

LEMMA DataSyscallIInv ==
  ASSUME IInv, NEW kind \in Kinds, NEW f \in Fds, NEW inferred \in Protocols,
         process_syscall_data(kind, f, inferred)
  PROVE  IInv'
<1> DEFINE k == connInfo[f].k
           c == [kern[k] EXCEPT !.proto = inferred, !.seq[kind] = @ + 1]
<1>1. /\ Shape /\ now \in Nat /\ DOMAIN kern = 1..Len(kern) /\ Len(kern) \in Nat
      /\ kern \in Seq(KernConn) /\ connEvents \in Seq(Event)
  BY Types, Zenon DEF IInv, Shape
<1>2. /\ now' = now + 1 /\ now < MaxTime /\ k # 0
      /\ kern' = [kern EXCEPT ![k] = c]
      /\ connEvents' = IF kern[k].proto # inferred
                       THEN Append(connEvents, ConnEvent("infer", k, inferred))
                       ELSE connEvents
      /\ \/ dataEvents' = dataEvents
         \/ dataEvents' = [dataEvents EXCEPT ![kind] = Append(@, DataEvent(kind, k, f))]
      /\ UNCHANGED <<connInfo, sockIds, tables, proc, closing, sweep, history>>
  BY Zenon DEF process_syscall_data, KernelEvent, Advance
<1>3. UNCHANGED <<connInfo, sockIds, objs, connMap, sockMap, proc, closing, sweep, removed>>
  BY <1>2, Zenon DEF tables, history
<1>4. k \in DOMAIN kern /\ kern[k].fd = f /\ kern[k].end = 0 /\ kern[k] \in KernConn
  BY <1>1, <1>2, Types, Zenon DEF IInv, KernelInOrder, Open
<1>5. c \in KernConn /\ c.fd = f /\ c.addr = kern[k].addr /\ c.end = kern[k].end
  BY <1>4, CountedConn, ZenonT(30)
<1>6. \A j \in DOMAIN kern : kern[j].fd = f => j <= k
  BY <1>2, LastOfDescriptor, Zenon
<1> HIDE DEF c
<1>7. /\ kern' \in Seq(KernConn) /\ Len(kern') = Len(kern) /\ DOMAIN kern' = DOMAIN kern
      /\ \A j \in DOMAIN kern : kern'[j] = IF j = k THEN c ELSE kern[j]
      /\ KernGrows
  BY <1>1, <1>2, <1>4, <1>5, KernChanged, Zenon
<1>8. Reports /\ connEvents' \in Seq(Event)
  <2>1. CASE kern[k].proto # inferred
    <3>1. PICK ev \in Event : ev = ConnEvent("infer", k, inferred)
      <4>1. ConnEvent("infer", k, inferred) \in Event
        BY <1>1, <1>4 DEF Event, ConnEvent
      <4> QED BY <4>1, Zenon
    <3>2. ev.ts = now + 1 /\ ev.k = k /\ ev.type = "infer"
      BY <3>1, Zenon DEF ConnEvent
    <3>3. Follows(ev)
      BY <1>2, <1>4, <1>5, <1>6, <1>7, <3>2, Zenon DEF Follows
    <3> QED BY <1>1, <1>2, <2>1, <3>1, <3>3, ReportsOne, Zenon
  <2>2. CASE kern[k].proto = inferred
    BY <1>1, <1>2, <2>2, ReportsNone, Zenon
  <2> QED BY <2>1, <2>2, Zenon
<1>9. dataEvents' \in [Kinds -> Seq(Data)]
  <2>1. DataEvent(kind, k, f) \in Data
    <3>1. now + 1 \in Nat /\ k \in Nat
      BY <1>1, <1>4
    <3>2. kern[k].seq[kind] + 1 \in Nat
      BY <1>4 DEF KernConn
    <3> HIDE DEF k
    <3> QED BY <3>1, <3>2, Zenon DEF DataEvent, Data
  <2> HIDE DEF k
  <2>2. dataEvents \in [Kinds -> Seq(Data)]
    BY <1>1, Zenon DEF Shape
  <2>3. PICK e \in Data : e = DataEvent(kind, k, f)
    BY <2>1, Zenon
  <2>4. CASE dataEvents' = [dataEvents EXCEPT ![kind] = Append(@, e)]
    <3>1. Append(dataEvents[kind], e) \in Seq(Data)
      BY <2>2
    <3> QED BY <2>2, <2>4, <3>1, Zenon
  <2> QED BY <1>2, <2>2, <2>3, <2>4, Zenon
<1>10. Shape'
  <2>1. now' \in 0..Horizon
    BY <1>1, <1>2, ConnTrackAssumption DEF Horizon
  <2> QED BY <1>1, <1>2, <1>3, <1>7, <1>8, <1>9, <2>1, Zenon DEF Shape
<1>11. KernelInOrder'
  <2>1. \A j \in DOMAIN kern : kern[j].fd \in Fds
    BY <1>1, Types, Zenon DEF KernConn
  <2>2. \A j \in DOMAIN kern : kern'[j].fd = kern[j].fd /\ kern'[j].end = kern[j].end
    BY <1>4, <1>5, <1>7, Zenon
  <2>3. KernelInOrder /\ DOMAIN kern' = DOMAIN kern /\ connInfo' = connInfo
    BY <1>3, <1>7, Zenon DEF IInv
  <2> QED BY <2>1, <2>2, <2>3, OrderKept, Zenon
<1>12. TraceStateReachesKernel'
  BY <1>3, Zenon DEF IInv, TraceStateReachesKernel
<1> QED BY <1>1, <1>2, <1>3, <1>7, <1>8, <1>10, <1>11, <1>12, KernelStep DEF IInv, agentVars

LEMMA PacketIInv ==
  ASSUME IInv, "kern" \in Kinds, NEW k \in DOMAIN kern, report_kern_evt(k)
  PROVE  IInv'
<1> DEFINE id == sockIds[kern[k].addr]
           c == [kern[k] EXCEPT !.seq["kern"] = @ + 1]
<1>1. /\ Shape /\ now \in Nat /\ DOMAIN kern = 1..Len(kern) /\ Len(kern) \in Nat
      /\ kern \in Seq(KernConn) /\ kern[k] \in KernConn
  BY Types, Zenon DEF IInv, Shape
<1>2. /\ now' = now + 1 /\ now < MaxTime /\ id # NoSockId
      /\ kern' = [kern EXCEPT ![k] = c]
      /\ dataEvents' = [dataEvents EXCEPT !["kern"] = Append(@, DataEvent("kern", k, id.fd))]
      /\ UNCHANGED <<connInfo, sockIds, connEvents, tables, proc, closing, sweep, history>>
  BY Zenon DEF report_kern_evt, KernelEvent, Advance
<1>3. UNCHANGED <<connInfo, sockIds, connEvents, objs, connMap, sockMap, proc, closing, sweep,
                  removed>>
  BY <1>2, Zenon DEF tables, history
<1>4. c \in KernConn /\ c.fd = kern[k].fd /\ c.addr = kern[k].addr /\ c.end = kern[k].end
  <2>1. kern[k].proto \in Protocols
    BY <1>1, Zenon DEF KernConn
  <2>2. c = [kern[k] EXCEPT !.proto = kern[k].proto, !.seq["kern"] = @ + 1]
    BY <1>1, Zenon DEF KernConn
  <2> HIDE DEF c
  <2> QED BY <1>1, <2>1, <2>2, CountedConn, ZenonT(30)
<1> HIDE DEF c
<1>5. /\ kern' \in Seq(KernConn) /\ Len(kern') = Len(kern) /\ DOMAIN kern' = DOMAIN kern
      /\ \A j \in DOMAIN kern : kern'[j] = IF j = k THEN c ELSE kern[j]
      /\ KernGrows
  BY <1>1, <1>2, <1>4, KernChanged, Zenon
<1>6. dataEvents' \in [Kinds -> Seq(Data)]
  <2>1. id.fd \in Fds
    <3>1. id \in {NoSockId} \cup [fd : Fds, noTrace : Traces]
      BY <1>1, Zenon DEF Shape, KernConn
    <3> QED BY <1>2, <3>1, Zenon
  <2> HIDE DEF id
  <2>2. DataEvent("kern", k, id.fd) \in Data
    BY <1>1, <2>1 DEF DataEvent, Data, KernConn
  <2>3. PICK e \in Data : e = DataEvent("kern", k, id.fd)
    BY <2>2, Zenon
  <2>4. dataEvents \in [Kinds -> Seq(Data)]
    BY <1>1, Zenon DEF Shape
  <2>5. Append(dataEvents["kern"], e) \in Seq(Data)
    BY <2>4
  <2> QED BY <1>2, <2>3, <2>4, <2>5, Zenon
<1>7. Shape'
  <2>1. now' \in 0..Horizon
    BY <1>1, <1>2, ConnTrackAssumption DEF Horizon
  <2> QED BY <1>1, <1>3, <1>5, <1>6, <2>1, Zenon DEF Shape
<1>8. KernelInOrder'
  <2>1. \A j \in DOMAIN kern : kern[j].fd \in Fds
    BY <1>1, Types, Zenon DEF KernConn
  <2>2. \A j \in DOMAIN kern : kern'[j].fd = kern[j].fd /\ kern'[j].end = kern[j].end
    BY <1>4, <1>5, Zenon
  <2>3. KernelInOrder /\ DOMAIN kern' = DOMAIN kern /\ connInfo' = connInfo
    BY <1>3, <1>5, Zenon DEF IInv
  <2> QED BY <2>1, <2>2, <2>3, OrderKept, Zenon
<1>9. TraceStateReachesKernel'
  BY <1>3, Zenon DEF IInv, TraceStateReachesKernel
<1>10. Reports
  BY <1>3, ReportsNone, Zenon
<1> QED BY <1>1, <1>2, <1>3, <1>5, <1>7, <1>8, <1>9, <1>10, KernelStep DEF IInv, agentVars

LEMMA TickIInv == ASSUME IInv, Tick PROVE IInv'
<1>1. /\ now' = now + 1 /\ now < Horizon /\ now \in Nat /\ Shape
      /\ UNCHANGED <<env, connEvents, dataEvents, tables, proc, closing, sweep, history>>
  BY Types, Zenon DEF IInv, Tick, Advance
<1>2. /\ UNCHANGED <<kern, connInfo, sockIds, connEvents, dataEvents, objs, connMap, sockMap, proc,
                     closing, sweep, removed>>
  BY <1>1, Zenon DEF env, tables, history
<1>3. Horizon \in Nat
  BY ConnTrackAssumption DEF Horizon
<1>4. Shape'
  BY <1>1, <1>2, <1>3 DEF Shape
<1>5. KernelInOrder' /\ TraceStateReachesKernel'
  BY <1>2, Zenon DEF IInv, KernelInOrder, TraceStateReachesKernel, Open
<1>6. Reports
  BY <1>2, ReportsNone, Zenon
<1>7. KernGrows
  <2>1. Len(kern) \in Nat
    BY <1>1, Types, Zenon
  <2> QED BY <1>2, <2>1 DEF KernGrows, Open
<1> QED BY <1>1, <1>2, <1>4, <1>5, <1>6, <1>7, KernelStep DEF IInv, agentVars

-----------------------------------------------------------------------------
(* Steps of the agent that keep the tables.                                *)

\* The objects keep their connections and their earlier objects, and one that is
\* marked closed belongs to a connection that has ended.
ObjectsKept ==
  /\ DOMAIN objs' = DOMAIN objs
  /\ \A o \in DOMAIN objs :
       /\ objs'[o].k = objs[o].k /\ objs'[o].fd = objs[o].fd /\ objs'[o].addr = objs[o].addr
       /\ objs'[o].ConnectStartTs = objs[o].ConnectStartTs /\ objs'[o].prevConn = objs[o].prevConn
       /\ objs'[o].Status # "Closed" => objs[o].Status # "Closed"
       /\ objs'[o].Status = "Closed" => ~Open(objs[o].k)
       /\ proc.pc # "idle" => objs'[o].tracable = objs[o].tracable

\* The connection events are left alone, or the first one is handled.
Handles ==
  \/ connEvents' = connEvents
  \/ proc.pc = "idle" /\ connEvents # << >> /\ connEvents' = Tail(connEvents)

Closes == \A c \in closing' : c.obj \in DOMAIN objs /\ ~Open(objs[c.obj].k)

ConnInfoKept == \A f \in Fds : connInfo'[f].k = connInfo[f].k

LEMMA HandlesNext ==
  ASSUME Shape, Handles
  PROVE  \E d \in {0, 1} :
           /\ DOMAIN connEvents' = {i \in Nat : i > 0 /\ i + d \in DOMAIN connEvents}
           /\ \A i \in DOMAIN connEvents' : connEvents'[i] = connEvents[i + d]
           /\ d = 0 => connEvents' = connEvents
           /\ d = 1 => proc.pc = "idle"
<1> DEFINE P(d) == /\ DOMAIN connEvents' = {i \in Nat : i > 0 /\ i + d \in DOMAIN connEvents}
                   /\ \A i \in DOMAIN connEvents' : connEvents'[i] = connEvents[i + d]
                   /\ d = 0 => connEvents' = connEvents
                   /\ d = 1 => proc.pc = "idle"
<1>1. /\ connEvents \in Seq(Event)
      /\ DOMAIN connEvents = 1..Len(connEvents) /\ Len(connEvents) \in Nat
  BY Types, Zenon DEF Shape
<1>2. CASE connEvents' = connEvents
  <2>1. DOMAIN connEvents' = {i \in Nat : i > 0 /\ i + 0 \in DOMAIN connEvents}
    BY <1>1, <1>2
  <2>2. \A i \in DOMAIN connEvents' : connEvents'[i] = connEvents[i + 0]
    BY <1>1, <1>2
  <2>3. P(0)
    <3>1. 0 # 1
      OBVIOUS
    <3> QED BY <1>2, <2>1, <2>2, <3>1, Zenon
  <2> QED BY <2>3, Zenon
<1>3. CASE proc.pc = "idle" /\ connEvents # << >> /\ connEvents' = Tail(connEvents)
  <2>1. Len(connEvents') = Len(connEvents) - 1 /\ DOMAIN connEvents' = 1..(Len(connEvents) - 1)
        /\ \A i \in 1..(Len(connEvents) - 1) : connEvents'[i] = connEvents[i + 1]
    BY <1>1, <1>3
  <2>2. DOMAIN connEvents' = {i \in Nat : i > 0 /\ i + 1 \in DOMAIN connEvents}
    BY <1>1, <2>1
  <2>3. P(1)
    BY <1>3, <2>1, <2>2
  <2> QED BY <2>3, Zenon
<1> QED BY <1>2, <1>3, Zenon DEF Handles

\* An object that keeps its connection and its earlier objects.
Stays(o) ==
  /\ objs'[o].k = objs[o].k /\ objs'[o].fd = objs[o].fd /\ objs'[o].addr = objs[o].addr
  /\ objs'[o].ConnectStartTs = objs[o].ConnectStartTs /\ objs'[o].prevConn = objs[o].prevConn

LEMMA ObjectsStay ==
  ASSUME IInv, UNCHANGED <<now, kern>>, DOMAIN objs' = DOMAIN objs, \A o \in DOMAIN objs : Stays(o)
  PROVE  ObjectsOfConnections'
<1> SUFFICES ASSUME NEW o \in DOMAIN objs
             PROVE  /\ objs'[o].k \in DOMAIN kern
                    /\ objs'[o].fd = kern[objs'[o].k].fd
                    /\ objs'[o].addr = kern[objs'[o].k].addr
                    /\ objs'[o].ConnectStartTs <= now
                    /\ \A i \in DOMAIN objs'[o].prevConn :
                         /\ objs'[o].prevConn[i] \in 1..(o - 1)
                         /\ objs'[objs'[o].prevConn[i]].prevConn = << >>
                         /\ objs'[objs'[o].prevConn[i]].fd = objs'[o].fd
                    /\ \A i, j \in DOMAIN objs'[o].prevConn :
                         i < j => objs'[o].prevConn[i] < objs'[o].prevConn[j]
  BY Zenon DEF ObjectsOfConnections
<1>1. \A i \in DOMAIN objs[o].prevConn :
         /\ objs[o].prevConn[i] \in 1..(o - 1)
         /\ objs[objs[o].prevConn[i]].prevConn = << >>
         /\ objs[objs[o].prevConn[i]].fd = objs[o].fd
  BY Zenon DEF IInv, ObjectsOfConnections
<1>2. \A i \in DOMAIN objs[o].prevConn : objs[o].prevConn[i] \in DOMAIN objs
  BY <1>1, Types DEF IInv
<1>3. \A i \in DOMAIN objs[o].prevConn :
         /\ objs'[objs[o].prevConn[i]].prevConn = << >>
         /\ objs'[objs[o].prevConn[i]].fd = objs[o].fd
  BY <1>1, <1>2, Zenon DEF Stays
<1> QED BY <1>1, <1>3 DEF IInv, ObjectsOfConnections, Stays

LEMMA ObjectStep ==
  ASSUME IInv, Shape', UNCHANGED <<now, kern, connMap, sockMap, proc, sweep, removed>>,
         ConnInfoKept, Handles, ObjectsKept, Closes
  PROVE  /\ KernelInOrder' /\ EventsInOrder' /\ ObjectsOfConnections' /\ EventsToCome'
         /\ References' /\ InHand' /\ Keys' /\ KeysHeld' /\ ClosedOnlyAfterClose'
<1>1. /\ DOMAIN kern = 1..Len(kern) /\ Len(kern) \in Nat
      /\ \A k \in DOMAIN kern : kern[k].fd \in Fds
      /\ DOMAIN connEvents = 1..Len(connEvents) /\ Len(connEvents) \in Nat
      /\ DOMAIN objs = 1..Len(objs) /\ Len(objs) \in Nat
      /\ DOMAIN objs' = 1..Len(objs') /\ Len(objs') \in Nat
  <2>1. \A k \in DOMAIN kern : kern[k] \in KernConn
    BY Types, Zenon DEF IInv
  <2>2. \A c \in KernConn : c.fd \in Fds
    BY Zenon DEF KernConn
  <2>3. objs' \in Seq(Connection4)
    BY Zenon DEF Shape
  <2> QED BY <2>1, <2>2, <2>3, Types DEF IInv
<1>2. Len(objs') = Len(objs) /\ DOMAIN objs' = DOMAIN objs
  BY <1>1 DEF ObjectsKept
<1>3. PICK d \in {0, 1} :
         /\ DOMAIN connEvents' = {i \in Nat : i > 0 /\ i + d \in DOMAIN connEvents}
         /\ \A i \in DOMAIN connEvents' : connEvents'[i] = connEvents[i + d]
         /\ d = 0 => connEvents' = connEvents
         /\ d = 1 => proc.pc = "idle"
  BY HandlesNext, Zenon DEF IInv
<1>4. \A i \in DOMAIN connEvents' : i \in Nat /\ i + d \in DOMAIN connEvents /\ connEvents'[i] = connEvents[i + d]
  BY <1>3, Zenon
<1>5. KernelInOrder'
  BY <1>1, OrderKept, Zenon DEF IInv, ConnInfoKept
<1>6. EventsInOrder'
  BY <1>4 DEF IInv, EventsInOrder, Open
<1>7. ObjectsOfConnections'
  BY ObjectsStay, Zenon DEF ObjectsKept, Stays
<1>8. EventsToCome'
  <2> SUFFICES ASSUME NEW o \in DOMAIN objs, NEW i \in DOMAIN connEvents',
                      proc.pc # "idle" /\ o = proc.obj => i > 1
               PROVE  /\ objs'[o].ConnectStartTs < connEvents'[i].ts
                      /\ objs'[o].fd = kern[connEvents'[i].k].fd => objs'[o].k <= connEvents'[i].k
                      /\ connEvents'[i].type = "connect" => objs'[o].k # connEvents'[i].k
    BY <1>2, Zenon DEF EventsToCome
  <2>1. proc.pc # "idle" /\ o = proc.obj => i + d > 1
    BY <1>3, <1>4
  <2>2. /\ objs[o].ConnectStartTs < connEvents[i + d].ts
        /\ objs[o].fd = kern[connEvents[i + d].k].fd => objs[o].k <= connEvents[i + d].k
        /\ connEvents[i + d].type = "connect" => objs[o].k # connEvents[i + d].k
    BY <1>4, <2>1, Zenon DEF IInv, EventsToCome
  <2>3. objs'[o].k = objs[o].k /\ objs'[o].fd = objs[o].fd /\ objs'[o].ConnectStartTs = objs[o].ConnectStartTs
    BY Zenon DEF ObjectsKept
  <2> QED BY <1>4, <2>2, <2>3, Zenon
<1>9. References'
  <2>1. \A c \in closing' : c.obj \in DOMAIN objs' /\ kern[objs'[c.obj].k].end # 0
    BY Zenon DEF Closes, ObjectsKept, Open
  <2>2. \A f \in Fds : connMap[f] # 0 => connMap[f] \in DOMAIN objs' /\ objs'[connMap[f]].fd = f
    BY Zenon DEF IInv, References, ObjectsKept
  <2>3. (\A a \in Addrs : sockMap[a] \in 0..Len(objs')) /\ sweep.obj \in 0..Len(objs')
    BY <1>2, Zenon DEF IInv, References
  <2> QED BY <2>1, <2>2, <2>3, Zenon DEF References, Open
<1>10. InHand'
  <2>1. CASE proc.pc = "idle"
    BY <2>1 DEF IInv, InHand, Idle
  <2>2. CASE proc.pc # "idle"
    <3>1. connEvents' = connEvents
      BY <1>3, <2>2, Zenon
    <3> QED BY <1>2, <2>2, <3>1, Zenon DEF IInv, InHand, ObjectsKept
  <2> QED BY <2>1, <2>2, Zenon
<1>11. \A o \in DOMAIN objs : HasKey(o) => HasKey(o)'
  <2>1. \A k : SoleUser(k)' = SoleUser(k)
    BY Zenon DEF SoleUser
  <2>2. \A o \in DOMAIN objs : objs[o].Status \in {"Connected", "Closed"} /\ objs'[o].Status \in {"Connected", "Closed"}
    <3>1. objs' \in Seq(Connection4) /\ objs \in Seq(Connection4)
      BY Zenon DEF Shape, IInv
    <3>2. \A c \in Connection4 : c.Status \in {"Connected", "Closed"}
      BY Zenon DEF Connection4
    <3> QED BY <1>2, <3>1, <3>2
  <2> QED BY <2>1, <2>2, Zenon DEF HasKey, ObjectsKept
<1>12. \A s, o \in DOMAIN objs : Holds(s, o)' = Holds(s, o)
  BY Zenon DEF Holds, ObjectsKept
<1>13. Keys' /\ KeysHeld'
  <2>1. proc.pc # "idle" => proc.obj \in DOMAIN objs
    BY Zenon DEF IInv, InHand
  <2>2. proc.existed # 0 => proc.existed \in DOMAIN objs /\ proc.obj \in DOMAIN objs
    BY DEF IInv, InHand, Idle
  <2>3. sweep.obj # 0 => sweep.obj \in DOMAIN objs
    BY <1>1 DEF IInv, References
  <2>4. \A f \in Fds : connMap[f] # 0 => connMap[f] \in DOMAIN objs
    BY Zenon DEF IInv, References
  <2>5. Lost' = Lost
    BY <2>2, Zenon DEF Lost, ObjectsKept
  <2>6. Keys'
    <3>1. \A f \in Fds, o \in DOMAIN objs : connMap[f] # 0 /\ Holds(connMap[f], o)' => HasKey(o)'
      BY <1>11, <1>12, <2>4, Zenon DEF IInv, Keys
    <3>2. proc.pc # "idle" => HasKey(proc.obj)'
      BY <1>11, <2>1, Zenon DEF IInv, Keys
    <3>3. sweep.obj # 0 => \A o \in DOMAIN objs : Holds(sweep.obj, o)' => objs'[o].k \in removed
      BY <1>12, <2>3, Zenon DEF IInv, Keys, ObjectsKept
    <3>4. Lost => \A o \in DOMAIN objs : Holds(proc.existed, o)' =>
               /\ objs'[o].k \in removed
               /\ sweep.obj # proc.existed => sockMap[objs'[o].addr] = 0
      BY <1>12, <2>2, Zenon DEF IInv, Keys, ObjectsKept, Lost
    <3> QED BY <1>2, <2>5, <3>1, <3>2, <3>3, <3>4, Zenon DEF Keys
  <2>7. KeysHeld'
    <3> SUFFICES ASSUME NEW a \in Addrs, sockMap[a] # 0
                 PROVE  \E s, o \in DOMAIN objs : InUse(s)' /\ Holds(s, o)' /\ objs'[o].addr = a
      BY <1>2, Zenon DEF KeysHeld
    <3>1. PICK s \in DOMAIN objs, o \in DOMAIN objs : InUse(s) /\ Holds(s, o) /\ objs[o].addr = a
      BY Zenon DEF IInv, KeysHeld
    <3> QED BY <1>12, <3>1, Zenon DEF InUse, ObjectsKept
  <2> QED BY <2>6, <2>7, Zenon
<1>14. ClosedOnlyAfterClose'
  BY <1>2, Zenon DEF ClosedOnlyAfterClose, Objects, ObjectsKept, Open
<1> QED BY <1>5, <1>6, <1>7, <1>8, <1>9, <1>10, <1>13, <1>14, Zenon

\* Writing a trace state to the kernel's maps changes nothing else in them.
LEMMA TraceWritten ==
  ASSUME Shape, NEW obj \in Connection4, NEW proto \in Protocols,
         UpdateConnectionTraceable(obj, proto)
  PROVE  /\ connInfo' \in [Fds -> [k : Nat, noTrace : Traces]]
         /\ sockIds' \in [Addrs -> {NoSockId} \cup [fd : Fds, noTrace : Traces]]
         /\ ConnInfoKept
         /\ \A f \in Fds : f # obj.fd => connInfo'[f] = connInfo[f]
         /\ obj.tracable = TraceState(proto) => connInfo' = connInfo
         /\ obj.tracable # TraceState(proto) /\ connInfo[obj.fd].k # 0
              => connInfo'[obj.fd].noTrace = TraceState(proto)
<1> DEFINE state == TraceState(proto)
<1>1. state \in Traces /\ obj.fd \in Fds /\ obj.addr \in Addrs
  BY Zenon DEF TraceState, Traces, Connection4
<1>2. /\ connInfo \in [Fds -> [k : Nat, noTrace : Traces]]
      /\ sockIds \in [Addrs -> {NoSockId} \cup [fd : Fds, noTrace : Traces]]
  BY Zenon DEF Shape
<1>3. CASE obj.tracable = state
  BY <1>2, <1>3, Zenon DEF UpdateConnectionTraceable, ConnInfoKept
<1>4. CASE obj.tracable # state
  <2>1. /\ sockIds' = IF sockIds[obj.addr] = NoSockId THEN sockIds
                      ELSE [sockIds EXCEPT ![obj.addr].noTrace = state]
        /\ connInfo' = IF connInfo[obj.fd].k = 0 THEN connInfo
                       ELSE [connInfo EXCEPT ![obj.fd].noTrace = state]
    BY <1>4, Zenon DEF UpdateConnectionTraceable
  <2> HIDE DEF state
  <2>2. sockIds' \in [Addrs -> {NoSockId} \cup [fd : Fds, noTrace : Traces]]
    <3>1. CASE sockIds[obj.addr] = NoSockId
      BY <1>2, <2>1, <3>1, Zenon
    <3>2. CASE sockIds[obj.addr] # NoSockId
      <4>1. sockIds[obj.addr] \in [fd : Fds, noTrace : Traces]
        BY <1>1, <1>2, <3>2, Zenon
      <4>2. [sockIds[obj.addr] EXCEPT !.noTrace = state] \in [fd : Fds, noTrace : Traces]
        BY <1>1, <4>1, Zenon
      <4> QED BY <1>2, <2>1, <3>2, <4>2, Zenon
    <3> QED BY <3>1, <3>2, Zenon
  <2>3. CASE connInfo[obj.fd].k = 0
    BY <1>2, <1>4, <2>1, <2>2, <2>3, Zenon DEF ConnInfoKept, state
  <2>4. CASE connInfo[obj.fd].k # 0
    <3> DEFINE i == [connInfo[obj.fd] EXCEPT !.noTrace = state]
    <3>1. i \in [k : Nat, noTrace : Traces] /\ i.k = connInfo[obj.fd].k /\ i.noTrace = state
      BY <1>1, <1>2, Zenon
    <3>2. connInfo' = [connInfo EXCEPT ![obj.fd] = i]
      BY <2>1, <2>4, Zenon
    <3> HIDE DEF i
    <3>3. connInfo' \in [Fds -> [k : Nat, noTrace : Traces]]
      BY <1>2, <3>1, <3>2, Zenon
    <3>4. connInfo'[obj.fd] = i /\ \A f \in Fds : f # obj.fd => connInfo'[f] = connInfo[f]
      BY <1>1, <1>2, <3>2, Zenon
    <3> QED BY <1>4, <2>2, <3>1, <3>3, <3>4, Zenon DEF ConnInfoKept, state
  <2> QED BY <2>3, <2>4, Zenon
<1> QED BY <1>3, <1>4, Zenon

\* The events of a descriptor come after its newest object was made: the lookup by
\* time finds that object.
LEMMA NewestFound ==
  ASSUME IInv, proc.pc = "idle", connEvents # << >>
  PROVE  \E ev \in Event, f \in Fds, o \in Nat :
           /\ ev = Head(connEvents) /\ ev = connEvents[1] /\ 1 \in DOMAIN connEvents
           /\ ev.k \in DOMAIN kern /\ f = kern[ev.k].fd
           /\ o = connMap[f] /\ LookupConnection4ByTimestamp(f, ev.ts) = o
           /\ o # 0 => o \in DOMAIN objs /\ objs[o].fd = f
<1>1. connEvents \in Seq(Event) /\ Len(connEvents) \in Nat /\ DOMAIN connEvents = 1..Len(connEvents)
  BY Types, Zenon DEF IInv, Shape
<1>2. 1 \in DOMAIN connEvents /\ Head(connEvents) = connEvents[1]
  BY <1>1
<1>3. PICK ev \in Event : ev = connEvents[1]
  BY <1>1, <1>2
<1>4. ev.k \in DOMAIN kern
  BY <1>2, <1>3, Zenon DEF IInv, EventsInOrder
<1>5. PICK f \in Fds : f = kern[ev.k].fd
  <2>1. kern[ev.k] \in KernConn
    BY <1>4, Types, Zenon DEF IInv
  <2> QED BY <2>1, Zenon DEF KernConn
<1>6. PICK o \in Nat : o = connMap[f]
  BY Zenon DEF IInv, Shape
<1>7. o # 0 => o \in DOMAIN objs /\ objs[o].fd = f
  BY <1>6, Zenon DEF IInv, References
<1>8. o # 0 => objs[o].ConnectStartTs < ev.ts
  BY <1>2, <1>3, <1>7, Zenon DEF IInv, EventsToCome
<1>9. LookupConnection4ByTimestamp(f, ev.ts) = o
  BY <1>6, <1>8, Zenon DEF LookupConnection4ByTimestamp
<1> QED BY <1>2, <1>3, <1>4, <1>5, <1>6, <1>7, <1>9, Zenon

LEMMA InferredKeeps ==
  ASSUME NEW c \in Connection4, NEW p \in Protocols
  PROVE  LET d == Inferred(c, p) IN
         /\ d \in Connection4
         /\ d.k = c.k /\ d.fd = c.fd /\ d.addr = c.addr /\ d.ConnectStartTs = c.ConnectStartTs
         /\ d.prevConn = c.prevConn /\ d.Status = c.Status /\ d.tracable = TraceState(p)
<1>1. TraceState(p) \in Traces
  BY Zenon DEF TraceState, Traces
<1>2. (IF p \in Wanted THEN << >> ELSE c.temp) \in Seq(Data)
  BY DEF Connection4
<1> QED BY <1>1, <1>2, Zenon DEF Connection4, Inferred

\* One object changes.
LEMMA ObjectChanged ==
  ASSUME objs \in Seq(Connection4), NEW o \in DOMAIN objs, NEW c \in Connection4,
         objs' = [objs EXCEPT ![o] = c]
  PROVE  /\ objs' \in Seq(Connection4) /\ Len(objs') = Len(objs) /\ DOMAIN objs' = DOMAIN objs
         /\ \A i \in DOMAIN objs : objs'[i] = IF i = o THEN c ELSE objs[i]
  OBVIOUS

\* A trace state is written to the newest object of a descriptor, and to the
\* descriptor's entry unless the object had it before.
Writes(f, o, state) ==
  /\ o = connMap[f] /\ o # 0 /\ connMap' = connMap
  /\ \A i \in DOMAIN objs : /\ objs'[i].k = objs[i].k
                           /\ objs'[i].tracable = IF i = o THEN state ELSE objs[i].tracable
  /\ ConnInfoKept
  /\ \A g \in Fds : g # f => connInfo'[g] = connInfo[g]
  /\ objs[o].tracable = state => connInfo' = connInfo
  /\ objs[o].tracable # state /\ connInfo[f].k # 0 => connInfo'[f].noTrace = state

LEMMA InferredTrace ==
  ASSUME IInv, NEW f \in Fds, NEW o \in Nat, NEW state, Writes(f, o, state)
  PROVE  TraceStateReachesKernel'
<1> SUFFICES ASSUME NEW g \in Fds, connMap[g] # 0, connInfo'[g].k # 0,
                    objs'[connMap[g]].tracable = "traceable",
                    objs'[connMap[g]].k = connInfo'[g].k
             PROVE  connInfo'[g].noTrace = "traceable"
  BY Zenon DEF Writes, TraceStateReachesKernel
<1>1. connMap[g] \in DOMAIN objs /\ objs[connMap[g]].fd = g /\ objs[o].fd = f
  BY Zenon DEF IInv, References, Writes
<1>2. connInfo'[g].k = connInfo[g].k /\ objs[connMap[g]].k = connInfo[g].k
  BY <1>1, Zenon DEF ConnInfoKept, Writes
<1>3. objs[connMap[g]].tracable = "traceable" => connInfo[g].noTrace = "traceable"
  BY <1>2, Zenon DEF IInv, TraceStateReachesKernel
<1>4. CASE g = f
  <2>1. connMap[g] = o /\ state = "traceable"
    BY <1>1, <1>4, Zenon DEF Writes
  <2> QED BY <1>2, <1>3, <1>4, <2>1, Zenon DEF Writes
<1>5. CASE g # f
  <2>1. connMap[g] # o /\ connInfo'[g] = connInfo[g]
    BY <1>1, <1>5, Zenon DEF Writes
  <2> QED BY <1>1, <1>3, <2>1, Zenon DEF Writes
<1> QED BY <1>4, <1>5, Zenon

LEMMA ProtocolInferIInv == ASSUME IInv, ProtocolInfer PROVE IInv'
<1>1. proc.pc = "idle" /\ connEvents # << >>
  BY Zenon DEF ProtocolInfer
<1>2. PICK ev \in Event, f \in Fds, o \in Nat :
        /\ ev = Head(connEvents) /\ f = kern[ev.k].fd
        /\ o = connMap[f] /\ LookupConnection4ByTimestamp(f, ev.ts) = o
        /\ o # 0 => o \in DOMAIN objs /\ objs[o].fd = f
  BY <1>1, NewestFound, Zenon
<1>3. /\ o # 0
      /\ IF objs[o].Status # "Closed"
         THEN Infer(objs, o, ev.proto)
         ELSE UNCHANGED <<objs, applied, connInfo, sockIds, dropped>>
      /\ connEvents' = Tail(connEvents)
      /\ UNCHANGED <<now, kern, dataEvents, connMap, sockMap, proc, closing, sweep, removed>>
  BY <1>2, Zenon DEF ProtocolInfer
<1>4. UNCHANGED <<now, kern, dataEvents, connMap, sockMap, proc, closing, sweep, removed>>
  BY <1>3
<1>5. /\ Shape /\ objs \in Seq(Connection4) /\ o \in DOMAIN objs /\ objs[o] \in Connection4
      /\ connEvents \in Seq(Event)
  <2>1. Shape /\ objs \in Seq(Connection4) /\ connEvents \in Seq(Event)
    BY Zenon DEF IInv, Shape
  <2>2. o \in DOMAIN objs
    BY <1>2, <1>3, Zenon
  <2> QED BY <2>1, <2>2
<1>6. Closes
  BY <1>4, Zenon DEF Closes, IInv, References
<1>7. Handles /\ connEvents' \in Seq(Event)
  BY <1>1, <1>3, <1>5 DEF Handles
<1>8. CASE objs[o].Status = "Closed"
  <2>1. UNCHANGED <<objs, connInfo, sockIds>>
    BY <1>3, <1>8, Zenon
  <2>2. Shape'
    BY <1>4, <1>5, <1>7, <2>1, Zenon DEF Shape
  <2>3. ObjectsKept /\ ConnInfoKept
    BY <2>1, Zenon DEF ObjectsKept, ConnInfoKept, IInv, ClosedOnlyAfterClose, Objects, Open
  <2>4. TraceStateReachesKernel'
    BY <1>4, <2>1, Zenon DEF IInv, TraceStateReachesKernel
  <2> QED BY <1>4, <1>6, <1>7, <2>2, <2>3, <2>4, ObjectStep, Zenon DEF IInv
<1>9. CASE objs[o].Status # "Closed"
  <2>0. PICK proto \in Protocols : proto = ev.proto
    BY Zenon DEF Event
  <2>1. PICK c \in Connection4 : c = Inferred(objs[o], proto)
    BY <1>5, InferredKeeps, Zenon
  <2>2. /\ c.k = objs[o].k /\ c.fd = objs[o].fd /\ c.addr = objs[o].addr
        /\ c.ConnectStartTs = objs[o].ConnectStartTs /\ c.prevConn = objs[o].prevConn
        /\ c.Status = objs[o].Status /\ c.tracable = TraceState(proto)
    BY <1>5, <2>1, InferredKeeps, Zenon
  <2>3. objs' = [objs EXCEPT ![o] = c] /\ UpdateConnectionTraceable(objs[o], proto)
    BY <1>3, <1>9, <2>0, <2>1, Zenon DEF Infer
  <2>4. /\ objs' \in Seq(Connection4) /\ Len(objs') = Len(objs) /\ DOMAIN objs' = DOMAIN objs
        /\ \A i \in DOMAIN objs : objs'[i] = IF i = o THEN c ELSE objs[i]
    BY <1>5, <2>3, ObjectChanged, Zenon
  <2>5. ObjectsKept
    <3>1. \A i \in DOMAIN objs : objs[i].Status = "Closed" => ~Open(objs[i].k)
      BY Zenon DEF IInv, ClosedOnlyAfterClose, Objects, Open
    <3> QED BY <1>1, <1>9, <2>2, <2>4, <3>1, Zenon DEF ObjectsKept
  <2>6. /\ connInfo' \in [Fds -> [k : Nat, noTrace : Traces]]
        /\ sockIds' \in [Addrs -> {NoSockId} \cup [fd : Fds, noTrace : Traces]]
        /\ ConnInfoKept
        /\ \A g \in Fds : g # f => connInfo'[g] = connInfo[g]
        /\ objs[o].tracable = TraceState(proto) => connInfo' = connInfo
        /\ objs[o].tracable # TraceState(proto) /\ connInfo[f].k # 0
             => connInfo'[f].noTrace = TraceState(proto)
    <3> PICK obj \in Connection4 : obj = objs[o]
      BY <1>5, Zenon
    <3>1. UpdateConnectionTraceable(obj, proto) /\ obj.fd = f
      BY <1>2, <1>3, <2>3, Zenon
    <3> QED BY <1>5, <3>1, TraceWritten, Zenon
  <2>7. Shape'
    BY <1>4, <1>5, <1>7, <2>4, <2>6, Zenon DEF Shape
  <2>8. TraceStateReachesKernel'
    <3>1. \A i \in DOMAIN objs : /\ objs'[i].k = objs[i].k
                                 /\ objs'[i].tracable = IF i = o THEN TraceState(proto)
                                                        ELSE objs[i].tracable
      BY <2>2, <2>4, Zenon
    <3>2. o = connMap[f] /\ o # 0 /\ connMap' = connMap
      BY <1>2, <1>3, <1>4, Zenon
    <3>3. Writes(f, o, TraceState(proto))
      BY <2>6, <3>1, <3>2, Zenon DEF Writes
    <3> QED BY <3>3, InferredTrace, Zenon
  <2> QED BY <1>4, <1>6, <1>7, <2>5, <2>6, <2>7, <2>8, ObjectStep, Zenon DEF IInv
<1> QED BY <1>8, <1>9, Zenon

\* A change of one object that is not about its trace state.
LEMMA TraceKept ==
  ASSUME IInv, connMap' = connMap, connInfo' = connInfo,
         \A o \in DOMAIN objs : objs'[o].tracable = objs[o].tracable /\ objs'[o].k = objs[o].k
  PROVE  TraceStateReachesKernel'
  BY Zenon DEF IInv, References, TraceStateReachesKernel

LEMMA CloseEventIInv == ASSUME IInv, CloseEvent PROVE IInv'
<1>1. proc.pc = "idle" /\ connEvents # << >>
  BY Zenon DEF CloseEvent
<1>2. PICK ev \in Event, f \in Fds, o \in Nat :
        /\ ev = Head(connEvents) /\ ev = connEvents[1] /\ 1 \in DOMAIN connEvents
        /\ ev.k \in DOMAIN kern /\ f = kern[ev.k].fd /\ o = connMap[f]
        /\ o # 0 => o \in DOMAIN objs /\ objs[o].fd = f
  BY <1>1, NewestFound, Zenon
<1>3. /\ IF o = 0
         THEN UNCHANGED <<objs, closing>>
         ELSE /\ objs' = [objs EXCEPT ![o].CloseTs = ev.ts]
              /\ closing' = closing \cup {[obj |-> o, due |-> now + CloseWait]}
      /\ connEvents' = Tail(connEvents)
      /\ UNCHANGED <<now, kern, connInfo, sockIds, dataEvents, connMap, sockMap, proc, sweep, removed>>
  BY <1>2, Zenon DEF CloseEvent, env, history
<1>4. Shape /\ objs \in Seq(Connection4) /\ connEvents \in Seq(Event)
  BY DEF IInv, Shape
<1>5. Handles /\ connEvents' \in Seq(Event) /\ ConnInfoKept
  BY <1>1, <1>3, <1>4 DEF Handles, ConnInfoKept
<1>6. o # 0 => ~Open(objs[o].k)
  <2>1. o # 0 => objs[o].k \in DOMAIN kern /\ kern[objs[o].k].fd = f
    BY <1>2, Zenon DEF IInv, ObjectsOfConnections
  <2>0. o # 0 => objs[o].k <= ev.k
    BY <1>1, <1>2, Zenon DEF IInv, EventsToCome
  <2>2. ~Open(ev.k)
    <3>1. ev.type = "close"
      BY <1>2, Zenon DEF CloseEvent
    <3> QED BY <1>2, <3>1, Zenon DEF IInv, EventsInOrder
  <2>3. DOMAIN kern = 1..Len(kern) /\ Len(kern) \in Nat
    BY <1>4, Types, Zenon
  <2>4. o # 0 /\ objs[o].k < ev.k => ~Open(objs[o].k)
    BY <1>2, <2>1, Zenon DEF IInv, KernelInOrder
  <2>5. ev.k \in DOMAIN kern
    BY <1>2, Zenon
  <2>6. o # 0 => objs[o].k < ev.k \/ objs[o].k = ev.k
    BY <2>0, <2>1, <2>3, <2>5
  <2> QED BY <2>2, <2>4, <2>6, Zenon
<1>7. Closes
  BY <1>2, <1>3, <1>6 DEF Closes, IInv, References
<1>8. /\ objs' \in Seq(Connection4) /\ ObjectsKept
      /\ \A i \in DOMAIN objs : objs'[i].tracable = objs[i].tracable /\ objs'[i].k = objs[i].k
  <2>1. CASE o = 0
    BY <1>3, <1>4, <2>1, Zenon DEF ObjectsKept, IInv, ClosedOnlyAfterClose, Objects, Open
  <2>2. CASE o # 0
    <3> DEFINE c == [objs[o] EXCEPT !.CloseTs = ev.ts]
    <3>1. objs[o] \in Connection4
      BY <1>2, <1>4, <2>2
    <3>2. /\ c \in Connection4 /\ c.k = objs[o].k /\ c.fd = objs[o].fd /\ c.addr = objs[o].addr
          /\ c.ConnectStartTs = objs[o].ConnectStartTs /\ c.prevConn = objs[o].prevConn
          /\ c.Status = objs[o].Status /\ c.tracable = objs[o].tracable
      <4>1. ev.ts \in Nat
        BY Zenon DEF Event
      <4> QED BY <3>1, <4>1, Zenon DEF Connection4
    <3>3. objs' = [objs EXCEPT ![o] = c]
      BY <1>3, <2>2, Zenon
    <3> HIDE DEF c
    <3>4. /\ objs' \in Seq(Connection4) /\ Len(objs') = Len(objs) /\ DOMAIN objs' = DOMAIN objs
          /\ \A i \in DOMAIN objs : objs'[i] = IF i = o THEN c ELSE objs[i]
      BY <1>2, <1>4, <2>2, <3>2, <3>3, ObjectChanged, Zenon
    <3>5. \A i \in DOMAIN objs : objs[i].Status = "Closed" => ~Open(objs[i].k)
      BY Zenon DEF IInv, ClosedOnlyAfterClose, Objects, Open
    <3> QED BY <3>2, <3>4, <3>5, Zenon DEF ObjectsKept
  <2> QED BY <2>1, <2>2, Zenon
<1>9. Shape'
  BY <1>3, <1>4, <1>5, <1>8, Zenon DEF Shape
<1>10. TraceStateReachesKernel'
  BY <1>3, <1>8, TraceKept, Zenon
<1> QED BY <1>3, <1>5, <1>7, <1>8, <1>9, <1>10, ObjectStep, Zenon DEF IInv

LEMMA ProcessDataIInv ==
  ASSUME IInv, NEW kind \in Kinds, ProcessDataEvent(kind)
  PROVE  IInv'
<1> DEFINE e == Head(dataEvents[kind])
           o == LookupConnection4ByTimestamp(e.fd, e.ts)
<1>1. Shape /\ objs \in Seq(Connection4) /\ dataEvents \in [Kinds -> Seq(Data)]
  BY Zenon DEF IInv, Shape
<1>2. /\ dataEvents[kind] # << >>
      /\ objs' = objs \/ objs' = [objs EXCEPT ![o].temp = Append(@, e)]
      /\ dataEvents' = [dataEvents EXCEPT ![kind] = Tail(@)]
      /\ UNCHANGED <<now, kern, connInfo, sockIds, connEvents, connMap, sockMap, proc, closing,
                     sweep, removed>>
  BY Zenon DEF ProcessDataEvent, Dequeued, env
<1>3. e \in Data
  BY <1>1, <1>2
<1> HIDE DEF e, o
<1>4. /\ objs' \in Seq(Connection4) /\ ObjectsKept
      /\ \A i \in DOMAIN objs : objs'[i].tracable = objs[i].tracable /\ objs'[i].k = objs[i].k
  <2>1. CASE objs' = objs
    BY <1>1, <2>1, Zenon DEF ObjectsKept, IInv, ClosedOnlyAfterClose, Objects, Open
  <2>2. CASE o \notin DOMAIN objs /\ objs' # objs
    <3>1. objs' = objs
      BY <1>1, <1>2, <2>2
    <3> QED BY <2>2, <3>1, Zenon
  <2>3. CASE o \in DOMAIN objs /\ objs' # objs
    <3> DEFINE c == [objs[o] EXCEPT !.temp = Append(@, e)]
    <3>1. objs[o] \in Connection4
      BY <1>1, <2>3
    <3>2. /\ c \in Connection4 /\ c.k = objs[o].k /\ c.fd = objs[o].fd /\ c.addr = objs[o].addr
          /\ c.ConnectStartTs = objs[o].ConnectStartTs /\ c.prevConn = objs[o].prevConn
          /\ c.Status = objs[o].Status /\ c.tracable = objs[o].tracable
      <4>1. objs[o].temp \in Seq(Data)
        BY <3>1, Zenon DEF Connection4
      <4>2. Append(objs[o].temp, e) \in Seq(Data)
        BY <1>3, <4>1
      <4> QED BY <3>1, <4>2, Zenon DEF Connection4
    <3>3. objs' = [objs EXCEPT ![o] = c]
      BY <1>2, <2>3, Zenon
    <3> HIDE DEF c
    <3>4. /\ objs' \in Seq(Connection4) /\ Len(objs') = Len(objs) /\ DOMAIN objs' = DOMAIN objs
          /\ \A i \in DOMAIN objs : objs'[i] = IF i = o THEN c ELSE objs[i]
      BY <1>1, <2>3, <3>2, <3>3, ObjectChanged, Zenon
    <3>5. \A i \in DOMAIN objs : objs[i].Status = "Closed" => ~Open(objs[i].k)
      BY Zenon DEF IInv, ClosedOnlyAfterClose, Objects, Open
    <3> QED BY <3>2, <3>4, <3>5, Zenon DEF ObjectsKept
  <2> QED BY <2>1, <2>2, <2>3, Zenon
<1>5. dataEvents' \in [Kinds -> Seq(Data)]
  <2>1. Tail(dataEvents[kind]) \in Seq(Data)
    BY <1>1, <1>2
  <2> QED BY <1>1, <1>2, <2>1, Zenon
<1>6. Shape'
  BY <1>1, <1>2, <1>4, <1>5, Zenon DEF Shape
<1>7. Closes /\ Handles /\ ConnInfoKept
  BY <1>2, Zenon DEF Closes, Handles, ConnInfoKept, IInv, References
<1>8. TraceStateReachesKernel'
  BY <1>2, <1>4, TraceKept, Zenon
<1> QED BY <1>2, <1>4, <1>6, <1>7, <1>8, ObjectStep, Zenon DEF IInv

LEMMA OnCloseIInv ==
  ASSUME IInv, NEW x \in closing, OnClose(x)
  PROVE  IInv'
<1> DEFINE o == x.obj
<1>1. Shape /\ objs \in Seq(Connection4) /\ o \in DOMAIN objs /\ ~Open(objs[o].k) /\ objs[o] \in Connection4
  BY DEF IInv, Shape, References
<1>2. /\ objs' = [objs EXCEPT ![o].Status = "Closed"]
      /\ sockIds' = [sockIds EXCEPT ![objs[o].addr] = NoSockId]
      /\ closing' = closing \ {x}
      /\ UNCHANGED <<now, kern, connInfo, connEvents, dataEvents, connMap, sockMap, proc, sweep, removed>>
  BY Zenon DEF OnClose, history
<1> HIDE DEF o
<1> DEFINE c == [objs[o] EXCEPT !.Status = "Closed"]
<1>3. /\ c \in Connection4 /\ c.k = objs[o].k /\ c.fd = objs[o].fd /\ c.addr = objs[o].addr
      /\ c.ConnectStartTs = objs[o].ConnectStartTs /\ c.prevConn = objs[o].prevConn
      /\ c.Status = "Closed" /\ c.tracable = objs[o].tracable
  BY <1>1, Zenon DEF Connection4
<1>4. objs' = [objs EXCEPT ![o] = c]
  BY <1>2, Zenon
<1> HIDE DEF c
<1>5. /\ objs' \in Seq(Connection4) /\ Len(objs') = Len(objs) /\ DOMAIN objs' = DOMAIN objs
      /\ \A i \in DOMAIN objs : objs'[i] = IF i = o THEN c ELSE objs[i]
  BY <1>1, <1>3, <1>4, ObjectChanged, Zenon
<1>6. ObjectsKept
  BY <1>1, <1>3, <1>5, Zenon DEF ObjectsKept, IInv, ClosedOnlyAfterClose, Objects, Open
<1>7. sockIds' \in [Addrs -> {NoSockId} \cup [fd : Fds, noTrace : Traces]]
  BY <1>1, <1>2, Zenon DEF Shape
<1>8. Shape'
  BY <1>1, <1>2, <1>5, <1>7, Zenon DEF Shape
<1>9. Closes /\ Handles /\ ConnInfoKept
  BY <1>2, Zenon DEF Closes, Handles, ConnInfoKept, IInv, References
<1>10. TraceStateReachesKernel'
  BY <1>2, <1>3, <1>5, TraceKept, Zenon
<1> QED BY <1>2, <1>6, <1>8, <1>9, <1>10, ObjectStep, Zenon DEF IInv
=============================================================================
