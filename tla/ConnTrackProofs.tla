--------------------------- MODULE ConnTrackProofs ---------------------------
(***************************************************************************)
(* Proofs about ConnTrack: AddConnection4 keeps the invariant of           *)
(* ConnTrackInvariant, so that every step does, and what follows from it.  *)
(***************************************************************************)
EXTENDS ConnTrackTables, WellFoundedInduction

-----------------------------------------------------------------------------
(* AddConnection4.                                                         *)

\* AddConnection4 has the object n of descriptor f in hand and has found ex.
Has(n, ex, f) ==
  /\ n = proc.obj /\ ex = proc.existed /\ f = objs[n].fd
  /\ n \in DOMAIN objs /\ n = Len(objs) /\ n # 0 /\ n # ex
  /\ objs[n].prevConn = << >> /\ objs[n].tracable = "unset" /\ HasKey(n)
  /\ connMap[f] \in {0, ex} /\ (\A g \in Fds : connMap[g] # n) /\ sweep.obj # n
  /\ ex # 0 => ex \in DOMAIN objs /\ ex < n /\ objs[ex].fd = f

LEMMA Given ==
  ASSUME IInv, proc.pc = "add"
  PROVE  \E ev \in Event, n \in Nat, ex \in Nat, f \in Fds :
           /\ ev = Head(connEvents) /\ ev.type \in {"connect", "infer"}
           /\ ev.type = "infer" => ex = 0
           /\ Has(n, ex, f)
<1>1. /\ connEvents \in Seq(Event) /\ DOMAIN objs = 1..Len(objs) /\ Len(objs) \in Nat
      /\ \A o \in DOMAIN objs : objs[o] \in Connection4
  BY Types, Zenon DEF IInv, Shape
<1>2. PICK n \in Nat, ex \in Nat : n = proc.obj /\ ex = proc.existed
  BY Zenon DEF IInv, Shape
<1>3. /\ connEvents # << >> /\ n \in DOMAIN objs /\ n = Len(objs)
      /\ objs[n].prevConn = << >> /\ objs[n].tracable = "unset"
      /\ connEvents[1].type \in {"connect", "infer"} /\ (connEvents[1].type = "infer" => ex = 0)
      /\ (\A g \in Fds : connMap[g] # n) /\ sweep.obj # n
      /\ ex # 0 => ex \in DOMAIN objs /\ ex # n /\ objs[ex].fd = objs[n].fd
      /\ connMap[objs[n].fd] \in {0, ex}
  BY <1>2, Zenon DEF IInv, InHand
<1>4. PICK ev \in Event : ev = Head(connEvents) /\ ev = connEvents[1]
  <2>1. connEvents \in Seq(Event) /\ connEvents # << >>
    BY <1>1, <1>3, Zenon
  <2> QED BY <2>1
<1>5. PICK f \in Fds : f = objs[n].fd
  BY <1>1, <1>3, Zenon DEF Connection4
<1>6. n # 0 /\ n # ex /\ (ex # 0 => ex < n)
  <2>1. /\ n \in DOMAIN objs /\ n = Len(objs) /\ DOMAIN objs = 1..Len(objs)
        /\ ex # 0 => ex \in DOMAIN objs /\ ex # n
    BY <1>1, <1>3, Zenon
  <2> QED BY <2>1
<1>7. HasKey(n)
  BY <1>2, Zenon DEF IInv, Keys
<1>8. Has(n, ex, f)
  BY <1>2, <1>3, <1>5, <1>6, <1>7, Zenon DEF Has
<1> QED BY <1>3, <1>4, <1>8, Zenon

\* Whether or not an object is replaced, the event that AddConnection4 was called
\* for is handled, the objects keep their connections, and only the descriptor f
\* may get another object, which is n.
Settles(n, f) ==
  /\ proc.pc = "add" /\ proc' = Idle /\ connEvents' = Tail(connEvents)
  /\ UNCHANGED <<now, kern, dataEvents, closing, sweep>>
  /\ objs' \in Seq(Connection4) /\ Len(objs') = Len(objs) /\ DOMAIN objs' = DOMAIN objs
  /\ \A o \in DOMAIN objs :
       /\ objs'[o].k = objs[o].k /\ objs'[o].fd = objs[o].fd /\ objs'[o].addr = objs[o].addr
       /\ objs'[o].ConnectStartTs = objs[o].ConnectStartTs /\ objs'[o].Status = objs[o].Status
  /\ connInfo' \in [Fds -> [k : Nat, noTrace : Traces]]
  /\ sockIds' \in [Addrs -> {NoSockId} \cup [fd : Fds, noTrace : Traces]]
  /\ ConnInfoKept
  /\ connMap' \in [Fds -> Nat]
  /\ \A g \in Fds : connMap'[g] # connMap[g] => g = f /\ connMap'[g] = n
  /\ sockMap' \in [Addrs -> Nat] /\ \A a \in Addrs : sockMap'[a] \in {0, sockMap[a]}

LEMMA SettledEvents ==
  ASSUME IInv, NEW n \in Nat, NEW f \in Fds, Settles(n, f)
  PROVE  EventsInOrder' /\ EventsToCome' /\ InHand' /\ Shape'
<1>1. connEvents \in Seq(Event) /\ connEvents # << >> /\ connEvents' = Tail(connEvents)
  BY Zenon DEF IInv, Shape, InHand, Settles
<1>2. /\ connEvents' \in Seq(Event)
      /\ \A i \in DOMAIN connEvents' :
           i \in Nat /\ i > 0 /\ i + 1 \in DOMAIN connEvents /\ connEvents'[i] = connEvents[i + 1]
  BY <1>1
<1>3. kern' = kern /\ now' = now /\ proc' = Idle /\ DOMAIN objs' = DOMAIN objs
  BY Zenon DEF Settles
<1>4. EventsInOrder'
  BY <1>2, <1>3 DEF IInv, EventsInOrder, Open
<1>5. EventsToCome'
  <2> SUFFICES ASSUME NEW o \in DOMAIN objs, NEW i \in DOMAIN connEvents'
               PROVE  /\ objs'[o].ConnectStartTs < connEvents'[i].ts
                      /\ objs'[o].fd = kern[connEvents'[i].k].fd => objs'[o].k <= connEvents'[i].k
                      /\ connEvents'[i].type = "connect" => objs'[o].k # connEvents'[i].k
    BY <1>3, Zenon DEF EventsToCome
  <2>1. i + 1 > 1 /\ i + 1 \in DOMAIN connEvents /\ connEvents'[i] = connEvents[i + 1]
    BY <1>2
  <2>2. /\ objs[o].ConnectStartTs < connEvents[i + 1].ts
        /\ objs[o].fd = kern[connEvents[i + 1].k].fd => objs[o].k <= connEvents[i + 1].k
        /\ connEvents[i + 1].type = "connect" => objs[o].k # connEvents[i + 1].k
    BY <2>1, Zenon DEF IInv, EventsToCome
  <2> QED BY <2>1, <2>2, Zenon DEF Settles
<1>6. InHand'
  BY <1>3, Zenon DEF InHand, Idle
<1>7. Shape'
  <2>1. Idle \in [pc : {"idle", "find", "add"}, obj : Nat, existed : Nat]
    BY Zenon DEF Idle
  <2> QED BY <1>2, <2>1, Zenon DEF IInv, Shape, Settles
<1> QED BY <1>4, <1>5, <1>6, <1>7, Zenon

LEMMA SettledObjects ==
  ASSUME IInv, NEW n \in Nat, NEW ex \in Nat, NEW f \in Fds, Has(n, ex, f), Settles(n, f)
  PROVE  KernelInOrder' /\ References' /\ ClosedOnlyAfterClose'
<1>1. KernelInOrder'
  <2>1. \A k \in DOMAIN kern : kern[k].fd \in Fds
    BY Types, Zenon DEF IInv, KernConn
  <2>2. KernelInOrder /\ kern' = kern /\ \A g \in Fds : connInfo'[g].k = connInfo[g].k
    BY Zenon DEF IInv, Settles, ConnInfoKept
  <2> QED BY <2>1, <2>2, OrderKept, Zenon
<1>2. References'
  <2>1. \A g \in Fds : connMap'[g] # 0 => connMap'[g] \in DOMAIN objs /\ objs[connMap'[g]].fd = g
    <3> SUFFICES ASSUME NEW g \in Fds, connMap'[g] # 0
                 PROVE  connMap'[g] \in DOMAIN objs /\ objs[connMap'[g]].fd = g
      BY Zenon
    <3>1. CASE connMap'[g] = connMap[g]
      BY <3>1, Zenon DEF IInv, References
    <3>2. CASE connMap'[g] # connMap[g]
      <4>1. g = f /\ connMap'[g] = n
        BY <3>2, Zenon DEF Settles
      <4> QED BY <4>1, Zenon DEF Has
    <3> QED BY <3>1, <3>2, Zenon
  <2>2. \A g \in Fds : connMap'[g] # 0 => connMap'[g] \in DOMAIN objs' /\ objs'[connMap'[g]].fd = g
    BY <2>1, Zenon DEF Settles
  <2>3. \A c \in closing' : c.obj \in DOMAIN objs' /\ kern'[objs'[c.obj].k].end # 0
    BY Zenon DEF IInv, References, Open, Settles
  <2>4. 0 \in 0..Len(objs)
    BY Types DEF IInv
  <2>5. (\A a \in Addrs : sockMap'[a] \in 0..Len(objs')) /\ sweep'.obj \in 0..Len(objs')
    BY <2>4, Zenon DEF IInv, References, Settles
  <2> QED BY <2>2, <2>3, <2>5, Zenon DEF References, Open
<1>3. ClosedOnlyAfterClose'
  BY Zenon DEF IInv, ClosedOnlyAfterClose, Objects, Settles
<1> QED BY <1>1, <1>2, <1>3, Zenon

\* The new object enters the table, or gives way to one with the same key.
Added(n, ex, f) ==
  /\ UNCHANGED <<sockMap, removed>> /\ (ex # 0 => objs[ex].addr = objs[n].addr)
  /\ \A g \in Fds : g # f \/ ex # 0 => connMap'[g] = connMap[g]
  /\ ex = 0 => connMap'[f] = n
  /\ \A o \in DOMAIN objs : /\ objs'[o].prevConn = objs[o].prevConn
                            /\ o # n => objs'[o].tracable = objs[o].tracable
  /\ \A g \in Fds : g # f \/ ex # 0 => connInfo'[g] = connInfo[g]
  /\ objs'[n].tracable = "traceable" => ex = 0 /\ (connInfo[f].k # 0 => connInfo'[f].noTrace = "traceable")

\* What the event says of the protocol goes to the new object and to the kernel.
LEMMA NewInferred ==
  ASSUME IInv, NEW n \in Nat, NEW f \in Fds, Has(n, 0, f), NEW proto \in Protocols,
         Infer(objs, n, proto)
  PROVE  /\ objs' \in Seq(Connection4) /\ Len(objs') = Len(objs) /\ DOMAIN objs' = DOMAIN objs
         /\ \A o \in DOMAIN objs :
              /\ objs'[o].k = objs[o].k /\ objs'[o].fd = objs[o].fd /\ objs'[o].addr = objs[o].addr
              /\ objs'[o].ConnectStartTs = objs[o].ConnectStartTs /\ objs'[o].Status = objs[o].Status
              /\ objs'[o].prevConn = objs[o].prevConn
              /\ o # n => objs'[o].tracable = objs[o].tracable
         /\ connInfo' \in [Fds -> [k : Nat, noTrace : Traces]]
         /\ sockIds' \in [Addrs -> {NoSockId} \cup [fd : Fds, noTrace : Traces]]
         /\ ConnInfoKept
         /\ \A g \in Fds : g # f => connInfo'[g] = connInfo[g]
         /\ objs'[n].tracable = "traceable" /\ connInfo[f].k # 0 => connInfo'[f].noTrace = "traceable"
<1>1. /\ Shape /\ objs \in Seq(Connection4) /\ n \in DOMAIN objs /\ f = objs[n].fd
      /\ objs[n].tracable = "unset"
  BY Zenon DEF IInv, Shape, Has
<1>2. PICK obj \in Connection4 : obj = objs[n]
  BY <1>1
<1>3. PICK c \in Connection4 : c = Inferred(obj, proto)
  BY InferredKeeps, Zenon
<1>4. /\ c.k = obj.k /\ c.fd = obj.fd /\ c.addr = obj.addr /\ c.ConnectStartTs = obj.ConnectStartTs
      /\ c.prevConn = obj.prevConn /\ c.Status = obj.Status /\ c.tracable = TraceState(proto)
  BY <1>3, InferredKeeps, Zenon
<1>5. objs' = [objs EXCEPT ![n] = c] /\ UpdateConnectionTraceable(obj, proto)
  BY <1>2, <1>3, Zenon DEF Infer
<1>6. /\ objs' \in Seq(Connection4) /\ Len(objs') = Len(objs) /\ DOMAIN objs' = DOMAIN objs
      /\ \A o \in DOMAIN objs : objs'[o] = IF o = n THEN c ELSE objs[o]
  BY <1>1, <1>5, ObjectChanged, Zenon
<1>7. obj.tracable # TraceState(proto)
  BY <1>1, <1>2, Zenon DEF TraceState
<1>8. /\ connInfo' \in [Fds -> [k : Nat, noTrace : Traces]]
      /\ sockIds' \in [Addrs -> {NoSockId} \cup [fd : Fds, noTrace : Traces]]
      /\ ConnInfoKept
      /\ \A g \in Fds : g # f => connInfo'[g] = connInfo[g]
      /\ connInfo[f].k # 0 => connInfo'[f].noTrace = TraceState(proto)
  BY <1>1, <1>2, <1>5, <1>7, TraceWritten, Zenon
<1>9. objs'[n].tracable = TraceState(proto)
  BY <1>1, <1>4, <1>6, Zenon
<1>10. \A o \in DOMAIN objs :
         /\ objs'[o].k = objs[o].k /\ objs'[o].fd = objs[o].fd /\ objs'[o].addr = objs[o].addr
         /\ objs'[o].ConnectStartTs = objs[o].ConnectStartTs /\ objs'[o].Status = objs[o].Status
         /\ objs'[o].prevConn = objs[o].prevConn
         /\ o # n => objs'[o].tracable = objs[o].tracable
  BY <1>2, <1>4, <1>6, Zenon
<1> QED BY <1>6, <1>8, <1>9, <1>10, Zenon

LEMMA AddSettles ==
  ASSUME IInv, AddConnection4, NEW ev \in Event, NEW n \in Nat, NEW ex \in Nat, NEW f \in Fds,
         ev = Head(connEvents), ev.type = "infer" => ex = 0, Has(n, ex, f),
         ex = 0 \/ objs[ex].addr = objs[n].addr
  PROVE  Settles(n, f) /\ Added(n, ex, f)
<1>1. /\ proc.pc = "add"
      /\ connMap' = IF ex = 0 THEN [connMap EXCEPT ![f] = n] ELSE connMap
      /\ sockMap' = sockMap /\ removed' = removed
      /\ IF ev.type = "infer" THEN Infer(objs, n, ev.proto)
         ELSE objs' = objs /\ UNCHANGED <<connInfo, sockIds>>
      /\ connEvents' = Tail(connEvents) /\ proc' = Idle
      /\ UNCHANGED <<now, kern, dataEvents, closing, sweep>>
  BY Zenon DEF AddConnection4, Has
<1>2. /\ Shape /\ objs \in Seq(Connection4) /\ connMap \in [Fds -> Nat] /\ sockMap \in [Addrs -> Nat]
      /\ connInfo \in [Fds -> [k : Nat, noTrace : Traces]]
      /\ sockIds \in [Addrs -> {NoSockId} \cup [fd : Fds, noTrace : Traces]]
  BY Zenon DEF IInv, Shape
<1>3. /\ connMap' \in [Fds -> Nat]
      /\ \A g \in Fds : g # f \/ ex # 0 => connMap'[g] = connMap[g]
      /\ ex = 0 => connMap'[f] = n
  BY <1>1, <1>2, Zenon
<1>4. \A g \in Fds : connMap'[g] # connMap[g] => g = f /\ connMap'[g] = n
  BY <1>3, Zenon
<1>5. CASE ev.type = "infer"
  <2>1. PICK proto \in Protocols : proto = ev.proto
    BY Zenon DEF Event
  <2>2. Infer(objs, n, proto) /\ Has(n, 0, f)
    BY <1>1, <1>5, <2>1, Zenon
  <2>3. ex = 0
    BY <1>5, Zenon
  <2>4. Settles(n, f)
    BY <1>1, <1>2, <1>3, <1>4, <2>2, NewInferred DEF Settles
  <2>5. Added(n, ex, f)
    BY <1>1, <1>3, <2>2, <2>3, NewInferred DEF Added
  <2> QED BY <2>4, <2>5, Zenon
<1>6. CASE ev.type # "infer"
  <2>1. objs' = objs /\ connInfo' = connInfo /\ sockIds' = sockIds
    BY <1>1, <1>6, Zenon
  <2>2. objs[n].tracable # "traceable"
    BY Zenon DEF Has
  <2> QED BY <1>1, <1>2, <1>3, <1>4, <2>1, <2>2, Zenon DEF Settles, Added, ConnInfoKept
<1> QED BY <1>5, <1>6, Zenon

LEMMA AddedKeys ==
  ASSUME IInv, NEW n \in Nat, NEW ex \in Nat, NEW f \in Fds,
         Has(n, ex, f), Settles(n, f), Added(n, ex, f)
  PROVE  Keys'
<1>1. \A s, o \in DOMAIN objs : Holds(s, o)' <=> Holds(s, o)
  BY Zenon DEF Holds, Settles, Added
<1>2. \A o \in DOMAIN objs : HasKey(o)' <=> HasKey(o)
  <2>1. \A k : SoleUser(k)' <=> SoleUser(k)
    BY Zenon DEF SoleUser, Settles
  <2> QED BY <2>1, Zenon DEF HasKey, Settles, Added
<1>3. ASSUME NEW g \in Fds, NEW s \in DOMAIN objs, NEW o \in DOMAIN objs, s = connMap'[g], Holds(s, o)
      PROVE  HasKey(o)
  <2>1. CASE s = connMap[g]
    <3>1. s # 0
      BY Types DEF IInv
    <3> QED BY <1>3, <2>1, <3>1, Zenon DEF IInv, Keys
  <2>2. CASE s = n
    <3>1. o = n
      BY <1>3, <2>2 DEF Holds, Has
    <3> QED BY <3>1, Zenon DEF Has
  <2> QED BY <1>3, <2>1, <2>2, Zenon DEF Settles
<1>4. ASSUME NEW g \in Fds, NEW o \in DOMAIN objs, connMap'[g] # 0, Holds(connMap[g], o)'
      PROVE  HasKey(o)'
  <2>1. PICK s \in DOMAIN objs : s = connMap'[g]
    BY <1>4, SettledObjects, Zenon DEF References, Settles
  <2>2. Holds(s, o)'
    BY <1>4, <2>1, Zenon DEF Holds
  <2> QED BY <1>1, <1>2, <1>3, <2>1, <2>2, Zenon
<1>5. ASSUME sweep.obj # 0, NEW o \in DOMAIN objs, Holds(sweep.obj, o)'
      PROVE  objs'[o].k \in removed
  <2>1. PICK s \in DOMAIN objs : s = sweep.obj
    BY <1>5, Types DEF IInv, References
  <2>2. Holds(s, o)'
    BY <1>5, <2>1, Zenon DEF Holds, Settles
  <2> QED BY <1>1, <1>5, <2>1, <2>2, Zenon DEF IInv, Keys, Settles
<1>6. ~Lost' /\ proc'.pc = "idle" /\ sweep' = sweep /\ removed' = removed /\ DOMAIN objs' = DOMAIN objs
  BY Zenon DEF Lost, Idle, Settles, Added
<1> QED BY <1>4, <1>5, <1>6, Zenon DEF Keys

LEMMA AddedKeysHeld ==
  ASSUME IInv, NEW n \in Nat, NEW ex \in Nat, NEW f \in Fds,
         Has(n, ex, f), Settles(n, f), Added(n, ex, f)
  PROVE  KeysHeld'
<1>1. \A s, o \in DOMAIN objs : Holds(s, o)' <=> Holds(s, o)
  BY Zenon DEF Holds, Settles, Added
<1>0. /\ sockMap' = sockMap /\ DOMAIN objs' = DOMAIN objs
      /\ \A o \in DOMAIN objs : objs'[o].addr = objs[o].addr
  BY Zenon DEF Settles, Added
<1> SUFFICES ASSUME NEW a \in Addrs, sockMap[a] # 0
             PROVE  \E s, o \in DOMAIN objs : InUse(s)' /\ Holds(s, o) /\ objs[o].addr = a
  BY <1>0, <1>1, Zenon DEF KeysHeld
<1>2. PICK s \in DOMAIN objs, o \in DOMAIN objs : InUse(s) /\ Holds(s, o) /\ objs[o].addr = a
  BY Zenon DEF IInv, KeysHeld
<1>3. s # 0
  BY Types DEF IInv
<1>4. ASSUME ex # 0, objs[ex].addr = a \/ s = ex PROVE InUse(ex)'
  <2>1. CASE connMap[f] = ex
    BY <1>4, <2>1, Zenon DEF InUse, Added
  <2>2. CASE connMap[f] # ex
    <3>1. Lost
      BY <1>4, <2>2, Zenon DEF Lost, Has
    <3>2. \A p \in DOMAIN objs : Holds(ex, p) => (sweep.obj # ex => sockMap[objs[p].addr] = 0)
      BY <3>1, Zenon DEF IInv, Keys, Has
    <3>3. Holds(ex, ex) /\ ex \in DOMAIN objs
      BY <1>4, Zenon DEF Holds, Has
    <3>4. sweep.obj = ex
      BY <1>2, <1>4, <3>2, <3>3, Zenon
    <3> QED BY <3>4, Zenon DEF InUse, Settles
  <2> QED BY <2>1, <2>2, Zenon
<1>5. CASE s = n
  <2>1. o = n
    BY <1>2, <1>5 DEF Holds, Has
  <2>2. CASE ex = 0
    BY <1>2, <1>5, <2>2, Zenon DEF InUse, Added
  <2>3. CASE ex # 0
    <3>1. ex \in DOMAIN objs /\ Holds(ex, ex) /\ objs[ex].addr = a
      BY <1>2, <2>1, <2>3, Zenon DEF Holds, Has, Added
    <3> QED BY <1>4, <2>3, <3>1, Zenon
  <2> QED BY <2>2, <2>3, Zenon
<1>6. CASE s = ex
  BY <1>2, <1>3, <1>4, <1>6, Zenon
<1>7. CASE s # n /\ s # ex
  <2>1. (\E g \in Fds : s = connMap[g]) \/ s = sweep.obj
    BY <1>2, <1>7, Zenon DEF InUse, Has
  <2>2. \A g \in Fds : s = connMap[g] => s = connMap'[g]
    BY <1>3, <1>7, Zenon DEF Has, Added
  <2>3. InUse(s)'
    BY <2>1, <2>2, Zenon DEF InUse, Settles
  <2> QED BY <1>2, <2>3, Zenon
<1> QED BY <1>5, <1>6, <1>7, Zenon

LEMMA AddedTrace ==
  ASSUME IInv, NEW n \in Nat, NEW ex \in Nat, NEW f \in Fds,
         Has(n, ex, f), Settles(n, f), Added(n, ex, f)
  PROVE  TraceStateReachesKernel'
<1> SUFFICES ASSUME NEW g \in Fds, connMap'[g] # 0, connInfo'[g].k # 0,
                    objs'[connMap'[g]].tracable = "traceable",
                    objs'[connMap'[g]].k = connInfo'[g].k
             PROVE  connInfo'[g].noTrace = "traceable"
  BY Zenon DEF TraceStateReachesKernel
<1>1. connInfo'[g].k = connInfo[g].k
  BY Zenon DEF Settles, ConnInfoKept
<1>2. CASE connMap'[g] = n
  <2>1. g = f
    BY <1>2, Zenon DEF Settles, Has
  <2> QED BY <1>1, <1>2, <2>1, Zenon DEF Added
<1>3. CASE connMap'[g] # n
  <2>1. connMap'[g] = connMap[g] /\ connMap[g] \in DOMAIN objs
    BY <1>3, Zenon DEF Settles, IInv, References
  <2>2. connInfo'[g] = connInfo[g]
    BY <1>3, Zenon DEF Added
  <2>3. objs[connMap[g]].tracable = "traceable" /\ objs[connMap[g]].k = connInfo[g].k
    <3>1. objs'[connMap[g]].tracable = objs[connMap[g]].tracable
      BY <1>3, <2>1, Zenon DEF Added
    <3>2. objs'[connMap[g]].k = objs[connMap[g]].k
      BY <2>1, Zenon DEF Settles
    <3> QED BY <2>1, <2>2, <3>1, <3>2, Zenon
  <2> QED BY <2>1, <2>2, <2>3, Zenon DEF IInv, TraceStateReachesKernel
<1> QED BY <1>2, <1>3, Zenon

LEMMA AddIInv ==
  ASSUME IInv, AddConnection4,
         proc.existed = 0 \/ objs[proc.existed].addr = objs[proc.obj].addr
  PROVE  IInv'
<1>1. PICK ev \in Event, n \in Nat, ex \in Nat, f \in Fds :
         ev = Head(connEvents) /\ (ev.type = "infer" => ex = 0) /\ Has(n, ex, f)
  BY Given, Zenon DEF AddConnection4
<1>2. ex = 0 \/ objs[ex].addr = objs[n].addr
  BY <1>1, Zenon DEF Has
<1>3. Settles(n, f) /\ Added(n, ex, f)
  BY <1>1, <1>2, AddSettles, Zenon
<1>4. ObjectsOfConnections'
  BY <1>3, ObjectsStay, Zenon DEF Settles, Added, Stays
<1> QED BY <1>1, <1>3, <1>4, SettledEvents, SettledObjects, AddedKeys, AddedKeysHeld, AddedTrace,
           Zenon DEF IInv

LEMMA GreatestUpTo ==
  ASSUME NEW m \in Nat, NEW T \in SUBSET (0..m), T # {}
  PROVE  \E x \in T : \A y \in T : x >= y
<1> DEFINE M == {m - y : y \in T}
<1>1. M \in SUBSET Nat
  OBVIOUS
<1>2. M # {}
  BY Zenon
<1>3. PICK x \in M : \A y \in M : ~ (<<y, x>> \in OpToRel(<, Nat))
  <2> HIDE DEF M
  <2> QED BY <1>1, <1>2, NatLessThanWellFounded, WFMin, Zenon
<1>4. \A y \in M : ~(y < x)
  BY <1>1, <1>3, Zenon DEF OpToRel
<1>5. PICK z \in T : x = m - z
  BY <1>3, Zenon
<1>6. ASSUME NEW y \in T PROVE z >= y
  <2>1. m - y \in M
    BY Zenon
  <2>2. ~(m - y < m - z)
    BY <1>4, <1>5, <2>1, Zenon
  <2> QED BY <2>2
<1> QED BY <1>6, Zenon

LEMMA DeleteEndInside ==
  ASSUME NEW prev \in Seq(Nat)
  PROVE  DeleteEnd(prev) \in 0..Len(prev)
<1> DEFINE T == {0} \cup {i \in DOMAIN prev : objs[prev[i]].Status = "Closed"}
<1>1. T \in SUBSET (0..Len(prev)) /\ T # {} /\ Len(prev) \in Nat
  OBVIOUS
<1>2. DeleteEnd(prev) = CHOOSE x \in T : \A y \in T : x >= y
  BY Zenon DEF DeleteEnd, Max
<1> HIDE DEF T
<1>3. \E x \in T : \A y \in T : x >= y
  BY <1>1, GreatestUpTo, Zenon
<1>4. DeleteEnd(prev) \in T
  BY <1>2, <1>3, Zenon
<1> QED BY <1>1, <1>4, Zenon

\* What is kept of the earlier objects: those after the deleted ones, and the
\* object that is replaced.
LEMMA KeptIs ==
  ASSUME NEW prev \in Seq(Nat), NEW ex \in Nat,
         \A i \in DOMAIN prev : prev[i] < ex,
         \A i, j \in DOMAIN prev : i < j => prev[i] < prev[j]
  PROVE  LET kept == Kept(prev, ex) IN
         /\ kept \in Seq(Nat)
         /\ \A i, j \in DOMAIN kept : i < j => kept[i] < kept[j]
         /\ \A i \in DOMAIN kept : kept[i] = ex \/ \E j \in DOMAIN prev : kept[i] = prev[j]
         /\ \E i \in DOMAIN kept : kept[i] = ex
         /\ \A j \in DOMAIN prev : prev[j] \in Deleted(prev) \/ \E i \in DOMAIN kept : kept[i] = prev[j]
         /\ \A o : o \in Deleted(prev) <=> o \in Range(prev) \ Range(kept)
<1>1. PICK d \in 0..Len(prev) : d = DeleteEnd(prev)
  BY DeleteEndInside, Zenon
<1>2. Len(prev) \in Nat /\ d \in Nat /\ DOMAIN prev = 1..Len(prev)
  OBVIOUS
<1> DEFINE rest == SubSeq(prev, d + 1, Len(prev))
           kept == Append(rest, ex)
<1>0. PICK m \in Nat : m = Len(prev) - d
  <2>1. Len(prev) - d \in Nat
    BY <1>2
  <2> QED BY <2>1, Zenon
<1>3. /\ rest \in Seq(Nat) /\ Len(rest) = m
      /\ \A i \in 1..m : rest[i] = prev[d + i]
  <2>1. rest \in Seq(Nat)
    BY <1>2
  <2>2. Len(rest) = m
    BY <1>0, <1>2
  <2>3. \A i \in 1..m : rest[i] = prev[(d + 1) + i - 1]
    BY <1>0, <1>2
  <2>4. \A i \in 1..m : (d + 1) + i - 1 = d + i
    BY <1>2
  <2> QED BY <2>1, <2>2, <2>3, <2>4, Zenon
<1> HIDE DEF rest
<1>4. /\ kept \in Seq(Nat) /\ Len(kept) = m + 1 /\ DOMAIN kept = 1..(m + 1)
      /\ \A i \in 1..m : kept[i] = prev[d + i]
      /\ kept[m + 1] = ex
  BY <1>3
<1>5. Kept(prev, ex) = kept
  BY <1>1, Zenon DEF Kept, rest
<1> HIDE DEF kept
<1>6. \A i \in 1..m : d + i \in DOMAIN prev /\ i \in DOMAIN kept
  BY <1>0, <1>2, <1>4
<1>7. \A i \in DOMAIN kept : i \in 1..m \/ i = m + 1
  BY <1>3, <1>4
<1>8. \A i, j \in DOMAIN kept : i < j => kept[i] < kept[j]
  <2> SUFFICES ASSUME NEW i \in DOMAIN kept, NEW j \in DOMAIN kept, i < j
               PROVE  kept[i] < kept[j]
    BY Zenon
  <2>1. i \in 1..m /\ kept[i] = prev[d + i] /\ d + i \in DOMAIN prev
    <3>1. i \in 1..m
      BY <1>4
    <3> QED BY <1>4, <1>6, <3>1, Zenon
  <2>2. CASE j \in 1..m
    <3>1. kept[j] = prev[d + j] /\ d + j \in DOMAIN prev /\ d + i < d + j
      <4>1. kept[j] = prev[d + j] /\ d + j \in DOMAIN prev
        BY <1>4, <1>6, <2>2, Zenon
      <4>2. d + i < d + j
        BY <1>2, <2>1, <2>2
      <4> QED BY <4>1, <4>2, Zenon
    <3> QED BY <2>1, <3>1, Zenon
  <2>3. CASE j = m + 1
    BY <1>4, <2>1, <2>3, Zenon
  <2> QED BY <1>7, <2>2, <2>3, Zenon
<1>9. \A i \in DOMAIN kept : kept[i] = ex \/ \E j \in DOMAIN prev : kept[i] = prev[j]
  BY <1>4, <1>6, <1>7, Zenon
<1>10. \E i \in DOMAIN kept : kept[i] = ex
  <2>1. m + 1 \in DOMAIN kept
    BY <1>4
  <2> QED BY <1>4, <2>1, Zenon
<1>11. Deleted(prev) = {prev[i] : i \in 1..d}
  BY <1>1, Zenon DEF Deleted
<1>12. \A j \in DOMAIN prev : j \in 1..d \/ \E i \in DOMAIN kept : kept[i] = prev[j]
  <2> SUFFICES ASSUME NEW j \in DOMAIN prev, j \notin 1..d
               PROVE  \E i \in DOMAIN kept : kept[i] = prev[j]
    BY Zenon
  <2>1. j - d \in 1..m /\ d + (j - d) = j
    BY <1>0, <1>2
  <2> QED BY <1>4, <1>6, <2>1, Zenon
<1>13. ASSUME NEW i \in 1..d, NEW j \in DOMAIN kept
       PROVE  prev[i] # kept[j] /\ i \in DOMAIN prev
  <2>1. i \in DOMAIN prev /\ prev[i] \in Nat
    BY <1>2
  <2>2. CASE j = m + 1
    BY <1>4, <2>1, <2>2
  <2>3. CASE j \in 1..m
    <3>1. i < d + j /\ kept[j] = prev[d + j] /\ d + j \in DOMAIN prev /\ prev[d + j] \in Nat
      <4>1. kept[j] = prev[d + j] /\ d + j \in DOMAIN prev
        BY <1>4, <1>6, <2>3, Zenon
      <4>2. i < d + j
        BY <1>2, <2>3
      <4> QED BY <4>1, <4>2
    <3> QED BY <2>1, <3>1
  <2> QED BY <1>7, <2>1, <2>2, <2>3, Zenon
<1>14. \A o : o \in Range(prev) <=> \E i \in DOMAIN prev : o = prev[i]
  BY Zenon DEF Range
<1>15. \A o : o \in Range(kept) <=> \E i \in DOMAIN kept : o = kept[i]
  BY Zenon DEF Range
<1>16. \A o : o \in Deleted(prev) <=> o \in Range(prev) \ Range(kept)
  <2>1. ASSUME NEW o, o \in Deleted(prev)
        PROVE  o \in Range(prev) \ Range(kept)
    <3>1. PICK i \in 1..d : o = prev[i]
      BY <1>11, <2>1, Zenon
    <3> QED BY <1>13, <1>14, <1>15, <3>1
  <2>2. ASSUME NEW o, o \in Range(prev) \ Range(kept)
        PROVE  o \in Deleted(prev)
    BY <1>11, <1>12, <1>14, <1>15, <2>2
  <2> QED BY <2>1, <2>2, Zenon
<1>17. \A j \in DOMAIN prev : prev[j] \in Deleted(prev) \/ \E i \in DOMAIN kept : kept[i] = prev[j]
  BY <1>11, <1>12, Zenon
<1>18. kept \in Seq(Nat)
  BY <1>4, Zenon
<1> QED BY <1>5, <1>8, <1>9, <1>10, <1>16, <1>17, <1>18, Zenon

LEMMA SupersededKeeps ==
  ASSUME NEW c \in Connection4
  PROVE  LET d == Superseded(c) IN
         /\ d \in Connection4 /\ d.k = c.k /\ d.fd = c.fd /\ d.addr = c.addr
         /\ d.ConnectStartTs = c.ConnectStartTs /\ d.Status = c.Status
         /\ d.tracable = c.tracable /\ d.prevConn = << >>
<1>1. << >> \in Seq(Nat) /\ << >> \in Seq(Data)
  OBVIOUS
<1> QED BY <1>1, Zenon DEF Superseded, Connection4

\* The new object takes the place of one with another key, and holds it and those of
\* its earlier objects that are kept; the others are deleted.
Replaced(n, ex, f, kept, deleted) ==
  LET prev == objs[ex].prevConn IN
  /\ \A i, j \in DOMAIN kept : i < j => kept[i] < kept[j]
  /\ \A i \in DOMAIN kept : kept[i] = ex \/ \E j \in DOMAIN prev : kept[i] = prev[j]
  /\ \E i \in DOMAIN kept : kept[i] = ex
  /\ \A j \in DOMAIN prev : prev[j] \in deleted \/ \E i \in DOMAIN kept : kept[i] = prev[j]
  /\ objs'[ex].prevConn = << >> /\ objs'[n].prevConn = kept
  /\ \A o \in DOMAIN objs : /\ o # ex /\ o # n => objs'[o].prevConn = objs[o].prevConn
                            /\ objs'[o].tracable = objs[o].tracable
  /\ removed \subseteq removed' /\ \A o \in deleted : o \in DOMAIN objs /\ objs[o].k \in removed'
  /\ \A a \in Addrs : sockMap'[a] = IF \E o \in deleted : objs[o].addr = a THEN 0 ELSE sockMap[a]
  /\ connMap'[f] = n /\ (\A g \in Fds : g # f => connMap'[g] = connMap[g]) /\ connInfo' = connInfo

\* One object of a sequence of them is changed.
LEMMA SetAt ==
  ASSUME NEW S, NEW s \in Seq(S), NEW i \in DOMAIN s, NEW v \in S, NEW t, t = [s EXCEPT ![i] = v]
  PROVE  /\ t \in Seq(S) /\ Len(t) = Len(s) /\ DOMAIN t = DOMAIN s
         /\ t[i] = v /\ \A j \in DOMAIN s : j # i => t[j] = s[j]
  OBVIOUS

\* The two objects that a replacement changes.
Hands(n, ex, kept) ==
  objs' = [objs EXCEPT ![ex] = Superseded(@), ![n].prevConn = kept, ![n].temp = objs[ex].temp]

LEMMA ReplacedPair ==
  ASSUME objs \in Seq(Connection4), NEW n \in DOMAIN objs, NEW ex \in DOMAIN objs, n # ex,
         NEW kept \in Seq(Nat), Hands(n, ex, kept)
  PROVE  /\ objs' \in Seq(Connection4) /\ Len(objs') = Len(objs) /\ DOMAIN objs' = DOMAIN objs
         /\ \A o \in DOMAIN objs :
              /\ objs'[o].k = objs[o].k /\ objs'[o].fd = objs[o].fd /\ objs'[o].addr = objs[o].addr
              /\ objs'[o].ConnectStartTs = objs[o].ConnectStartTs /\ objs'[o].Status = objs[o].Status
              /\ objs'[o].tracable = objs[o].tracable
              /\ o # ex /\ o # n => objs'[o].prevConn = objs[o].prevConn
         /\ objs'[ex].prevConn = << >> /\ objs'[n].prevConn = kept
<1>1. PICK old \in Connection4 :
        /\ old = Superseded(objs[ex])
        /\ old.k = objs[ex].k /\ old.fd = objs[ex].fd /\ old.addr = objs[ex].addr
        /\ old.ConnectStartTs = objs[ex].ConnectStartTs /\ old.Status = objs[ex].Status
        /\ old.tracable = objs[ex].tracable /\ old.prevConn = << >>
  <2>1. objs[ex] \in Connection4
    OBVIOUS
  <2> QED BY <2>1, SupersededKeeps, Zenon
<1>2. PICK c \in Connection4, t \in Seq(Data) : c = objs[n] /\ t = objs[ex].temp
  <2>1. objs[n] \in Connection4 /\ objs[ex] \in Connection4
    OBVIOUS
  <2> QED BY <2>1, Zenon DEF Connection4
<1>3. PICK new \in Connection4 : new = [c EXCEPT !.prevConn = kept, !.temp = t]
  <2>1. [c EXCEPT !.prevConn = kept, !.temp = t] \in Connection4
    BY Zenon DEF Connection4
  <2> QED BY <2>1, Zenon
<1>4. /\ new.k = c.k /\ new.fd = c.fd /\ new.addr = c.addr
      /\ new.ConnectStartTs = c.ConnectStartTs /\ new.Status = c.Status
      /\ new.tracable = c.tracable /\ new.prevConn = kept
  BY <1>3, Zenon DEF Connection4
<1>5. objs' = [objs EXCEPT ![ex] = old, ![n] = new]
  BY <1>1, <1>2, <1>3, Zenon DEF Hands
<1>6. /\ objs' \in Seq(Connection4) /\ Len(objs') = Len(objs) /\ DOMAIN objs' = DOMAIN objs
      /\ objs'[ex] = old /\ objs'[n] = new
      /\ \A o \in DOMAIN objs : o # ex /\ o # n => objs'[o] = objs[o]
  <2>1. PICK s \in Seq(Connection4) :
          /\ s = [objs EXCEPT ![ex] = old] /\ Len(s) = Len(objs) /\ DOMAIN s = DOMAIN objs
          /\ s[ex] = old /\ \A o \in DOMAIN objs : o # ex => s[o] = objs[o]
    <3>1. PICK s : s = [objs EXCEPT ![ex] = old]
      BY Zenon
    <3> QED BY <3>1, SetAt, SMT
  <2>2. objs' = [s EXCEPT ![n] = new] /\ n \in DOMAIN s
    BY <1>5, <2>1, Zenon
  <2>3. /\ objs' \in Seq(Connection4) /\ Len(objs') = Len(s) /\ DOMAIN objs' = DOMAIN s
        /\ objs'[n] = new /\ \A o \in DOMAIN s : o # n => objs'[o] = s[o]
    BY <2>2, SetAt, SMT
  <2> QED BY <2>1, <2>3, Zenon
<1> QED BY <1>1, <1>2, <1>4, <1>6, Zenon

LEMMA ReplaceSettles ==
  ASSUME IInv, AddConnection4, NEW ev \in Event, NEW n \in Nat, NEW ex \in Nat, NEW f \in Fds,
         ev = Head(connEvents), ev.type = "infer" => ex = 0, Has(n, ex, f),
         ex # 0, objs[ex].addr # objs[n].addr
  PROVE  Settles(n, f) /\ \E kept \in Seq(Nat) : \E deleted : Replaced(n, ex, f, kept, deleted)
<1>1. n \in DOMAIN objs /\ ex \in DOMAIN objs /\ n # ex /\ ev.type # "infer"
  BY Zenon DEF Has
<1>2. /\ Shape /\ objs \in Seq(Connection4) /\ connMap \in [Fds -> Nat] /\ sockMap \in [Addrs -> Nat]
      /\ connInfo \in [Fds -> [k : Nat, noTrace : Traces]]
      /\ sockIds \in [Addrs -> {NoSockId} \cup [fd : Fds, noTrace : Traces]]
  BY Zenon DEF IInv, Shape
<1>3. PICK prev \in Seq(Nat) : prev = objs[ex].prevConn
  BY <1>1, Earlier, Zenon
<1>4. /\ \A i \in DOMAIN prev : prev[i] \in DOMAIN objs /\ prev[i] < ex /\ objs[prev[i]].prevConn = << >>
      /\ \A i, j \in DOMAIN prev : i < j => prev[i] < prev[j]
  BY <1>1, <1>3, Earlier, Zenon
<1>5a. PICK deleted : deleted = Deleted(prev)
  BY Zenon
<1>5. PICK kept \in Seq(Nat) :
         /\ kept = Kept(prev, ex) /\ deleted = Deleted(prev)
         /\ \A i, j \in DOMAIN kept : i < j => kept[i] < kept[j]
         /\ \A i \in DOMAIN kept : kept[i] = ex \/ \E j \in DOMAIN prev : kept[i] = prev[j]
         /\ \E i \in DOMAIN kept : kept[i] = ex
         /\ \A j \in DOMAIN prev : prev[j] \in deleted \/ \E i \in DOMAIN kept : kept[i] = prev[j]
         /\ \A o : o \in deleted <=> o \in Range(prev) \ Range(kept)
  BY <1>4, <1>5a, KeptIs
<1>6. /\ proc.pc = "add"
      /\ connMap' = [connMap EXCEPT ![f] = n]
      /\ sockMap' = RemoveConnFromSockKeyMap(sockMap, deleted)
      /\ removed' = removed \cup {objs[o].k : o \in Range(prev) \ Range(kept)}
      /\ objs' = [objs EXCEPT ![ex] = Superseded(@), ![n].prevConn = kept, ![n].temp = objs[ex].temp]
      /\ UNCHANGED <<connInfo, sockIds>>
      /\ connEvents' = Tail(connEvents) /\ proc' = Idle
      /\ UNCHANGED <<now, kern, dataEvents, closing, sweep>>
  BY <1>1, <1>3, <1>5 DEF AddConnection4, Has
<1>7. \A o \in deleted : o \in DOMAIN objs /\ objs[o].prevConn = << >> /\ objs[o].k \in removed'
  <2>1. \A o \in deleted : \E i \in DOMAIN prev : o = prev[i]
    BY <1>5 DEF Range
  <2>2. \A o \in deleted : objs[o].k \in removed'
    BY <1>5, <1>6, Zenon
  <2> QED BY <1>4, <2>1, <2>2, Zenon
<1>8. /\ sockMap' \in [Addrs -> Nat]
      /\ \A a \in Addrs : sockMap'[a] = IF \E o \in deleted : objs[o].addr = a THEN 0 ELSE sockMap[a]
  <2>1. WithPrevious(deleted) = deleted
    <3>0. Range(<< >>) = {}
      BY DEF Range
    <3>1. \A o \in deleted : Range(objs[o].prevConn) = {}
      BY <1>7, <3>0, Zenon
    <3>2. UNION {Range(objs[o].prevConn) : o \in deleted} = {}
      BY <3>1, Zenon
    <3> QED BY <3>2, Zenon DEF WithPrevious
  <2>2. sockMap' = [a \in Addrs |-> IF \E o \in deleted : objs[o].addr = a THEN 0 ELSE sockMap[a]]
    BY <1>6, <2>1, Zenon DEF RemoveConnFromSockKeyMap
  <2> QED BY <1>2, <2>2, Zenon
<1>9. connMap' \in [Fds -> Nat] /\ connMap'[f] = n /\ \A g \in Fds : g # f => connMap'[g] = connMap[g]
  BY <1>2, <1>6, Zenon
<1>10. /\ objs' \in Seq(Connection4) /\ Len(objs') = Len(objs) /\ DOMAIN objs' = DOMAIN objs
       /\ \A o \in DOMAIN objs :
            /\ objs'[o].k = objs[o].k /\ objs'[o].fd = objs[o].fd /\ objs'[o].addr = objs[o].addr
            /\ objs'[o].ConnectStartTs = objs[o].ConnectStartTs /\ objs'[o].Status = objs[o].Status
            /\ objs'[o].tracable = objs[o].tracable
            /\ o # ex /\ o # n => objs'[o].prevConn = objs[o].prevConn
       /\ objs'[ex].prevConn = << >> /\ objs'[n].prevConn = kept
  <2>1. Hands(n, ex, kept)
    BY <1>6, Zenon DEF Hands
  <2> QED BY <1>1, <1>2, <2>1, ReplacedPair, Zenon
<1>11. \A a \in Addrs : sockMap'[a] \in {0, sockMap[a]}
  BY <1>8, Zenon
<1>12. \A g \in Fds : connMap'[g] # connMap[g] => g = f /\ connMap'[g] = n
  BY <1>9
<1>13. Settles(n, f)
  BY <1>2, <1>6, <1>8, <1>9, <1>10, <1>11, <1>12, Zenon DEF Settles, ConnInfoKept
<1>14. removed \subseteq removed' /\ connInfo' = connInfo
  BY <1>6
<1>15. Replaced(n, ex, f, kept, deleted)
  <2>1. /\ \A i, j \in DOMAIN kept : i < j => kept[i] < kept[j]
        /\ \A i \in DOMAIN kept : kept[i] = ex \/ \E j \in DOMAIN objs[ex].prevConn : kept[i] = objs[ex].prevConn[j]
        /\ \E i \in DOMAIN kept : kept[i] = ex
        /\ \A j \in DOMAIN objs[ex].prevConn :
             objs[ex].prevConn[j] \in deleted \/ \E i \in DOMAIN kept : kept[i] = objs[ex].prevConn[j]
    BY <1>3, <1>5
  <2>2. \A o \in DOMAIN objs : /\ o # ex /\ o # n => objs'[o].prevConn = objs[o].prevConn
                              /\ objs'[o].tracable = objs[o].tracable
    BY <1>10, Zenon
  <2>3. \A o \in deleted : o \in DOMAIN objs /\ objs[o].k \in removed'
    BY <1>7, Zenon
  <2> QED BY <1>8, <1>9, <1>10, <1>14, <2>1, <2>2, <2>3, Zenon DEF Replaced
<1> QED BY <1>13, <1>15, Zenon

\* What AddConnection4 leaves when it replaces.
Replacing(n, ex, f, kept, deleted) ==
  ex # 0 /\ Has(n, ex, f) /\ Settles(n, f) /\ Replaced(n, ex, f, kept, deleted)

LEMMA ReplacedObjects ==
  ASSUME IInv, NEW n \in Nat, NEW ex \in Nat, NEW f \in Fds, NEW kept \in Seq(Nat), NEW deleted,
         Replacing(n, ex, f, kept, deleted)
  PROVE  ObjectsOfConnections'
<1>1. /\ ex \in DOMAIN objs /\ n \in DOMAIN objs /\ ex < n /\ n = Len(objs) /\ n # ex
      /\ objs[ex].fd = f /\ objs[n].fd = f
      /\ now' = now /\ kern' = kern /\ DOMAIN objs' = DOMAIN objs
      /\ objs'[ex].prevConn = << >> /\ objs'[n].prevConn = kept
      /\ DOMAIN objs = 1..Len(objs) /\ Len(objs) \in Nat
  BY Types, Zenon DEF Replacing, Has, Settles, Replaced, IInv
<1>2. \A o \in DOMAIN objs :
        /\ objs'[o].k = objs[o].k /\ objs'[o].fd = objs[o].fd /\ objs'[o].addr = objs[o].addr
        /\ objs'[o].ConnectStartTs = objs[o].ConnectStartTs
        /\ o # ex /\ o # n => objs'[o].prevConn = objs[o].prevConn
  BY Zenon DEF Replacing, Settles, Replaced
<1> SUFFICES ASSUME NEW o \in DOMAIN objs
             PROVE  /\ objs'[o].k \in DOMAIN kern
                    /\ objs'[o].fd = kern[objs'[o].k].fd
                    /\ objs'[o].addr = kern[objs'[o].k].addr
                    /\ objs'[o].ConnectStartTs <= now
                    /\ \A i \in DOMAIN objs'[o].prevConn :
                         /\ objs'[o].prevConn[i] \in 1..(o - 1)
                         /\ objs'[objs'[o].prevConn[i]].prevConn = << >>
                         /\ objs'[objs'[o].prevConn[i]].fd = objs'[o].fd
                    /\ \A i, j \in DOMAIN objs'[o].prevConn :
                         i < j => objs'[o].prevConn[i] < objs'[o].prevConn[j]
  BY <1>1, Zenon DEF ObjectsOfConnections
<1>3. /\ objs'[o].k \in DOMAIN kern
      /\ objs'[o].fd = kern[objs'[o].k].fd
      /\ objs'[o].addr = kern[objs'[o].k].addr
      /\ objs'[o].ConnectStartTs <= now
  BY <1>2, ZenonT(30) DEF IInv, ObjectsOfConnections
<1>4. CASE o = ex
  <2>1. DOMAIN objs'[o].prevConn = {}
    BY <1>1, <1>4
  <2> QED BY <1>3, <2>1, Zenon
<1>5. CASE o = n
  <2>1. objs'[o].prevConn = kept /\ objs'[o].fd = f
    BY <1>1, <1>2, <1>5, Zenon
  <2>2. ASSUME NEW i \in DOMAIN kept
        PROVE  kept[i] \in 1..(n - 1) /\ objs'[kept[i]].prevConn = << >> /\ objs'[kept[i]].fd = f
    <3>1. CASE kept[i] = ex
      BY <1>1, <1>2, <3>1
    <3>2. CASE kept[i] # ex
      <4>1. PICK j \in DOMAIN objs[ex].prevConn : kept[i] = objs[ex].prevConn[j]
        BY <3>2, Zenon DEF Replacing, Replaced
      <4>2. PICK p \in DOMAIN objs : kept[i] = p /\ p < ex /\ objs[p].prevConn = << >> /\ objs[p].fd = f
        <5>1. \A x \in DOMAIN objs[ex].prevConn :
                /\ objs[ex].prevConn[x] \in DOMAIN objs /\ objs[ex].prevConn[x] < ex
                /\ objs[objs[ex].prevConn[x]].prevConn = << >>
                /\ objs[objs[ex].prevConn[x]].fd = objs[ex].fd
          BY <1>1, Earlier, Zenon
        <5> QED BY <1>1, <4>1, <5>1, Zenon
      <4>3. p \in 1..(n - 1) /\ p # n /\ p # ex
        BY <1>1, <4>2
      <4> QED BY <1>2, <4>2, <4>3, Zenon
    <3> QED BY <3>1, <3>2, Zenon
  <2>3. \A i, j \in DOMAIN kept : i < j => kept[i] < kept[j]
    BY Zenon DEF Replacing, Replaced
  <2> QED BY <1>3, <1>5, <2>1, <2>2, <2>3, Zenon
<1>6. CASE o # ex /\ o # n
  <2>1. /\ objs'[o].prevConn = objs[o].prevConn
        /\ \A i, j \in DOMAIN objs[o].prevConn : i < j => objs[o].prevConn[i] < objs[o].prevConn[j]
    BY <1>2, <1>6, Earlier, Zenon
  <2>2. ASSUME NEW i \in DOMAIN objs[o].prevConn
        PROVE  /\ objs[o].prevConn[i] \in 1..(o - 1)
               /\ objs'[objs[o].prevConn[i]].prevConn = << >>
               /\ objs'[objs[o].prevConn[i]].fd = objs'[o].fd
    <3>1. PICK p \in DOMAIN objs : /\ p = objs[o].prevConn[i] /\ p \in 1..(o - 1) /\ p < o
                                   /\ objs[p].prevConn = << >> /\ objs[p].fd = objs[o].fd
      BY Earlier, Zenon
    <3>2. p # n
      <4>1. o \in 1..n
        BY <1>1, Zenon
      <4>2. p < o /\ p \in Nat
        BY <3>1
      <4> QED BY <4>1, <4>2
    <3>3. objs'[p].prevConn = << >>
      BY <1>1, <1>2, <3>1, <3>2, Zenon
    <3> QED BY <1>2, <3>1, <3>3, Zenon
  <2> QED BY <1>3, <2>1, <2>2
<1> QED BY <1>4, <1>5, <1>6, Zenon

\* What the objects hold after the replacement: nobody else's objects change hands,
\* and what the replaced one held is deleted or is with the new one.
HeldAfter(n, ex, deleted) ==
  \A s, o \in DOMAIN objs :
    /\ s # n /\ s # ex => (Holds(s, o)' <=> Holds(s, o))
    /\ s = ex /\ Holds(s, o)' => o = ex
    /\ s = n /\ Holds(s, o)' => o = n \/ Holds(ex, o)
    /\ s = ex /\ Holds(s, o) => o \in deleted \/ Holds(n, o)'

LEMMA ReplacedHolds ==
  ASSUME NEW n \in Nat, NEW ex \in Nat, NEW f \in Fds, NEW kept \in Seq(Nat), NEW deleted,
         Replacing(n, ex, f, kept, deleted)
  PROVE  HeldAfter(n, ex, deleted)
<1> SUFFICES ASSUME NEW s \in DOMAIN objs, NEW o \in DOMAIN objs
             PROVE  /\ s # n /\ s # ex => (Holds(s, o)' <=> Holds(s, o))
                    /\ s = ex /\ Holds(s, o)' => o = ex
                    /\ s = n /\ Holds(s, o)' => o = n \/ Holds(ex, o)
                    /\ s = ex /\ Holds(s, o) => o \in deleted \/ Holds(n, o)'
  BY Zenon DEF HeldAfter
<1>1. /\ s # n /\ s # ex => objs'[s].prevConn = objs[s].prevConn
      /\ objs'[ex].prevConn = << >> /\ objs'[n].prevConn = kept
      /\ \A i \in DOMAIN kept : kept[i] = ex \/ \E j \in DOMAIN objs[ex].prevConn : kept[i] = objs[ex].prevConn[j]
      /\ \E i \in DOMAIN kept : kept[i] = ex
      /\ \A j \in DOMAIN objs[ex].prevConn :
           objs[ex].prevConn[j] \in deleted \/ \E i \in DOMAIN kept : kept[i] = objs[ex].prevConn[j]
  BY Zenon DEF Replacing, Replaced
<1>2. s # n /\ s # ex => (Holds(s, o)' <=> Holds(s, o))
  BY <1>1, Zenon DEF Holds
<1>3. Holds(ex, o)' => o = ex
  BY <1>1 DEF Holds
<1>4. Holds(n, o)' <=> o = n \/ \E i \in DOMAIN kept : o = kept[i]
  BY <1>1, Zenon DEF Holds
<1>5. Holds(ex, o) <=> o = ex \/ \E i \in DOMAIN objs[ex].prevConn : o = objs[ex].prevConn[i]
  BY Zenon DEF Holds
<1>6. Holds(n, o)' => o = n \/ Holds(ex, o)
  BY <1>1, <1>4, <1>5
<1>7. Holds(ex, o) => o \in deleted \/ Holds(n, o)'
  BY <1>1, <1>4, <1>5
<1> QED BY <1>2, <1>3, <1>6, <1>7, Zenon

LEMMA ReplacedHasKey ==
  ASSUME IInv, NEW n \in Nat, NEW ex \in Nat, NEW f \in Fds, NEW kept \in Seq(Nat), NEW deleted,
         Replacing(n, ex, f, kept, deleted), NEW o \in DOMAIN objs, HasKey(o)
  PROVE  HasKey(o)'
<1>1. /\ objs'[o].Status = objs[o].Status /\ objs'[o].k = objs[o].k /\ objs'[o].addr = objs[o].addr
      /\ kern' = kern /\ removed \subseteq removed'
  BY Zenon DEF Replacing, Settles, Replaced
<1> SUFFICES ASSUME objs[o].Status = "Connected", objs[o].k \notin removed', SoleUser(objs[o].k)
             PROVE  sockMap'[objs[o].addr] = o
  BY <1>1, Zenon DEF HasKey, SoleUser
<1>2. sockMap[objs[o].addr] = o
  BY <1>1, Zenon DEF HasKey
<1>3. ASSUME NEW p \in deleted, objs[p].addr = objs[o].addr
      PROVE  FALSE
  <2>1. p \in DOMAIN objs /\ objs[p].k \in removed'
    BY Zenon DEF Replacing, Replaced
  <2>2. objs[p].k = objs[o].k
    BY <1>3, <2>1, Zenon DEF SoleUser, IInv, ObjectsOfConnections
  <2> QED BY <2>1, <2>2, Zenon
<1>4. objs[o].addr \in Addrs
  <2>1. objs[o] \in Connection4
    BY Types, Zenon DEF IInv
  <2> QED BY <2>1, Zenon DEF Connection4
<1>5. sockMap'[objs[o].addr] = IF \E p \in deleted : objs[p].addr = objs[o].addr
                               THEN 0 ELSE sockMap[objs[o].addr]
  BY <1>4, Zenon DEF Replacing, Replaced
<1> QED BY <1>2, <1>3, <1>5, Zenon

LEMMA ReplacedKeys ==
  ASSUME IInv, NEW n \in Nat, NEW ex \in Nat, NEW f \in Fds, NEW kept \in Seq(Nat), NEW deleted,
         Replacing(n, ex, f, kept, deleted)
  PROVE  Keys'
<1>0. HeldAfter(n, ex, deleted)
  BY ReplacedHolds, Zenon
<1>1. /\ ex \in DOMAIN objs /\ n \in DOMAIN objs /\ ex # 0 /\ n # 0 /\ objs[ex].fd = f
      /\ n = proc.obj /\ ex = proc.existed /\ f = objs[n].fd
      /\ connMap'[f] = n /\ (\A g \in Fds : g # f => connMap'[g] = connMap[g])
      /\ HasKey(n) /\ (\A g \in Fds : connMap[g] # n) /\ sweep.obj # n
      /\ sweep' = sweep /\ removed \subseteq removed' /\ DOMAIN objs' = DOMAIN objs
  BY Zenon DEF Replacing, Has, Settles, Replaced
<1>2. \A o \in DOMAIN objs : Holds(ex, o) => HasKey(o)
  <2>1. CASE connMap[f] = ex
    BY <1>1, <2>1, Zenon DEF IInv, Keys
  <2>2. CASE connMap[f] # ex
    <3>1. Lost
      BY <1>1, <2>2, Zenon DEF Lost
    <3> QED BY <1>1, <3>1, Zenon DEF IInv, Keys, HasKey
  <2> QED BY <2>1, <2>2
<1>3. ASSUME NEW g \in Fds, NEW o \in DOMAIN objs, NEW s \in DOMAIN objs, s = connMap'[g], Holds(s, o)'
      PROVE  HasKey(o)'
  <2>1. CASE g = f
    <3>1. s = n
      BY <1>1, <1>3, <2>1, Zenon
    <3>2. o = n \/ Holds(ex, o)
      BY <1>0, <1>3, <3>1, Zenon DEF HeldAfter
    <3> QED BY <1>1, <1>2, <3>2, ReplacedHasKey, Zenon
  <2>2. CASE g # f
    <3>1. s = connMap[g] /\ s # 0
      <4>1. s = connMap[g]
        BY <1>1, <1>3, <2>2, Zenon
      <4>2. s # 0
        BY Types DEF IInv
      <4> QED BY <4>1, <4>2, Zenon
    <3>2. s # n /\ s # ex
      BY <1>1, <2>2, <3>1, Zenon DEF IInv, References
    <3>3. Holds(s, o)
      BY <1>0, <1>3, <3>2, Zenon DEF HeldAfter
    <3>4. HasKey(o)
      BY <3>1, <3>3, Zenon DEF IInv, Keys
    <3> QED BY <3>4, ReplacedHasKey, Zenon
  <2> QED BY <2>1, <2>2
<1>4. ASSUME NEW g \in Fds, NEW o \in DOMAIN objs, connMap'[g] # 0, Holds(connMap[g], o)'
      PROVE  HasKey(o)'
  <2>1. PICK s \in DOMAIN objs : s = connMap'[g]
    BY <1>1, <1>4, SettledObjects, Zenon DEF References, Replacing
  <2>2. Holds(s, o)'
    BY <1>4, <2>1, Zenon DEF Holds
  <2> QED BY <1>3, <2>1, <2>2, Zenon
<1>5. ASSUME sweep.obj # 0, NEW o \in DOMAIN objs, Holds(sweep.obj, o)'
      PROVE  objs'[o].k \in removed'
  <2>1. PICK s \in DOMAIN objs : s = sweep.obj
    <3>1. sweep.obj \in 0..Len(objs) /\ DOMAIN objs = 1..Len(objs) /\ Len(objs) \in Nat
      BY Types, Zenon DEF IInv, References
    <3> QED BY <1>5, <3>1
  <2>2. Holds(s, o)' /\ s # n
    BY <1>1, <1>5, <2>1, Zenon DEF Holds
  <2>3. Holds(s, o)
    <3>1. s = ex => o = ex
      BY <1>0, <2>2, Zenon DEF HeldAfter
    <3>2. Holds(ex, ex)
      BY Zenon DEF Holds
    <3> QED BY <1>0, <2>2, <3>1, <3>2, Zenon DEF HeldAfter
  <2>4. objs[o].k \in removed
    BY <1>5, <2>1, <2>3, Zenon DEF IInv, Keys
  <2>5. objs'[o].k = objs[o].k
    BY Zenon DEF Replacing, Settles
  <2> QED BY <1>1, <2>4, <2>5, Zenon
<1>6. ~Lost' /\ proc'.pc = "idle"
  BY Zenon DEF Lost, Idle, Replacing, Settles
<1> QED BY <1>1, <1>4, <1>5, <1>6, Zenon DEF Keys

LEMMA ReplacedKeysHeld ==
  ASSUME IInv, NEW n \in Nat, NEW ex \in Nat, NEW f \in Fds, NEW kept \in Seq(Nat), NEW deleted,
         Replacing(n, ex, f, kept, deleted)
  PROVE  KeysHeld'
<1>0. /\ DOMAIN objs' = DOMAIN objs
      /\ \A o \in DOMAIN objs : objs'[o].addr = objs[o].addr
  BY Zenon DEF Replacing, Settles
<1> SUFFICES ASSUME NEW a \in Addrs, sockMap'[a] # 0
             PROVE  \E s, o \in DOMAIN objs : InUse(s)' /\ Holds(s, o)' /\ objs[o].addr = a
  BY <1>0, Zenon DEF KeysHeld
<1>8. HeldAfter(n, ex, deleted)
  BY ReplacedHolds, Zenon
<1>1. /\ n \in DOMAIN objs /\ n = proc.obj /\ ex = proc.existed
      /\ connMap'[f] = n /\ (\A g \in Fds : g # f => connMap'[g] = connMap[g])
      /\ connMap[f] \in {0, ex} /\ sweep' = sweep
  BY Zenon DEF Replacing, Has, Settles, Replaced
<1>2. sockMap[a] # 0 /\ \A o \in deleted : objs[o].addr # a
  <2>1. sockMap'[a] = IF \E o \in deleted : objs[o].addr = a THEN 0 ELSE sockMap[a]
    BY Zenon DEF Replacing, Replaced
  <2> QED BY <2>1, Zenon
<1>3. PICK s \in DOMAIN objs, o \in DOMAIN objs : InUse(s) /\ Holds(s, o) /\ objs[o].addr = a
  BY <1>2, Zenon DEF IInv, KeysHeld
<1>4. InUse(n)' /\ s # 0
  <2>1. InUse(n)'
    BY <1>1, Zenon DEF InUse
  <2> QED BY <2>1, Types DEF IInv
<1>5. CASE s = n
  <2>1. o = n
    BY <1>3, <1>5 DEF Holds, Replacing, Has
  <2>2. Holds(n, n)'
    BY Zenon DEF Holds
  <2> QED BY <1>1, <1>3, <1>4, <2>1, <2>2, Zenon
<1>6. CASE s = ex
  <2>1. Holds(n, o)'
    BY <1>2, <1>3, <1>6, <1>8, Zenon DEF HeldAfter
  <2> QED BY <1>1, <1>3, <1>4, <2>1, Zenon
<1>7. CASE s # n /\ s # ex
  <2>1. Holds(s, o)'
    BY <1>3, <1>7, <1>8, Zenon DEF HeldAfter
  <2>2. (\E g \in Fds : s = connMap[g]) \/ s = sweep.obj
    BY <1>1, <1>3, <1>7, Zenon DEF InUse
  <2>3. \A g \in Fds : s = connMap[g] => s = connMap'[g]
    BY <1>1, <1>4, <1>7
  <2>4. InUse(s)'
    BY <1>1, <2>2, <2>3, Zenon DEF InUse
  <2> QED BY <1>3, <2>1, <2>4, Zenon
<1> QED BY <1>5, <1>6, <1>7, Zenon

LEMMA ReplacedTrace ==
  ASSUME IInv, NEW n \in Nat, NEW ex \in Nat, NEW f \in Fds, NEW kept \in Seq(Nat), NEW deleted,
         Replacing(n, ex, f, kept, deleted)
  PROVE  TraceStateReachesKernel'
<1>1. /\ connMap'[f] = n /\ (\A g \in Fds : g # f => connMap'[g] = connMap[g]) /\ connInfo' = connInfo
      /\ \A o \in DOMAIN objs : objs'[o].k = objs[o].k /\ objs'[o].tracable = objs[o].tracable
  BY Zenon DEF Replacing, Settles, Replaced
<1> SUFFICES ASSUME NEW g \in Fds, connMap'[g] # 0, connInfo[g].k # 0,
                    objs'[connMap'[g]].tracable = "traceable",
                    objs'[connMap'[g]].k = connInfo[g].k
             PROVE  connInfo[g].noTrace = "traceable"
  BY <1>1, Zenon DEF TraceStateReachesKernel
<1>2. CASE g = f
  BY <1>1, <1>2, Zenon DEF Replacing, Has
<1>3. CASE g # f
  <2>1. connMap'[g] = connMap[g] /\ connMap[g] \in DOMAIN objs
    BY <1>1, <1>3, Zenon DEF IInv, References
  <2>2. objs[connMap[g]].tracable = "traceable" /\ objs[connMap[g]].k = connInfo[g].k
    BY <1>1, <2>1, Zenon
  <2> QED BY <2>1, <2>2 DEF IInv, TraceStateReachesKernel
<1> QED BY <1>2, <1>3, Zenon

LEMMA ReplaceIInv ==
  ASSUME IInv, AddConnection4,
         proc.existed # 0, objs[proc.existed].addr # objs[proc.obj].addr
  PROVE  IInv'
<1>1. PICK ev \in Event, n \in Nat, ex \in Nat, f \in Fds :
         ev = Head(connEvents) /\ (ev.type = "infer" => ex = 0) /\ Has(n, ex, f)
  BY Given, Zenon DEF AddConnection4
<1>2. ex # 0 /\ objs[ex].addr # objs[n].addr
  BY <1>1, Zenon DEF Has
<1>3. PICK kept \in Seq(Nat) : Settles(n, f) /\ \E deleted : Replaced(n, ex, f, kept, deleted)
  BY <1>1, <1>2, ReplaceSettles, Zenon
<1>3a. PICK deleted : Replaced(n, ex, f, kept, deleted)
  BY <1>3, Zenon
<1>4. Replacing(n, ex, f, kept, deleted)
  BY <1>1, <1>2, <1>3, <1>3a, Zenon DEF Replacing
<1>5. ObjectsOfConnections' /\ Keys' /\ KeysHeld' /\ TraceStateReachesKernel'
  BY <1>4, ReplacedObjects, ReplacedKeys, ReplacedKeysHeld, ReplacedTrace, Zenon
<1> QED BY <1>1, <1>3, <1>5, SettledEvents, SettledObjects, Zenon DEF IInv

-----------------------------------------------------------------------------
(* Every step, and the theorems.                                           *)

LEMMA StutterIInv == ASSUME IInv, UNCHANGED vars PROVE IInv'
<1>1. UNCHANGED <<now, kern, connInfo, sockIds, connEvents, dataEvents, objs, connMap, sockMap,
                  proc, closing, sweep, removed>>
  BY Zenon DEF vars, env, tables, history
<1>2. sweep'.obj = sweep.obj /\ sweep' \in [visit : SUBSET Fds, needsDelete : SUBSET Fds, obj : Nat]
  BY <1>1 DEF IInv, Shape
<1> QED BY <1>2, SweepKept, Zenon DEF vars

LEMMA NextIInv == ASSUME IInv, [Next]_vars PROVE IInv'
<1>1. ASSUME NEW f \in Fds, NEW a \in Addrs, create_conn_info(f, a) PROVE IInv'
  BY <1>1, CreateIInv, Zenon
<1>2. ASSUME NEW f \in Fds, process_syscall_close(f) PROVE IInv'
  BY <1>2, CloseSyscallIInv, Zenon
<1>3. ASSUME NEW d \in Kinds \ {"kern"}, NEW f \in Fds, NEW p \in Protocols,
             process_syscall_data(d, f, p)
      PROVE  IInv'
  BY <1>3, DataSyscallIInv, Zenon
<1>4. ASSUME "kern" \in Kinds, NEW k \in DOMAIN kern, report_kern_evt(k) PROVE IInv'
  BY <1>4, PacketIInv, Zenon
<1>5. CASE Kernel
  BY <1>1, <1>2, <1>3, <1>4, <1>5, Zenon DEF Kernel
<1>6. CASE Tick
  BY <1>6, TickIInv, Zenon
<1>7. CASE AddConnection4
  BY <1>7, AddIInv, ReplaceIInv
<1>8. CASE Processor
  BY <1>7, <1>8, NewConnIInv, FindIInv, ProtocolInferIInv, CloseEventIInv, ProcessDataIInv, Zenon
     DEF Processor
<1>9. CASE Closer
  BY <1>9, OnCloseIInv, Zenon DEF Closer
<1>10. CASE Sweeper
  BY <1>10, SweepBeginIInv, SweepVisitIInv, LoadAndDeleteIInv, RemoveKeysIInv, Zenon DEF Sweeper
<1>11. CASE UNCHANGED vars
  BY <1>11, StutterIInv, Zenon
<1> QED BY <1>5, <1>6, <1>8, <1>9, <1>10, <1>11, Zenon DEF Next

\* The invariant holds in every state.
THEOREM Inductive == Spec => []IInv
<1> QED BY InitIInv, NextIInv, PTL DEF Spec

\* Only connections that were closed are marked closed, for any number of
\* descriptors, connections and delayed OnClose calls.
THEOREM ClosedMeansClosed == Spec => []ClosedOnlyAfterClose
<1>1. IInv => ClosedOnlyAfterClose
  BY Zenon DEF IInv
<1> QED BY <1>1, Inductive, PTL

\* A trace state that UpdateConnectionTraceable writes reaches the kernel's entry
\* of the connection it is for, however descriptors are used again.
THEOREM TraceReachesKernel == Spec => []TraceStateReachesKernel
<1>1. IInv => TraceStateReachesKernel
  BY Zenon DEF IInv
<1> QED BY <1>1, Inductive, PTL

LEMMA TypesFollow == ASSUME IInv PROVE TypeOK
<1>1. /\ Shape /\ DOMAIN kern = 1..Len(kern) /\ Len(kern) \in Nat
      /\ \A k \in DOMAIN kern : kern[k] \in KernConn
      /\ DOMAIN objs = 1..Len(objs) /\ Len(objs) \in Nat
      /\ \A o \in DOMAIN objs : objs[o] \in Connection4
  BY Types, Zenon DEF IInv
<1>2. \A k \in DOMAIN kern : kern[k].proto \in Protocols
  BY <1>1, Zenon DEF KernConn
<1>3. connInfo \in [Fds -> [k : 0..Len(kern), noTrace : Traces]]
  <2>1. connInfo \in [Fds -> [k : Nat, noTrace : Traces]]
    BY <1>1, Zenon DEF Shape
  <2>2. \A f \in Fds : connInfo[f].k \in 0..Len(kern)
    BY <1>1, <2>1 DEF IInv, KernelInOrder
  <2>3. \A f \in Fds : connInfo[f] \in [k : 0..Len(kern), noTrace : Traces]
    BY <2>1, <2>2, Zenon
  <2> QED BY <2>1, <2>3, Zenon
<1>4. \A o \in DOMAIN objs :
        /\ objs[o].Protocol \in Protocols
        /\ objs[o].tracable \in Traces
        /\ objs[o].Status \in {"Connected", "Closed"}
  BY <1>1, Zenon DEF Connection4
<1>5. \A o \in DOMAIN objs : \A p \in Range(objs[o].prevConn) :
        p \in 1..(o - 1) /\ objs[p].prevConn = << >>
  <2>1. \A o \in DOMAIN objs : \A i \in DOMAIN objs[o].prevConn :
          objs[o].prevConn[i] \in 1..(o - 1) /\ objs[objs[o].prevConn[i]].prevConn = << >>
    BY Zenon DEF IInv, ObjectsOfConnections
  <2> QED BY <2>1, Zenon DEF Range
<1>6. connMap \in [Fds -> 0..Len(objs)]
  <2>1. connMap \in [Fds -> Nat]
    BY <1>1, Zenon DEF Shape
  <2>2. \A f \in Fds : connMap[f] \in 0..Len(objs)
    BY <1>1, <2>1 DEF IInv, References
  <2> QED BY <2>1, <2>2, Zenon
<1>7. sockMap \in [Addrs -> 0..Len(objs)]
  <2>1. sockMap \in [Addrs -> Nat]
    BY <1>1, Zenon DEF Shape
  <2>2. \A a \in Addrs : sockMap[a] \in 0..Len(objs)
    BY Zenon DEF IInv, References
  <2> QED BY <2>1, <2>2
<1>8. proc.obj \in 0..Len(objs) /\ proc.existed \in 0..Len(objs)
  <2>1. \/ proc.obj = 0 /\ proc.existed = 0
        \/ proc.obj \in DOMAIN objs /\ (proc.existed = 0 \/ proc.existed \in DOMAIN objs)
    <3>1. proc.pc = "idle" => proc.obj = 0 /\ proc.existed = 0
      BY DEF IInv, InHand, Idle
    <3> QED BY <3>1, Zenon DEF IInv, InHand
  <2> QED BY <1>1, <2>1
<1> QED BY <1>1, <1>2, <1>3, <1>4, <1>5, <1>6, <1>7, <1>8 DEF TypeOK, Shape, Objects

\* Socket keys and tracked connections match, in every interleaving of
\* NewConnFromEvent, AddConnection4, OnClose and the sweeper.
THEOREM KeysMatch == Spec => []KeysMatchTracked
<1>1. ASSUME IInv PROVE KeysMatchTracked
  <2>1. TypeOK
    BY <1>1, TypesFollow, Zenon
  <2>2. ASSUME NEW S \in SUBSET (DOMAIN objs), NEW o
        PROVE  o \in WithPrevious(S) <=> \E s \in S : Holds(s, o)
    <3>1. \A s \in S : Range(objs[s].prevConn) = {objs[s].prevConn[i] : i \in DOMAIN objs[s].prevConn}
      BY Zenon DEF Range
    <3> QED BY <3>1 DEF WithPrevious, Holds
  <2>3. Current \in SUBSET (DOMAIN objs)
    BY <1>1, Zenon DEF Current, IInv, References
  <2>4. ASSUME NEW o \in WithPrevious(Current)
        PROVE  HasKey(o)
    <3>1. PICK s \in Current : Holds(s, o)
      BY <2>2, <2>3, Zenon
    <3>2. o \in DOMAIN objs
      BY <1>1, <2>3, <3>1, HeldObjects, Zenon
    <3>3. PICK f \in Fds : s = connMap[f] /\ s # 0
      BY Zenon DEF Current
    <3> QED BY <1>1, <3>1, <3>2, <3>3, Zenon DEF IInv, Keys
  <2> DEFINE hand == Current \cup ({proc.obj, proc.existed, sweep.obj} \ {0})
  <2>5. hand \in SUBSET (DOMAIN objs)
    <3>1. DOMAIN objs = 1..Len(objs) /\ Len(objs) \in Nat
      BY <1>1, Types, Zenon DEF IInv
    <3>2. proc.obj \in 0..Len(objs) /\ proc.existed \in 0..Len(objs)
      BY <2>1, Zenon DEF TypeOK
    <3>3. sweep.obj \in 0..Len(objs)
      BY <1>1, Zenon DEF IInv, References
    <3> QED BY <2>3, <3>1, <3>2, <3>3
  <2>6. ASSUME NEW a \in Addrs, sockMap[a] # 0
        PROVE  \E o \in WithPrevious(hand) : objs[o].addr = a
    <3>1. PICK s \in DOMAIN objs, o \in DOMAIN objs : InUse(s) /\ Holds(s, o) /\ objs[o].addr = a
      BY <1>1, <2>6, Zenon DEF IInv, KeysHeld
    <3>2. s # 0
      BY <1>1, Types DEF IInv
    <3>3. s \in hand
      BY <3>1, <3>2, Zenon DEF InUse, Current
    <3> HIDE DEF hand
    <3>4. o \in WithPrevious(hand)
      BY <2>2, <2>5, <3>1, <3>3, Zenon
    <3> QED BY <3>1, <3>4, Zenon
  <2> QED BY <2>1, <2>4, <2>6, Zenon DEF KeysMatchTracked, HasKey
<1> QED BY <1>1, Inductive, PTL
=============================================================================
