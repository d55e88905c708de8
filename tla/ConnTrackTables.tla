--------------------------- MODULE ConnTrackTables ---------------------------
(***************************************************************************)
(* Proofs about ConnTrack: the steps that make an object, look up the one  *)
(* it follows, and sweep closed objects out of the tables keep the         *)
(* invariant of ConnTrackInvariant.                                        *)
(***************************************************************************)
EXTENDS ConnTrackInvariant

-----------------------------------------------------------------------------
(* A new object.                                                           *)

\* Earlier objects are objects, and of the same descriptor.
LEMMA HeldObjects ==
  ASSUME IInv, NEW s \in DOMAIN objs, NEW o, Holds(s, o)
  PROVE  o \in DOMAIN objs /\ o <= s /\ objs[o].fd = objs[s].fd /\ (o # s => objs[o].prevConn = << >>)
<1>1. DOMAIN objs = 1..Len(objs) /\ Len(objs) \in Nat
  BY Types, Zenon DEF IInv
<1>2. CASE o = s
  BY <1>1, <1>2
<1>3. CASE \E i \in DOMAIN objs[s].prevConn : o = objs[s].prevConn[i]
  BY <1>1, <1>3 DEF IInv, ObjectsOfConnections
<1> QED BY <1>2, <1>3, Zenon DEF Holds

\* The earlier objects of an object.
LEMMA Earlier ==
  ASSUME IInv, NEW o \in DOMAIN objs
  PROVE  /\ objs[o].prevConn \in Seq(Nat)
         /\ \A i \in DOMAIN objs[o].prevConn :
              /\ objs[o].prevConn[i] \in 1..(o - 1) /\ objs[o].prevConn[i] \in DOMAIN objs
              /\ objs[o].prevConn[i] < o
              /\ objs[objs[o].prevConn[i]].prevConn = << >>
              /\ objs[objs[o].prevConn[i]].fd = objs[o].fd
         /\ \A i, j \in DOMAIN objs[o].prevConn :
              i < j => objs[o].prevConn[i] < objs[o].prevConn[j]
<1>1. DOMAIN objs = 1..Len(objs) /\ Len(objs) \in Nat /\ objs[o] \in Connection4
  BY Types, Zenon DEF IInv
<1>2. objs[o].prevConn \in Seq(Nat)
  BY <1>1, Zenon DEF Connection4
<1>3. /\ \A i \in DOMAIN objs[o].prevConn :
              /\ objs[o].prevConn[i] \in 1..(o - 1)
              /\ objs[objs[o].prevConn[i]].prevConn = << >>
              /\ objs[objs[o].prevConn[i]].fd = objs[o].fd
      /\ \A i, j \in DOMAIN objs[o].prevConn :
              i < j => objs[o].prevConn[i] < objs[o].prevConn[j]
  BY Zenon DEF IInv, ObjectsOfConnections
<1>4. \A i \in 1..(o - 1) : i \in DOMAIN objs /\ i < o
  BY <1>1
<1> QED BY <1>2, <1>3, <1>4, Zenon

\* What is true of the connections and of the events stays true when they are left alone.
LEMMA Untouched ==
  ASSUME IInv, UNCHANGED <<now, kern, connInfo, connEvents, objs>>
  PROVE  KernelInOrder' /\ EventsInOrder' /\ ObjectsOfConnections' /\ ClosedOnlyAfterClose'
<1>1. KernelInOrder'
  BY Zenon DEF IInv, KernelInOrder, Open
<1>2. EventsInOrder'
  BY Zenon DEF IInv, EventsInOrder, Open
<1>3. ObjectsOfConnections'
  BY DEF IInv, ObjectsOfConnections
<1>4. ClosedOnlyAfterClose'
  BY Zenon DEF IInv, ClosedOnlyAfterClose, Objects
<1> QED BY <1>1, <1>2, <1>3, <1>4, Zenon

\* NewConnFromEvent makes the object n, which is c, of the event ev.
Makes(n, c, ev) ==
  /\ ev = connEvents[1] /\ 1 \in DOMAIN connEvents /\ ev.type \in {"connect", "infer"}
  /\ ev.k \in DOMAIN kern /\ (ev.type = "infer" => connMap[kern[ev.k].fd] = 0)
  /\ c.k = ev.k /\ c.fd = kern[ev.k].fd /\ c.addr = kern[ev.k].addr /\ c.addr \in Addrs
  /\ c.ConnectStartTs = ev.ts /\ c.Status = "Connected" /\ c.tracable = "unset" /\ c.prevConn = << >>
  /\ n = Len(objs) + 1 /\ n # 0 /\ n \notin DOMAIN objs
  /\ objs' \in Seq(Connection4) /\ Len(objs') = n /\ DOMAIN objs' = 1..n /\ objs'[n] = c
  /\ \A o \in DOMAIN objs : o \in DOMAIN objs' /\ objs'[o] = objs[o]
  /\ \A o \in DOMAIN objs' : o = n \/ o \in DOMAIN objs
  /\ sockMap' \in [Addrs -> Nat] /\ sockMap'[c.addr] = n
  /\ \A a \in Addrs : a # c.addr => sockMap'[a] = sockMap[a]
  /\ proc = Idle /\ proc' = [pc |-> "find", obj |-> n, existed |-> 0]
  /\ now' = now /\ kern' = kern /\ connInfo' = connInfo /\ sockIds' = sockIds
  /\ connEvents' = connEvents /\ dataEvents' = dataEvents /\ connMap' = connMap
  /\ closing' = closing /\ sweep' = sweep /\ removed' = removed

LEMMA NewConnMakes ==
  ASSUME IInv, NewConnFromEvent
  PROVE  \E n \in Nat, c \in Connection4, ev \in Event : Makes(n, c, ev)
<1>1. PICK n \in Nat : /\ n = Len(objs) + 1 /\ n # 0 /\ n \notin DOMAIN objs
                       /\ DOMAIN objs = 1..Len(objs) /\ Len(objs) \in Nat
  BY Types DEF IInv
<1>2. proc.pc = "idle" /\ connEvents # << >> /\ proc = Idle
  BY Zenon DEF NewConnFromEvent, IInv, InHand
<1>3. PICK ev \in Event, f \in Fds, o \in Nat :
        /\ ev = Head(connEvents) /\ ev = connEvents[1] /\ 1 \in DOMAIN connEvents
        /\ ev.k \in DOMAIN kern /\ f = kern[ev.k].fd
        /\ o = connMap[f] /\ LookupConnection4ByTimestamp(f, ev.ts) = o
  BY <1>2, NewestFound, Zenon
<1>4. PICK a \in Addrs : a = kern[ev.k].addr
  <2>1. kern[ev.k] \in KernConn
    BY <1>3, Types, Zenon DEF IInv
  <2> QED BY <2>1, Zenon DEF KernConn
<1>5. PICK c \in Connection4 :
        /\ c = NewConn(ev) /\ c.k = ev.k /\ c.fd = f /\ c.addr = a
        /\ c.ConnectStartTs = ev.ts /\ c.Status = "Connected" /\ c.tracable = "unset"
        /\ c.prevConn = << >>
  <2>1. ev.k \in Nat /\ ev.ts \in Nat /\ ev.proto \in Protocols /\ "unset" \in Traces
    BY Zenon DEF Event, Traces
  <2>2. PICK c : c = [k |-> ev.k, fd |-> f, addr |-> a, ConnectStartTs |-> ev.ts, CloseTs |-> 0,
                      Status |-> "Connected", Protocol |-> ev.proto, tracable |-> "unset",
                      prevConn |-> << >>, temp |-> << >>]
    BY Zenon
  <2>3. c \in Connection4
    BY <2>1, <2>2 DEF Connection4
  <2>4. c = NewConn(ev)
    BY <1>3, <1>4, <2>2, Zenon DEF NewConn
  <2> QED BY <2>2, <2>3, <2>4
<1>6. /\ ev.type \in {"connect", "infer"} /\ (ev.type = "infer" => connMap[f] = 0)
      /\ objs' = Append(objs, c)
      /\ sockMap' = [sockMap EXCEPT ![a] = n]
      /\ proc' = [pc |-> "find", obj |-> n, existed |-> 0]
      /\ UNCHANGED <<now, kern, connInfo, sockIds, connEvents, dataEvents, connMap, closing, sweep,
                     removed>>
  BY <1>1, <1>3, <1>4, <1>5, Zenon DEF NewConnFromEvent, env, history
<1>7. objs \in Seq(Connection4) /\ sockMap \in [Addrs -> Nat]
  BY Zenon DEF IInv, Shape
<1>8. /\ objs' \in Seq(Connection4) /\ Len(objs') = n /\ DOMAIN objs' = 1..n /\ objs'[n] = c
      /\ \A p \in DOMAIN objs : p \in DOMAIN objs' /\ objs'[p] = objs[p]
      /\ \A p \in DOMAIN objs' : p = n \/ p \in DOMAIN objs
  BY <1>1, <1>6, <1>7
<1>9. /\ sockMap' \in [Addrs -> Nat] /\ sockMap'[a] = n
      /\ \A b \in Addrs : b # a => sockMap'[b] = sockMap[b]
  BY <1>6, <1>7, Zenon
<1>10. Makes(n, c, ev)
  BY <1>1, <1>2, <1>3, <1>4, <1>5, <1>6, <1>8, <1>9, Zenon DEF Makes
<1> QED BY <1>10, Zenon

LEMMA MadeObjects ==
  ASSUME IInv, NEW n \in Nat, NEW c \in Connection4, NEW ev \in Event, Makes(n, c, ev)
  PROVE  ObjectsOfConnections'
<1>1. /\ kern' = kern /\ now' = now /\ objs'[n] = c
      /\ \A o \in DOMAIN objs : objs'[o] = objs[o]
      /\ \A o \in DOMAIN objs' : o = n \/ o \in DOMAIN objs
  BY Zenon DEF Makes
<1> SUFFICES ASSUME NEW o \in DOMAIN objs'
             PROVE  /\ objs'[o].k \in DOMAIN kern
                    /\ objs'[o].fd = kern[objs'[o].k].fd
                    /\ objs'[o].addr = kern[objs'[o].k].addr
                    /\ objs'[o].ConnectStartTs <= now
                    /\ \A i \in DOMAIN objs'[o].prevConn :
                         /\ objs'[o].prevConn[i] \in 1..(o - 1)
                         /\ objs'[objs'[o].prevConn[i]].prevConn = << >>
                         /\ objs'[objs'[o].prevConn[i]].fd = objs'[o].fd
                    /\ \A i, j \in DOMAIN objs'[o].prevConn :
                         i < j => objs'[o].prevConn[i] < objs'[o].prevConn[j]
  BY <1>1, Zenon DEF ObjectsOfConnections
<1>2. CASE o = n
  <2>1. c.ConnectStartTs <= now
    BY Zenon DEF IInv, EventsInOrder, Makes
  <2>2. DOMAIN c.prevConn = {}
    BY DEF Makes
  <2>3. c.k \in DOMAIN kern /\ c.fd = kern[c.k].fd /\ c.addr = kern[c.k].addr
    BY Zenon DEF Makes
  <2> QED BY <1>1, <1>2, <2>1, <2>2, <2>3, Zenon
<1>3. CASE o \in DOMAIN objs
  <2>1. \A i \in DOMAIN objs[o].prevConn : /\ objs[o].prevConn[i] \in 1..(o - 1)
                                           /\ objs[o].prevConn[i] \in DOMAIN objs
                                           /\ objs[objs[o].prevConn[i]].prevConn = << >>
                                           /\ objs[objs[o].prevConn[i]].fd = objs[o].fd
    BY <1>3, Earlier, Zenon
  <2>2. /\ objs[o].k \in DOMAIN kern /\ objs[o].fd = kern[objs[o].k].fd
        /\ objs[o].addr = kern[objs[o].k].addr /\ objs[o].ConnectStartTs <= now
        /\ \A i, j \in DOMAIN objs[o].prevConn : i < j => objs[o].prevConn[i] < objs[o].prevConn[j]
    BY <1>3, Zenon DEF IInv, ObjectsOfConnections
  <2> QED BY <1>1, <1>3, <2>1, <2>2, Zenon
<1> QED BY <1>1, <1>2, <1>3, Zenon

LEMMA MadeReferences ==
  ASSUME IInv, NEW n \in Nat, NEW c \in Connection4, NEW ev \in Event, Makes(n, c, ev)
  PROVE  /\ Shape' /\ EventsToCome' /\ References' /\ InHand'
         /\ ClosedOnlyAfterClose' /\ TraceStateReachesKernel'
<1>1. /\ DOMAIN objs = 1..Len(objs) /\ Len(objs) \in Nat
      /\ DOMAIN connEvents = 1..Len(connEvents) /\ Len(connEvents) \in Nat
  BY Types, Zenon DEF IInv
<1>2. /\ kern' = kern /\ now' = now /\ connEvents' = connEvents /\ connMap' = connMap
      /\ connInfo' = connInfo /\ objs'[n] = c /\ n # 0 /\ n = Len(objs) + 1
      /\ proc' = [pc |-> "find", obj |-> n, existed |-> 0] /\ sweep' = sweep /\ closing' = closing
      /\ DOMAIN objs' = 1..n /\ Len(objs') = n
      /\ \A o \in DOMAIN objs : o \in DOMAIN objs' /\ objs'[o] = objs[o]
      /\ \A o \in DOMAIN objs' : o = n \/ o \in DOMAIN objs
  BY Zenon DEF Makes
<1>3. Shape'
  BY Zenon DEF Shape, IInv, Makes
<1>4. EventsToCome'
  <2> SUFFICES ASSUME NEW o \in DOMAIN objs', NEW i \in DOMAIN connEvents, o = n => i > 1
               PROVE  /\ objs'[o].ConnectStartTs < connEvents[i].ts
                      /\ objs'[o].fd = kern[connEvents[i].k].fd => objs'[o].k <= connEvents[i].k
                      /\ connEvents[i].type = "connect" => objs'[o].k # connEvents[i].k
    BY <1>2, Zenon DEF EventsToCome
  <2>1. CASE o = n
    <3>1. 1 \in DOMAIN connEvents /\ c.k = connEvents[1].k /\ c.ConnectStartTs = connEvents[1].ts
          /\ c.fd = kern[connEvents[1].k].fd
      BY Zenon DEF Makes
    <3> QED BY <1>2, <2>1, <3>1 DEF IInv, EventsInOrder
  <2>2. CASE o \in DOMAIN objs
    <3>1. proc.pc = "idle"
      BY Zenon DEF Makes, Idle
    <3> QED BY <1>2, <2>2, <3>1, Zenon DEF IInv, EventsToCome
  <2> QED BY <1>2, <2>1, <2>2, Zenon
<1>5. References'
  <2>1. \A a \in Addrs : sockMap'[a] \in 0..n
    <3>1. \A a \in Addrs : sockMap'[a] = n \/ sockMap'[a] = sockMap[a]
      BY Zenon DEF Makes
    <3>2. \A a \in Addrs : sockMap[a] \in 0..Len(objs)
      BY Zenon DEF IInv, References
    <3> QED BY <1>1, <1>2, <3>1, <3>2
  <2>2. sweep.obj \in 0..n
    BY <1>1, <1>2 DEF IInv, References
  <2>3. \A f \in Fds : connMap[f] # 0 => connMap[f] \in DOMAIN objs' /\ objs'[connMap[f]].fd = f
    BY <1>2, Zenon DEF IInv, References
  <2>4. \A x \in closing : x.obj \in DOMAIN objs' /\ kern[objs'[x.obj].k].end # 0
    BY <1>2, Zenon DEF IInv, References, Open
  <2> QED BY <1>2, <2>1, <2>2, <2>3, <2>4, Zenon DEF References, Open
<1>6. InHand'
  <2>1. (\A f \in Fds : connMap[f] # n) /\ sweep.obj # n
    BY <1>1, <1>2 DEF IInv, References
  <2>2. n \in DOMAIN objs' /\ n = Len(objs')
    BY <1>1, <1>2
  <2> QED BY <1>2, <2>1, <2>2 DEF InHand, Makes
<1>7. ClosedOnlyAfterClose'
  <2>1. c.Status = "Connected"
    BY Zenon DEF Makes
  <2> QED BY <1>2, <2>1, Zenon DEF IInv, ClosedOnlyAfterClose, Objects
<1>8. TraceStateReachesKernel'
  BY <1>2, Zenon DEF IInv, References, TraceStateReachesKernel
<1> QED BY <1>3, <1>4, <1>5, <1>6, <1>7, <1>8, Zenon

LEMMA MadeKeys ==
  ASSUME IInv, NEW n \in Nat, NEW c \in Connection4, NEW ev \in Event, Makes(n, c, ev)
  PROVE  Keys' /\ KeysHeld'
<1>1. /\ DOMAIN objs = 1..Len(objs) /\ Len(objs) \in Nat /\ n # 0 /\ objs'[n] = c /\ n \in DOMAIN objs'
      /\ \A o \in DOMAIN objs : o \in DOMAIN objs' /\ objs'[o] = objs[o]
      /\ kern' = kern /\ removed' = removed /\ connMap' = connMap /\ sweep' = sweep
      /\ proc' = [pc |-> "find", obj |-> n, existed |-> 0] /\ proc = Idle
      /\ sockMap'[c.addr] = n /\ c.addr \in Addrs
      /\ \A a \in Addrs : a # c.addr => sockMap'[a] = sockMap[a]
  BY Types DEF IInv, Makes
<1>2. \A s \in DOMAIN objs : \A o : Holds(s, o)' <=> Holds(s, o)
  BY <1>1, Zenon DEF Holds
<1>3. ASSUME NEW f \in Fds, NEW o \in DOMAIN objs, connMap[f] # 0, Holds(connMap[f], o)
      PROVE  HasKey(o)'
  <2>1. connMap[f] \in DOMAIN objs /\ objs[connMap[f]].fd = f /\ HasKey(o)
    BY <1>3, Zenon DEF IInv, References, Keys
  <2>2. objs[o].fd = f
    BY <1>3, <2>1, HeldObjects, Zenon
  <2>3. /\ objs[o].k \in DOMAIN kern /\ objs[o].fd = kern[objs[o].k].fd
        /\ objs[o].addr = kern[objs[o].k].addr /\ objs[o].addr \in Addrs
    <3>1. objs[o] \in Connection4
      BY Types, Zenon DEF IInv
    <3>2. objs[o].addr \in Addrs
      BY <3>1, Zenon DEF Connection4
    <3> QED BY <3>2, Zenon DEF IInv, ObjectsOfConnections
  <2>4. objs[o].k # ev.k
    <3>1. CASE ev.type = "connect"
      <4>1. proc.pc = "idle"
        BY <1>1, Zenon DEF Idle
      <4> QED BY <3>1, <4>1, Zenon DEF IInv, EventsToCome, Makes
    <3>2. CASE ev.type = "infer"
      BY <1>3, <2>2, <2>3, <3>2, Zenon DEF Makes
    <3> QED BY <3>1, <3>2, Zenon DEF Makes
  <2>5. SoleUser(objs[o].k) => objs[o].addr # c.addr
    BY <2>3, <2>4, Zenon DEF SoleUser, Makes
  <2>6. SoleUser(objs[o].k)' <=> SoleUser(objs[o].k)
    BY <1>1, Zenon DEF SoleUser
  <2> QED BY <1>1, <2>1, <2>3, <2>5, <2>6 DEF HasKey, SoleUser
<1>4. Keys'
  <2>1. ASSUME NEW f \in Fds, NEW o \in DOMAIN objs', connMap[f] # 0, Holds(connMap[f], o)'
        PROVE  HasKey(o)'
    <3>1. PICK s \in DOMAIN objs : s = connMap[f]
      BY <2>1, Zenon DEF IInv, References
    <3>2. Holds(s, o)'
      BY <1>1, <2>1, <3>1, Zenon DEF Holds
    <3>3. Holds(s, o) /\ o \in DOMAIN objs
      BY <1>2, <3>2, HeldObjects, Zenon
    <3> QED BY <1>3, <2>1, <3>1, <3>3, Zenon
  <2>2. HasKey(n)'
    BY <1>1, Zenon DEF HasKey
  <2>3. ASSUME sweep.obj # 0, NEW o \in DOMAIN objs', Holds(sweep.obj, o)'
        PROVE  objs'[o].k \in removed
    <3>1. PICK s \in DOMAIN objs : s = sweep.obj
      BY <1>1, <2>3 DEF IInv, References
    <3>2. Holds(s, o)'
      BY <1>1, <2>3, <3>1, Zenon DEF Holds
    <3>3. Holds(s, o) /\ o \in DOMAIN objs
      BY <1>2, <3>2, HeldObjects, Zenon
    <3> QED BY <1>1, <2>3, <3>1, <3>3, Zenon DEF IInv, Keys
  <2>4. ~Lost'
    BY <1>1, Zenon DEF Lost
  <2>5. proc'.obj = n
    BY <1>1, Zenon
  <2> QED BY <1>1, <2>1, <2>2, <2>3, <2>4, <2>5, Zenon DEF Keys
<1>5. KeysHeld'
  <2> SUFFICES ASSUME NEW a \in Addrs, sockMap'[a] # 0
               PROVE  \E s, o \in DOMAIN objs' : InUse(s)' /\ Holds(s, o)' /\ objs'[o].addr = a
    BY Zenon DEF KeysHeld
  <2>1. CASE a = c.addr
    <3>1. InUse(n)' /\ Holds(n, n)' /\ objs'[n].addr = a
      BY <1>1, <2>1, Zenon DEF InUse, Holds
    <3> QED BY <1>1, <3>1, Zenon
  <2>2. CASE a # c.addr
    <3>1. PICK s \in DOMAIN objs, o \in DOMAIN objs : InUse(s) /\ Holds(s, o) /\ objs[o].addr = a
      BY <1>1, <2>2, Zenon DEF IInv, KeysHeld
    <3>2. InUse(s)'
      BY <1>1, <3>1, Zenon DEF InUse, Idle
    <3> QED BY <1>1, <1>2, <3>1, <3>2, Zenon
  <2> QED BY <2>1, <2>2, Zenon
<1> QED BY <1>4, <1>5, Zenon

LEMMA NewConnIInv == ASSUME IInv, NewConnFromEvent PROVE IInv'
<1>1. PICK n \in Nat, c \in Connection4, ev \in Event : Makes(n, c, ev)
  BY NewConnMakes, Zenon
<1>2. KernelInOrder' /\ EventsInOrder'
  BY <1>1 DEF IInv, KernelInOrder, EventsInOrder, Open, Makes
<1> QED BY <1>1, <1>2, MadeObjects, MadeReferences, MadeKeys, Zenon DEF IInv

LEMMA FindIInv == ASSUME IInv, FindConnection4Exactly PROVE IInv'
<1> DEFINE n == proc.obj
           f == objs[n].fd
<1>1. /\ proc.pc = "find"
      /\ proc' = [proc EXCEPT !.pc = "add", !.existed = connMap[f]]
      /\ UNCHANGED <<now, kern, connInfo, sockIds, connEvents, dataEvents, objs, connMap, sockMap,
                     closing, sweep, removed>>
  BY Zenon DEF FindConnection4Exactly, env, tables, history
<1>2. /\ Shape /\ proc \in [pc : {"idle", "find", "add"}, obj : Nat, existed : Nat]
      /\ connMap \in [Fds -> Nat] /\ objs \in Seq(Connection4)
  BY Zenon DEF IInv, Shape
<1>3. n \in DOMAIN objs /\ proc.existed = 0 /\ proc.pc # "idle" /\ f \in Fds /\ connMap[f] # n
  <2>1. n \in DOMAIN objs /\ proc.existed = 0 /\ proc.pc # "idle" /\ \A g \in Fds : connMap[g] # n
    BY <1>1, Zenon DEF IInv, InHand
  <2>2. objs[n] \in Connection4
    BY <1>2, <2>1
  <2> QED BY <2>1, <2>2, Zenon DEF Connection4
<1>4. proc'.pc = "add" /\ proc'.obj = n /\ proc'.existed = connMap[f]
      /\ proc' \in [pc : {"idle", "find", "add"}, obj : Nat, existed : Nat]
  BY <1>1, <1>2, <1>3, Zenon
<1>5. Shape'
  BY <1>1, <1>2, <1>4, Zenon DEF Shape
<1>6. /\ KernelInOrder' /\ EventsInOrder' /\ ObjectsOfConnections' /\ References'
      /\ ClosedOnlyAfterClose' /\ TraceStateReachesKernel'
  <2>1. References' /\ TraceStateReachesKernel'
    BY <1>1, Zenon DEF IInv, References, TraceStateReachesKernel, Open
  <2> QED BY <1>1, <2>1, Untouched, Zenon
<1>7. EventsToCome'
  BY <1>1, <1>3, <1>4 DEF IInv, EventsToCome
<1>8. InHand'
  <2>1. connMap[f] # 0 => connMap[f] \in DOMAIN objs /\ objs[connMap[f]].fd = f
    BY <1>3, Zenon DEF IInv, References
  <2> QED BY <1>1, <1>3, <1>4, <2>1, Zenon DEF IInv, InHand
<1>9. ~Lost'
  BY <1>1, <1>4, Zenon DEF Lost
<1>10. Keys'
  BY <1>1, <1>3, <1>4, <1>9, SMTT(20) DEF IInv, Keys, Holds, HasKey, SoleUser
<1>11. KeysHeld'
  <2> SUFFICES ASSUME NEW a \in Addrs, sockMap[a] # 0
               PROVE  \E s, o \in DOMAIN objs : InUse(s)' /\ Holds(s, o) /\ objs[o].addr = a
    BY <1>1 DEF KeysHeld, Holds
  <2>1. PICK s \in DOMAIN objs, o \in DOMAIN objs : InUse(s) /\ Holds(s, o) /\ objs[o].addr = a
    BY Zenon DEF IInv, KeysHeld
  <2>2. s # 0
    BY <1>2
  <2>3. InUse(s)'
    BY <1>1, <1>3, <1>4, <2>1, <2>2, Zenon DEF InUse
  <2> QED BY <2>1, <2>3, Zenon
<1> QED BY <1>5, <1>6, <1>7, <1>8, <1>10, <1>11, Zenon DEF IInv

-----------------------------------------------------------------------------
(* The sweeper.                                                            *)

\* Looking for closed connections changes none of what is in hand.
LEMMA SweepKept ==
  ASSUME IInv, sweep'.obj = sweep.obj,
         sweep' \in [visit : SUBSET Fds, needsDelete : SUBSET Fds, obj : Nat],
         UNCHANGED <<now, env, connEvents, dataEvents, tables, proc, closing, history>>
  PROVE  IInv'
<1>1. UNCHANGED <<now, kern, connInfo, sockIds, connEvents, dataEvents, objs, connMap, sockMap,
                  proc, closing, removed>>
  BY Zenon DEF env, tables, history
<1>2. Shape'
  BY <1>1, Zenon DEF IInv, Shape
<1>3. /\ KernelInOrder' /\ EventsInOrder' /\ ObjectsOfConnections' /\ EventsToCome'
      /\ References' /\ InHand' /\ ClosedOnlyAfterClose' /\ TraceStateReachesKernel'
  <2>1. EventsToCome' /\ TraceStateReachesKernel'
    BY <1>1 DEF IInv, EventsToCome, TraceStateReachesKernel
  <2>2. References' /\ InHand'
    BY <1>1, Zenon DEF IInv, References, InHand, Open
  <2> QED BY <1>1, <2>1, <2>2, Untouched, Zenon
<1>4. Keys'
  BY <1>1 DEF IInv, Keys, Lost, Holds, HasKey, SoleUser
<1>5. KeysHeld'
  BY <1>1 DEF IInv, KeysHeld, InUse, Holds
<1> QED BY <1>2, <1>3, <1>4, <1>5, Zenon DEF IInv

LEMMA SweepBeginIInv == ASSUME IInv, SweepBegin PROVE IInv'
<1>1. sweep = Resting /\ sweep' = [Resting EXCEPT !.visit = Fds]
      /\ UNCHANGED <<now, env, connEvents, dataEvents, tables, proc, closing, history>>
  BY Zenon DEF SweepBegin
<1>2. sweep'.obj = sweep.obj /\ sweep' \in [visit : SUBSET Fds, needsDelete : SUBSET Fds, obj : Nat]
  BY <1>1, Zenon DEF Resting
<1> QED BY <1>1, <1>2, SweepKept, Zenon

LEMMA SweepVisitIInv == ASSUME IInv, NEW f \in Fds, SweepVisit(f) PROVE IInv'
<1>1. sweep' = [sweep EXCEPT !.visit = @ \ {f},
                             !.needsDelete = IF IsClosed(f) THEN @ \cup {f} ELSE @]
      /\ UNCHANGED <<now, env, connEvents, dataEvents, tables, proc, closing, history>>
  BY Zenon DEF SweepVisit
<1>2. sweep \in [visit : SUBSET Fds, needsDelete : SUBSET Fds, obj : Nat]
  BY Zenon DEF IInv, Shape
<1>3. sweep'.obj = sweep.obj /\ sweep' \in [visit : SUBSET Fds, needsDelete : SUBSET Fds, obj : Nat]
  BY <1>1, <1>2, Zenon
<1> QED BY <1>1, <1>3, SweepKept, Zenon

\* WithPrevious of one object are the objects it holds.
LEMMA PreviousHeld ==
  ASSUME NEW s
  PROVE  \A o : o \in WithPrevious({s}) <=> Holds(s, o)
<1>1. WithPrevious({s}) = {s} \cup Range(objs[s].prevConn)
  BY Zenon DEF WithPrevious
<1>2. Range(objs[s].prevConn) = {objs[s].prevConn[i] : i \in DOMAIN objs[s].prevConn}
  BY Zenon DEF Range
<1> QED BY <1>1, <1>2, Zenon DEF Holds

LEMMA LoadAndDeleteIInv == ASSUME IInv, NEW f \in Fds, SweepLoadAndDelete(f) PROVE IInv'
<1>0. PICK s \in Nat : s = connMap[f]
  BY Zenon DEF IInv, Shape
<1>1. /\ sweep.obj = 0
      /\ sweep' = [sweep EXCEPT !.needsDelete = @ \ {f}, !.obj = s]
      /\ connMap' = [connMap EXCEPT ![f] = 0]
      /\ removed' = removed \cup {objs[o].k : o \in WithPrevious({s} \ {0})}
      /\ UNCHANGED <<now, kern, connInfo, sockIds, connEvents, dataEvents, objs, sockMap, proc, closing>>
  BY <1>0, Zenon DEF SweepLoadAndDelete, env
<1>2. /\ Shape /\ sweep \in [visit : SUBSET Fds, needsDelete : SUBSET Fds, obj : Nat]
      /\ connMap \in [Fds -> Nat] /\ objs \in Seq(Connection4)
      /\ DOMAIN objs = 1..Len(objs) /\ Len(objs) \in Nat
  BY Types, Zenon DEF IInv, Shape
<1>3. sweep'.obj = s /\ sweep' \in [visit : SUBSET Fds, needsDelete : SUBSET Fds, obj : Nat]
  BY <1>1, <1>2, Zenon
<1>4. /\ connMap' \in [Fds -> Nat] /\ connMap'[f] = 0
      /\ \A g \in Fds : g # f => connMap'[g] = connMap[g]
  BY <1>1, <1>2, Zenon
<1>5. /\ removed \subseteq removed'
      /\ s # 0 => s \in DOMAIN objs /\ objs[s].fd = f
      /\ s # 0 => \A o : Holds(s, o) => objs[o].k \in removed'
  <2>1. s # 0 => {s} \ {0} = {s}
    BY Zenon
  <2>2. s # 0 => s \in DOMAIN objs /\ objs[s].fd = f
    BY <1>0, Zenon DEF IInv, References
  <2>3. s # 0 => \A o : Holds(s, o) => objs[o].k \in removed'
    BY <1>1, <2>1, PreviousHeld, Zenon
  <2> QED BY <1>1, <2>2, <2>3, Zenon
<1>6. Shape'
  BY <1>1, <1>2, <1>3, <1>4, Zenon DEF Shape
<1>7. /\ KernelInOrder' /\ EventsInOrder' /\ ObjectsOfConnections' /\ EventsToCome'
      /\ ClosedOnlyAfterClose'
  <2>1. EventsToCome'
    BY <1>1, Zenon DEF IInv, EventsToCome
  <2> QED BY <1>1, <2>1, Untouched, Zenon
<1>8. TraceStateReachesKernel'
  BY <1>1, <1>4, Zenon DEF IInv, TraceStateReachesKernel
<1>9. References'
  <2>1. s \in 0..Len(objs)
    BY <1>2, <1>5
  <2> QED BY <1>1, <1>3, <1>4, <2>1, Zenon DEF IInv, References, Open
<1>10. \A n \in DOMAIN objs : objs[n].fd \in Fds
  <2>1. \A n \in DOMAIN objs : objs[n] \in Connection4
    BY <1>2
  <2> QED BY <2>1, Zenon DEF Connection4
<1>11. InHand'
  <2>1. CASE proc.pc = "idle"
    BY <1>1, <2>1, Zenon DEF IInv, InHand, Idle
  <2>2. CASE proc.pc # "idle"
    <3> DEFINE n == proc.obj
    <3>1. /\ n \in DOMAIN objs /\ objs[n].fd \in Fds /\ n # 0
          /\ \A g \in Fds : connMap[g] # n
          /\ connEvents[1].type = "infer" => connMap[objs[n].fd] = 0 /\ proc.existed = 0
          /\ proc.pc = "add" => connMap[objs[n].fd] \in {0, proc.existed}
      BY <1>2, <1>10, <2>2 DEF IInv, InHand
    <3>2. /\ \A g \in Fds : connMap'[g] # n
          /\ connEvents[1].type = "infer" => connMap'[objs[n].fd] = 0
          /\ proc.pc = "add" => connMap'[objs[n].fd] \in {0, proc.existed}
          /\ s # n
      BY <1>0, <1>4, <3>1, Zenon
    <3> QED BY <1>1, <1>3, <2>2, <3>2, Zenon DEF IInv, InHand
  <2> QED BY <2>1, <2>2, Zenon
<1>12. \A o : HasKey(o) => HasKey(o)'
  BY <1>1, <1>5, Zenon DEF HasKey, SoleUser
<1>13. \A t, o : Holds(t, o)' <=> Holds(t, o)
  BY <1>1, Zenon DEF Holds
<1>14. Keys'
  <2>1. \A g \in Fds, o \in DOMAIN objs : connMap'[g] # 0 /\ Holds(connMap'[g], o) => HasKey(o)'
    BY <1>4, <1>12 DEF IInv, Keys
  <2>2. proc.pc # "idle" => HasKey(proc.obj)'
    BY <1>1, <1>12, Zenon DEF IInv, Keys
  <2>3. Lost' => \A o \in DOMAIN objs : Holds(proc.existed, o) =>
               /\ objs[o].k \in removed'
               /\ s # proc.existed => sockMap[objs[o].addr] = 0
    <3>1. CASE Lost
      BY <1>1, <1>5, <3>1, Zenon DEF IInv, Keys, Lost
    <3>2. CASE ~Lost /\ Lost'
      <4>1. proc.existed # 0 /\ connMap[objs[proc.obj].fd] = proc.existed
            /\ connMap'[objs[proc.obj].fd] # proc.existed
        BY <1>1, <3>2, Zenon DEF Lost
      <4>2. proc.obj \in DOMAIN objs
        BY <4>1 DEF IInv, InHand, Idle
      <4>3. s = proc.existed
        BY <1>0, <1>4, <1>10, <4>1, <4>2, Zenon
      <4> QED BY <1>5, <4>1, <4>3, Zenon
    <3> QED BY <3>1, <3>2, Zenon
  <2> QED BY <1>1, <1>3, <1>5, <1>13, <2>1, <2>2, <2>3, Zenon DEF Keys
<1>15. KeysHeld'
  <2> SUFFICES ASSUME NEW a \in Addrs, sockMap[a] # 0
               PROVE  \E t, o \in DOMAIN objs : InUse(t)' /\ Holds(t, o) /\ objs[o].addr = a
    BY <1>1, <1>13, Zenon DEF KeysHeld
  <2>1. PICK t \in DOMAIN objs, o \in DOMAIN objs : InUse(t) /\ Holds(t, o) /\ objs[o].addr = a
    BY Zenon DEF IInv, KeysHeld
  <2>2. t # 0
    BY <1>2
  <2>3. InUse(t)'
    BY <1>0, <1>1, <1>3, <1>4, <2>1, <2>2, Zenon DEF InUse
  <2> QED BY <2>1, <2>3, Zenon
<1> QED BY <1>6, <1>7, <1>8, <1>9, <1>11, <1>14, <1>15, Zenon DEF IInv

LEMMA RemoveKeysIInv == ASSUME IInv, SweepRemoveKeys PROVE IInv'
<1>0. PICK s \in Nat : s = sweep.obj
  BY Zenon DEF IInv, Shape
<1>1. /\ s # 0
      /\ sockMap' = RemoveConnFromSockKeyMap(sockMap, {s})
      /\ sweep' = [sweep EXCEPT !.obj = 0]
      /\ UNCHANGED <<now, kern, connInfo, sockIds, connEvents, dataEvents, objs, connMap, proc, closing,
                     removed>>
  BY <1>0, Zenon DEF SweepRemoveKeys, env, history
<1>2. /\ Shape /\ sweep \in [visit : SUBSET Fds, needsDelete : SUBSET Fds, obj : Nat]
      /\ sockMap \in [Addrs -> Nat]
      /\ DOMAIN objs = 1..Len(objs) /\ Len(objs) \in Nat /\ s \in DOMAIN objs
  BY <1>0, <1>1, Types, SMTT(20) DEF IInv, Shape, References
<1>3. sweep'.obj = 0 /\ sweep' \in [visit : SUBSET Fds, needsDelete : SUBSET Fds, obj : Nat]
  BY <1>1, <1>2, Zenon
<1>4. \A a \in Addrs : sockMap'[a] = IF \E o : Holds(s, o) /\ objs[o].addr = a THEN 0 ELSE sockMap[a]
  <2>1. \A a \in Addrs : sockMap'[a] = IF \E o \in WithPrevious({s}) : objs[o].addr = a
                                       THEN 0 ELSE sockMap[a]
    BY <1>1, Zenon DEF RemoveConnFromSockKeyMap
  <2> QED BY <2>1, PreviousHeld, Zenon
<1>5. sockMap' \in [Addrs -> Nat]
  <2>1. sockMap' = [a \in Addrs |-> IF \E o \in WithPrevious({s}) : objs[o].addr = a
                                    THEN 0 ELSE sockMap[a]]
    BY <1>1, Zenon DEF RemoveConnFromSockKeyMap
  <2> QED BY <1>2, <2>1, Zenon
<1>6. Shape'
  BY <1>1, <1>2, <1>3, <1>5, Zenon DEF Shape
<1>7. /\ KernelInOrder' /\ EventsInOrder' /\ ObjectsOfConnections' /\ EventsToCome'
      /\ ClosedOnlyAfterClose' /\ TraceStateReachesKernel'
  <2>1. EventsToCome' /\ TraceStateReachesKernel'
    BY <1>1, Zenon DEF IInv, EventsToCome, TraceStateReachesKernel
  <2> QED BY <1>1, <2>1, Untouched, Zenon
<1>8. References'
  <2>1. \A a \in Addrs : sockMap'[a] \in 0..Len(objs)
    BY <1>2, <1>4 DEF IInv, References
  <2>2. sweep'.obj \in 0..Len(objs)
    BY <1>2, <1>3
  <2>3. /\ \A f \in Fds : connMap[f] # 0 => connMap[f] \in DOMAIN objs /\ objs[connMap[f]].fd = f
        /\ \A c \in closing : c.obj \in DOMAIN objs /\ ~Open(objs[c.obj].k)
    BY Zenon DEF IInv, References
  <2> QED BY <1>1, <2>1, <2>2, <2>3, Zenon DEF References, Open
<1>9. InHand'
  BY <1>1, <1>2, <1>3 DEF IInv, InHand
<1>10. \A t, o : Holds(t, o)' <=> Holds(t, o)
  BY <1>1, Zenon DEF Holds
<1>11. \A o \in DOMAIN objs : objs[o].k \in DOMAIN kern /\ objs[o].addr = kern[objs[o].k].addr
                              /\ objs[o].addr \in Addrs
  <2>1. \A o \in DOMAIN objs : objs[o] \in Connection4
    BY <1>2, Types, Zenon
  <2> QED BY <2>1, Zenon DEF IInv, ObjectsOfConnections, Connection4
<1>12. ASSUME NEW o \in DOMAIN objs, HasKey(o)
       PROVE  HasKey(o)'
  <2> SUFFICES ASSUME objs[o].Status = "Connected", objs[o].k \notin removed, SoleUser(objs[o].k)
               PROVE  sockMap'[objs[o].addr] = o
    BY <1>1, Zenon DEF HasKey, SoleUser
  <2>1. sockMap[objs[o].addr] = o
    BY <1>12, Zenon DEF HasKey
  <2>2. ASSUME NEW p, Holds(s, p), objs[p].addr = objs[o].addr
        PROVE  FALSE
    <3>1. p \in DOMAIN objs
      BY <1>2, <2>2, HeldObjects, Zenon
    <3>2. objs[p].k \in removed
      BY <1>0, <1>1, <2>2, <3>1, Zenon DEF IInv, Keys
    <3>3. objs[p].k = objs[o].k
      BY <1>11, <2>2, <3>1, Zenon DEF SoleUser
    <3> QED BY <3>2, <3>3, Zenon
  <2> QED BY <1>4, <1>11, <2>1, <2>2, Zenon
<1>13. Keys'
  <2>0. \A f \in Fds : connMap[f] # 0 => connMap[f] \in DOMAIN objs
    BY Zenon DEF IInv, References
  <2>1. \A f \in Fds, o \in DOMAIN objs : connMap[f] # 0 /\ Holds(connMap[f], o) => HasKey(o)'
    BY <1>12, <2>0, Zenon DEF IInv, Keys
  <2>2. proc.pc # "idle" => HasKey(proc.obj)'
    <3>1. proc.pc # "idle" => proc.obj \in DOMAIN objs
      BY Zenon DEF IInv, InHand
    <3>2. proc.pc # "idle" => HasKey(proc.obj)
      BY Zenon DEF IInv, Keys
    <3>3. PICK n \in Nat : n = proc.obj
      BY Zenon DEF IInv, Shape
    <3>4. proc.pc # "idle" => HasKey(n)'
      BY <1>12, <3>1, <3>2, <3>3, Zenon
    <3> QED BY <1>1, <3>3, <3>4, Zenon
  <2>3. Lost' <=> Lost
    BY <1>1, Zenon DEF Lost
  <2>4. ASSUME Lost, NEW o \in DOMAIN objs, Holds(proc.existed, o)
        PROVE  objs[o].k \in removed /\ sockMap'[objs[o].addr] = 0
    <3>1. objs[o].k \in removed /\ (s # proc.existed => sockMap[objs[o].addr] = 0)
      BY <1>0, <2>4, Zenon DEF IInv, Keys
    <3>2. CASE s = proc.existed
      BY <1>4, <1>11, <2>4, <3>1, <3>2, Zenon
    <3>3. CASE s # proc.existed
      BY <1>4, <1>11, <3>1, <3>3, Zenon
    <3> QED BY <3>2, <3>3, Zenon
  <2> QED BY <1>1, <1>3, <1>10, <2>1, <2>2, <2>3, <2>4, Zenon DEF Keys
<1>14. KeysHeld'
  <2> SUFFICES ASSUME NEW a \in Addrs, sockMap'[a] # 0
               PROVE  \E t, o \in DOMAIN objs : InUse(t)' /\ Holds(t, o) /\ objs[o].addr = a
    BY <1>1, <1>10, Zenon DEF KeysHeld
  <2>1. PICK t \in DOMAIN objs, o \in DOMAIN objs : InUse(t) /\ Holds(t, o) /\ objs[o].addr = a
    BY <1>4, Zenon DEF IInv, KeysHeld
  <2>2. t # s
    BY <1>4, <2>1, Zenon
  <2>3. InUse(t)'
    BY <1>0, <1>1, <2>1, <2>2, Zenon DEF InUse
  <2> QED BY <2>1, <2>3, Zenon
<1> QED BY <1>6, <1>7, <1>8, <1>9, <1>13, <1>14, Zenon DEF IInv
=============================================================================
