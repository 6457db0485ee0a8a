-------------------------- MODULE HandlerProofs --------------------------
(***************************************************************************)
(* The event handlers. Select replaces the handlers of the sockets it is   *)
(* given and the clean-up puts the saved ones back; what follows is that   *)
(* neither takes a handler away from a receive or send in progress, and    *)
(* that no handler of select outlives its call.                            *)
(***************************************************************************)
EXTENDS SingleSelectProofs

\* The Lua code leaves a socket alone while another thread selects it for reading.
NoSharing == "share" \notin Does

\* At most one thread is blocked on a direction of a socket.
OneWaiter == \A t, u \in Threads : waits[t] # None /\ waits[t] = waits[u] => t = u

\* The sockets that the call in the slot reads keep select's handler.
Held ==
  slot # None => \A s \in Socks : Asks(socket[slot], <<s, "r">>)
                                    => hdlr[<<s, "r">>] = "select"

\* A handler is saved only of a socket that the call reads.
SavedIfRead ==
  slot # None => \A i \in DOMAIN socket[slot] :
                   socket[slot][i].prev # None
                     => Asks(socket[slot], <<socket[slot][i].sock, "r">>)

HandlerInv == SlotInv /\ OneWaiter /\ OpsKeepHandlers /\ Held /\ SavedIfRead

\* A thread that is blocked on a socket is blocked on one of its directions.
LEMMA WaitsType ==
  ASSUME TypeOK
  PROVE  \A t \in Threads : waits[t] # None => waits[t] \in Ends
BY DEF TypeOK, CosocketsTypeOK

\* What another operation of the Lua code, the kernel or the event loop does to the
\* handlers leaves the sockets under select alone.
LEMMA CosocketsKeepHandlers ==
  ASSUME NoSharing, HandlerInv, CosocketsNext, UNCHANGED context
  PROVE  OneWaiter' /\ OpsKeepHandlers' /\ Held' /\ SavedIfRead'
<1> DEFINE Goal == OneWaiter' /\ OpsKeepHandlers' /\ Held' /\ SavedIfRead'
<1>0. /\ TypeOK /\ CosocketsTypeOK /\ OneWaiter /\ OpsKeepHandlers /\ Held /\ SavedIfRead
      /\ UNCHANGED <<slot, socket>>
      /\ None \notin Ends
      /\ \A s \in Socks : <<s, "r">> \in Ends
  BY CosocketConstants, EndOf DEF HandlerInv, SlotInv, TypeOK, context, Dirs
<1>1. SavedIfRead'
  BY <1>0 DEF SavedIfRead, Asks
<1>2. CASE UNCHANGED <<waits, hdlr>>
  BY <1>0, <1>1, <1>2 DEF OneWaiter, OpsKeepHandlers, Held, Asks
<1>3. ASSUME NEW t \in Threads, NEW e \in Ends, Block(t, e) PROVE Goal
  <2>1. /\ hdlr' = [hdlr EXCEPT ![e] = "op"]
        /\ waits' = [waits EXCEPT ![t] = e]
        /\ hdlr[<<e[1], "r">>] # "select"
        /\ \A u \in Threads : waits[u] # e
    BY <1>3 DEF Block, MayUse, NoSharing, Waiting
  <2>2. OneWaiter' /\ OpsKeepHandlers'
    BY <1>0, <2>1 DEF OneWaiter, OpsKeepHandlers, CosocketsTypeOK
  <2>3. \A s \in Socks : hdlr[<<s, "r">>] = "select" => hdlr'[<<s, "r">>] = "select"
    BY <1>0, <2>1 DEF CosocketsTypeOK
  <2> QED BY <1>0, <1>1, <2>2, <2>3 DEF Held, Asks
<1>4. ASSUME NEW u \in Threads, NEW e \in Ends, waits[u] = e,
             hdlr' = [hdlr EXCEPT ![e] = "idle"], waits' = [waits EXCEPT ![u] = None]
      PROVE  Goal
  <2>1. OneWaiter' /\ OpsKeepHandlers'
    BY <1>0, <1>4 DEF OneWaiter, OpsKeepHandlers, CosocketsTypeOK
  <2>2. hdlr[e] = "op"
    BY <1>0, <1>4 DEF OpsKeepHandlers
  <2>3. \A s \in Socks : hdlr[<<s, "r">>] = "select" => hdlr'[<<s, "r">>] = "select"
    BY <1>0, <1>4, <2>2 DEF CosocketsTypeOK
  <2> QED BY <1>0, <1>1, <2>1, <2>3 DEF Held, Asks
<1>5. ASSUME NEW t \in Threads, NEW u \in Threads, KillBlocked(t, u) PROVE Goal
  <2>1. /\ hdlr' = [e \in Ends |-> IF waits[u] = e THEN "idle" ELSE hdlr[e]]
        /\ waits' = [waits EXCEPT ![u] = None]
    BY <1>5 DEF KillBlocked
  <2>2. CASE waits[u] = None
    <3>1. hdlr' = hdlr /\ waits' = waits
      BY <1>0, <2>1, <2>2 DEF CosocketsTypeOK
    <3> QED BY <1>2, <3>1
  <2>3. CASE waits[u] # None
    <3>1. waits[u] \in Ends
      BY <1>0, <2>3, WaitsType
    <3>2. hdlr' = [hdlr EXCEPT ![waits[u]] = "idle"]
      BY <1>0, <2>1, <3>1 DEF CosocketsTypeOK
    <3> QED BY <1>4, <2>1, <3>1, <3>2
  <2> QED BY <2>2, <2>3
<1>6. ASSUME NEW e \in Ends, CosocketEvent(e) PROVE Goal
  <2>1. CASE UNCHANGED <<waits, hdlr>>
    BY <1>2, <2>1
  <2>2. CASE ~UNCHANGED <<waits, hdlr>>
    <3>1. /\ hdlr' = [hdlr EXCEPT ![e] = "idle"]
          /\ \E u \in Threads : waits[u] = e /\ waits' = [waits EXCEPT ![u] = None]
      BY <1>6, <2>2 DEF CosocketEvent
    <3> QED BY <1>4, <3>1
  <2> QED BY <2>1, <2>2
<1>7. ASSUME NEW t \in Threads, CosocketLua(t) PROVE Goal
  <2>1. ASSUME NEW s \in Socks,
               ReceiveBuffered(t, s) \/ Receive(t, s) \/ Send(t, s) \/ Close(t, s)
        PROVE  UNCHANGED <<waits, hdlr>>
    BY <2>1 DEF ReceiveBuffered, Receive, Send, Close
  <2>2. Sleep(t) => UNCHANGED <<waits, hdlr>>
    BY DEF Sleep
  <2> QED BY <1>2, <1>3, <1>5, <1>7, <2>1, <2>2 DEF CosocketLua
<1>8. ASSUME NEW t \in Threads, Wake(t) PROVE Goal
  BY <1>2, <1>8 DEF Wake
<1>9. ASSUME NEW s \in Socks, PeerSends(s) \/ PeerCloses(s) \/ Writable(s) \/ Connected(s)
      PROVE  Goal
  BY <1>2, <1>9 DEF PeerSends, PeerCloses, Writable, Connected
<1> QED BY <1>6, <1>7, <1>8, <1>9 DEF CosocketsNext

\* Without sharing, an operation of the Lua code leaves the selected sockets open, and
\* takes no ready flag from them.
LEMMA CosocketsLeaveAlone ==
  ASSUME NoSharing, TypeOK, CosocketsNext, NEW s \in Socks, hdlr[<<s, "r">>] = "select"
  PROVE  /\ sstate[s] = "open" => sstate'[s] = "open"
         /\ ready[<<s, "r">>] => ready'[<<s, "r">>]
<1> DEFINE Goal == /\ sstate[s] = "open" => sstate'[s] = "open"
                   /\ ready[<<s, "r">>] => ready'[<<s, "r">>]
<1> USE DEF TypeOK, CosocketsTypeOK
<1>0. <<s, "r">> \in Ends
  BY EndOf DEF Dirs
<1>1. ASSUME NEW t \in Threads, CosocketLua(t) PROVE Goal
  <2>1. ASSUME NEW x \in Socks, MayUse(t, x) PROVE x # s
    BY <2>1 DEF MayUse, NoSharing
  <2>2. ASSUME NEW x \in Socks, Receive(t, x) PROVE Goal
    <3>1. x # s /\ <<x, "r">> # <<s, "r">>
      BY <2>1, <2>2 DEF Receive
    <3>2. /\ sstate' = sstate \/ sstate' = [sstate EXCEPT ![x] = "closed"]
          /\ ready' = ready \/ \E b \in BOOLEAN : ready' = [ready EXCEPT ![<<x, "r">>] = b]
      BY <2>2 DEF Receive
    <3> QED BY <1>0, <3>1, <3>2
  <2>3. ASSUME NEW x \in Socks, ReceiveBuffered(t, x) \/ Send(t, x) \/ Close(t, x)
        PROVE  Goal
    BY <1>0, <2>1, <2>3 DEF ReceiveBuffered, Send, Close, conn
  <2>4. ASSUME NEW e \in Ends, Block(t, e) PROVE Goal
    BY <2>4 DEF Block
  <2>5. ASSUME NEW u \in Threads, KillBlocked(t, u) PROVE Goal
    BY <2>5 DEF KillBlocked, conn
  <2>6. CASE Sleep(t)
    BY <2>6 DEF Sleep, conn
  <2> QED BY <1>1, <2>2, <2>3, <2>4, <2>5, <2>6 DEF CosocketLua
<1>2. ASSUME NEW t \in Threads, Wake(t) PROVE Goal
  BY <1>2 DEF Wake, conn
<1>3. ASSUME NEW e \in Ends, CosocketEvent(e) PROVE Goal
  BY <1>0, <1>3 DEF CosocketEvent, Report
<1>4. ASSUME NEW x \in Socks, PeerSends(x) \/ PeerCloses(x) \/ Writable(x) \/ Connected(x)
      PROVE  Goal
  BY <1>4 DEF PeerSends, PeerCloses, Writable, Connected, conn
<1> QED BY <1>1, <1>2, <1>3, <1>4 DEF CosocketsNext

\* What the context of a call asks for, in terms of the call's table.
LEMMA AskedByCall ==
  ASSUME NEW c \in Calls
  PROVE  /\ DOMAIN NewSockets(c) = DOMAIN c.table
         /\ \A i \in DOMAIN c.table :
              /\ NewSockets(c)[i].sock = c.table[i].sock
              /\ NewSockets(c)[i].rw = Readwrite(c.table[i])
              /\ NewSockets(c)[i].prev = Saved(c, i)
         /\ \A e : Asks(NewSockets(c), e) <=>
              \E i \in DOMAIN c.table : /\ c.table[i].sock = e[1]
                                        /\ e[2] \in Readwrite(c.table[i])
<1>1. DOMAIN c.table = 1 .. Len(c.table)
  BY TableType
<1>2. /\ DOMAIN NewSockets(c) = DOMAIN c.table
      /\ \A i \in DOMAIN c.table :
           NewSockets(c)[i] = [sock |-> c.table[i].sock, rw |-> Readwrite(c.table[i]),
                               prev |-> Saved(c, i)]
  BY <1>1 DEF NewSockets
<1>3. ASSUME NEW i \in DOMAIN c.table
      PROVE  /\ NewSockets(c)[i].sock = c.table[i].sock
             /\ NewSockets(c)[i].rw = Readwrite(c.table[i])
             /\ NewSockets(c)[i].prev = Saved(c, i)
  <2> DEFINE entry == NewSockets(c)[i]
             s == c.table[i].sock
             rw == Readwrite(c.table[i])
             p == Saved(c, i)
  <2>1. entry = [sock |-> s, rw |-> rw, prev |-> p]
    BY <1>2, <1>3
  <2> HIDE DEF entry, s, rw, p
  <2>2. entry.sock = s /\ entry.rw = rw /\ entry.prev = p
    BY <2>1
  <2> QED BY <2>2 DEF entry, s, rw, p
<1>4. ASSUME NEW e
      PROVE  Asks(NewSockets(c), e) <=>
               \E i \in DOMAIN c.table : /\ c.table[i].sock = e[1]
                                         /\ e[2] \in Readwrite(c.table[i])
  <2> DEFINE list == NewSockets(c)
             D == DOMAIN c.table
  <2>1. DOMAIN list = D /\ \A i \in D : list[i].sock = c.table[i].sock
                                      /\ list[i].rw = Readwrite(c.table[i])
    BY <1>2, <1>3
  <2> HIDE DEF list, D
  <2>2. Asks(list, e) <=> \E i \in D : /\ c.table[i].sock = e[1]
                                      /\ e[2] \in Readwrite(c.table[i])
    BY <2>1 DEF Asks
  <2> QED BY <2>2 DEF list, D
<1> QED BY <1>2, <1>3, <1>4

\* A valid call asks for no direction that a receive or send of another thread waits for.
LEMMA AskedAreFree ==
  ASSUME TypeOK, NEW c \in Calls, Bad(c) = {}, NEW u \in Threads, waits[u] # None
  PROVE  ~Asks(NewSockets(c), waits[u])
<1>1. waits[u] \in Ends
  BY WaitsType
<1>2. SUFFICES ASSUME NEW i \in DOMAIN c.table, c.table[i].sock = waits[u][1],
                      waits[u][2] \in Readwrite(c.table[i])
               PROVE  FALSE
  BY AskedByCall
<1>3. waits[u] = <<c.table[i].sock, waits[u][2]>> /\ waits[u][2] \in {"r", "w"}
  BY <1>1, <1>2, PartsOfEnd DEF Dirs
<1>4. Busy(c.table[i].sock, Readwrite(c.table[i]))
  BY <1>2, <1>3 DEF Busy, Waiting
<1> QED BY <1>4 DEF Bad, BadEntry

\* The clean-up restores no handler over that of a blocked receive.
LEMMA DiscardKeepsOps ==
  ASSUME HandlerInv, Discardable, NEW leaked, ctx_cleanup_and_discard(leaked)
  PROVE  /\ slot' = None
         /\ \A u \in Threads : waits[u] # None => hdlr'[waits[u]] = "op"
<1>1. slot' = None /\ hdlr' = Restored
  BY DEF ctx_cleanup_and_discard
<1>2. ASSUME NEW u \in Threads, waits[u] # None PROVE hdlr'[waits[u]] = "op"
  <2> DEFINE e == waits[u]
  <2>1. e \in Ends /\ e[1] \in Socks /\ e = <<e[1], e[2]>> /\ hdlr[e] = "op"
    BY <1>2, WaitsType, PartsOfEnd DEF HandlerInv, SlotInv, OpsKeepHandlers
  <2>2. ~(e[2] = "r" /\ Entries(e[1]) # {})
    <3> SUFFICES ASSUME e[2] = "r", NEW i \in Entries(e[1]) PROVE FALSE
      OBVIOUS
    <3>1. /\ i \in DOMAIN socket[slot] /\ socket[slot][i].sock = e[1]
          /\ slot # None /\ socket[slot][i].prev # None
      BY DEF Entries, Discardable, PrevSaved
    <3>2. Asks(socket[slot], <<e[1], "r">>)
      BY <3>1 DEF HandlerInv, SavedIfRead
    <3>3. hdlr[<<e[1], "r">>] = "select"
      BY <2>1, <3>1, <3>2 DEF HandlerInv, Held
    <3> QED BY <2>1, <3>3
  <2> QED BY <1>1, <2>1, <2>2 DEF Restored
<1> QED BY <1>1, <1>2

\* select itself.
LEMMA SelectKeepsHandlers ==
  ASSUME HandlerInv, NEW t \in Threads, NEW c \in Calls, Select(t, c)
  PROVE  OneWaiter' /\ OpsKeepHandlers' /\ Held' /\ SavedIfRead'
<1> DEFINE Goal == OneWaiter' /\ OpsKeepHandlers' /\ Held' /\ SavedIfRead'
<1>0. TypeOK /\ OneWaiter /\ OpsKeepHandlers /\ Held /\ SavedIfRead
  BY DEF HandlerInv, SlotInv
<1>1. CASE UNCHANGED <<waits, hdlr, slot, socket>>
  BY <1>0, <1>1 DEF OneWaiter, OpsKeepHandlers, Held, SavedIfRead, Asks
<1>2. CASE SelectBadArgs(t, c) \/ SelectBadEntry(t, c) \/ SelectIoctlError(t, c)
  BY <1>1, <1>2 DEF SelectBadArgs, SelectBadEntry, SelectIoctlError, cosockets, context
<1>3. CASE SelectAlreadyReady(t, c)
  <2>1. CASE DiscardDies("segv_select")
    BY <1>1, <2>1 DEF DiscardDies, Die, context
  <2>2. CASE Discardable /\ ctx_cleanup_and_discard(Len(c.table) + 1) /\ UNCHANGED waits
    <3>1. slot' = None /\ \A u \in Threads : waits[u] # None => hdlr'[waits[u]] = "op"
      BY <2>2, DiscardKeepsOps
    <3> QED BY <1>0, <2>2, <3>1 DEF OneWaiter, OpsKeepHandlers, Held, SavedIfRead
  <2> QED BY <1>3, <2>1, <2>2 DEF SelectAlreadyReady
<1>4. CASE SelectYield(t, c)
  <2>1. /\ waits' = waits /\ slot' = t /\ hdlr' = Installed(c)
        /\ socket'[t] = NewSockets(c)
        /\ Bad(c) = {}
    BY <1>0, <1>4 DEF SelectYield, set_ctx, Valid, TypeOK
  <2>2. OneWaiter' /\ OpsKeepHandlers'
    <3>1. ASSUME NEW u \in Threads, waits[u] # None PROVE hdlr'[waits[u]] = "op"
      BY <1>0, <2>1, <3>1, AskedAreFree, WaitsType DEF Installed, OpsKeepHandlers
    <3> QED BY <1>0, <2>1, <3>1 DEF OneWaiter, OpsKeepHandlers
  <2>3. Held'
    BY <2>1, EndOf DEF Held, Installed, Dirs
  <2>4. SavedIfRead'
    <3>1. ASSUME NEW i \in DOMAIN NewSockets(c), NewSockets(c)[i].prev # None
          PROVE  Asks(NewSockets(c), <<NewSockets(c)[i].sock, "r">>)
      <4>1. i \in DOMAIN c.table /\ Saved(c, i) # None /\ NewSockets(c)[i].sock = c.table[i].sock
        BY <3>1, AskedByCall
      <4>2. Reads(c, c.table[i].sock) # {}
        BY <4>1 DEF Saved
      <4>3. \E j \in DOMAIN c.table : c.table[j].sock = c.table[i].sock
                                      /\ "r" \in Readwrite(c.table[j])
        BY <4>2 DEF Reads
      <4> QED BY <4>1, <4>3, AskedByCall
    <3> QED BY <2>1, <3>1 DEF SavedIfRead
  <2> QED BY <2>2, <2>3, <2>4
<1> QED BY <1>2, <1>3, <1>4 DEF Select

\* Every step keeps HandlerInv, with unshared sockets.
LEMMA HandlerInvNext ==
  ASSUME NoSharing, HandlerInv, [Next]_vars
  PROVE  HandlerInv'
<1>0. /\ TypeOK /\ OneWaiter /\ OpsKeepHandlers /\ Held /\ SavedIfRead
      /\ SlotInv'
  BY SlotInvNext DEF HandlerInv, SlotInv
<1>1. CASE UNCHANGED <<waits, hdlr, slot, socket>>
  BY <1>0, <1>1 DEF HandlerInv, OneWaiter, OpsKeepHandlers, Held, SavedIfRead, Asks
<1>2. ASSUME NEW how, Die(how) \/ DiscardDies(how) PROVE HandlerInv'
  BY <1>1, <1>2 DEF DiscardDies, Die, context
<1>3. ASSUME Discardable, ctx_cleanup_and_discard(0), UNCHANGED waits PROVE HandlerInv'
  <2>1. slot' = None /\ \A u \in Threads : waits[u] # None => hdlr'[waits[u]] = "op"
    BY <1>3, DiscardKeepsOps
  <2> QED BY <1>0, <1>3, <2>1 DEF HandlerInv, OneWaiter, OpsKeepHandlers, Held, SavedIfRead
<1>4. ASSUME Finalize, slot' = None PROVE HandlerInv'
  BY <1>0, <1>4 DEF Finalize, HandlerInv, OneWaiter, OpsKeepHandlers, Held, SavedIfRead
<1>5. ASSUME FinalizeIdle PROVE HandlerInv'
  <2>1. slot = None
    BY <1>0, <1>5 DEF HandlerInv, SlotInv, SlotWaits, TypeOK, FinalizeIdle, Selecting
  <2> QED BY <1>4, <1>5, <2>1 DEF FinalizeIdle, context
<1>6. ASSUME NEW t \in Threads, NEW c \in Calls, Select(t, c) PROVE HandlerInv'
  BY <1>0, <1>6, SelectKeepsHandlers DEF HandlerInv
<1>7. CASE \/ \E e \in Ends : SelectEvent(e)
           \/ \E t \in Threads : timeout_handler(t)
           \/ UNCHANGED vars
  BY <1>1, <1>7 DEF SelectEvent, timeout_handler, vars
<1>8. CASE post_completion_handler
  BY <1>2, <1>3, <1>8 DEF post_completion_handler, ngx_stream_lua_select_resume
<1>9. CASE FreedEvent
  BY <1>2, <1>9 DEF FreedEvent
<1>10. ASSUME NEW t \in Threads, NEW u \in Threads, KillSelecting(t, u) PROVE HandlerInv'
  BY <1>2, <1>3, <1>10 DEF KillSelecting
<1>11. CASE Abort
  <2>1. CASE Discardable /\ ctx_cleanup_and_discard(0) /\ Finalize
    BY <1>4, <2>1 DEF ctx_cleanup_and_discard
  <2> QED BY <1>2, <1>5, <1>11, <2>1 DEF Abort
<1>12. ASSUME NEW t \in Threads, Exit(t) PROVE HandlerInv'
  BY <1>1, <1>5, <1>12 DEF Exit, context
<1>13. CASE CosocketsNext /\ UNCHANGED <<result, context>>
  BY <1>0, <1>13, CosocketsKeepHandlers DEF HandlerInv
<1> QED BY <1>6, <1>7, <1>8, <1>9, <1>10, <1>11, <1>12, <1>13 DEF Next

\* HandlerInv holds throughout.
LEMMA HandlerInvHolds ==
  ASSUME NoSharing
  PROVE  Spec => []HandlerInv
<1>1. Init => SlotInv
  BY TypeInit DEF Init, CosocketsInit, SlotInv, Blocked, SlotWaits, NoDoubleUnref
<1>2. Init => OneWaiter /\ OpsKeepHandlers /\ Held /\ SavedIfRead
  BY DEF Init, CosocketsInit, OneWaiter, OpsKeepHandlers, Held, SavedIfRead
<1>3. HandlerInv /\ [Next]_vars => HandlerInv'
  BY HandlerInvNext
<1>4. Init => HandlerInv
  BY <1>1, <1>2 DEF HandlerInv
<1> QED BY <1>3, <1>4, PTL DEF Spec

\* However many threads select, in whichever mode, and whatever is killed or refused: a
\* receive or send in progress keeps its event handler, from the installation of
\* select's handlers and from the clean-up, as long as nobody starts one on a socket
\* that is being selected.
THEOREM BlockedOpsKeepHandlers ==
  ASSUME NoSharing
  PROVE  Spec => []OpsKeepHandlers
<1>1. HandlerInv => OpsKeepHandlers
  BY DEF HandlerInv
<1> QED BY <1>1, HandlerInvHolds, PTL
---------------------------------------------------------------------------
(***************************************************************************)
(* Bytes on a socket under select. The test for waiting bytes comes before *)
(* the handlers are installed, on one thread; from then on the edge of     *)
(* later bytes meets select's handler, because Held keeps it in place.     *)
(***************************************************************************)
EdgeKept ==
  \A t \in Threads, s \in Socks :
    /\ worker = "up" /\ pc[t] = "select"
    /\ Asks(socket[t], <<s, "r">>) /\ data[s]
    => posted[t] \/ edge[<<s, "r">>]

WakeupInv == HandlerInv /\ SoloInv /\ EdgeKept

\* What happens outside select takes no edge from a socket that is being read.
LEMMA CosocketsKeepWakeups ==
  ASSUME NoSharing, WakeupInv, CosocketsNext, UNCHANGED context
  PROVE  EdgeKept'
<1>0. /\ TypeOK /\ CosocketsTypeOK /\ Held /\ NobodyStranded /\ EdgeKept /\ SlotInv
      /\ UNCHANGED <<slot, socket, posted>>
  BY DEF WakeupInv, HandlerInv, SoloInv, SlotInv, TypeOK, context, event
<1>1. \A u \in Threads : pc[u] = "select" <=> pc'[u] = "select"
  BY <1>0, CosocketsKeepSelecting DEF SlotInv
<1>2. SUFFICES ASSUME NEW t \in Threads, NEW s \in Socks, worker' = "up",
                      pc[t] = "select", Asks(socket[t], <<s, "r">>), data'[s]
               PROVE  posted[t] \/ edge'[<<s, "r">>]
  BY <1>0, <1>1 DEF EdgeKept, Asks
<1>3. /\ <<s, "r">> \in Ends /\ slot = t /\ hdlr[<<s, "r">>] = "select"
      /\ t # None
  BY <1>0, <1>2, EndOf, CosocketConstants DEF Held, NobodyStranded, Dirs
<1>4. CASE UNCHANGED <<data, edge, worker>>
  BY <1>0, <1>2, <1>4 DEF EdgeKept
<1>5. ASSUME NEW e \in Ends, CosocketEvent(e) PROVE posted[t] \/ edge'[<<s, "r">>]
  <2>1. /\ edge' = [edge EXCEPT ![e] = FALSE] /\ UNCHANGED <<data, worker>>
        /\ hdlr[e] # "select"
    BY <1>5 DEF CosocketEvent, Report
  <2>2. edge'[<<s, "r">>] = edge[<<s, "r">>]
    BY <1>0, <1>3, <2>1 DEF CosocketsTypeOK
  <2> QED BY <1>0, <1>2, <2>1, <2>2 DEF EdgeKept
<1>6. ASSUME NEW u \in Threads, CosocketLua(u) \/ Wake(u)
      PROVE  posted[t] \/ edge'[<<s, "r">>]
  <2>1. CASE \E x \in Socks : Receive(u, x)
    <3>1. PICK x \in Socks : Receive(u, x)
      BY <2>1
    <3>2. /\ worker' = worker /\ (data' = data \/ data' = [data EXCEPT ![x] = FALSE])
          /\ \E b \in BOOLEAN : edge' = [edge EXCEPT ![<<x, "r">>] = b]
      <4>1. \E b \in BOOLEAN : edge' = [edge EXCEPT ![<<x, "r">>] = edge[<<x, "r">>] /\ b]
        BY <3>1 DEF Receive
      <4>2. worker' = worker /\ (data' = data \/ data' = [data EXCEPT ![x] = FALSE])
        BY <3>1 DEF Receive
      <4> QED BY <4>1, <4>2
    <3>3. x # s
      BY <1>3, <3>1 DEF Receive, MayUse, NoSharing
    <3>4. data[s] /\ edge'[<<s, "r">>] = edge[<<s, "r">>]
      BY <1>0, <1>2, <1>3, <3>2, <3>3 DEF CosocketsTypeOK
    <3> QED BY <1>0, <1>2, <3>2, <3>4 DEF EdgeKept
  <2>2. ASSUME NEW x \in Socks, ReceiveBuffered(u, x) \/ Send(u, x) \/ Close(u, x)
        PROVE  UNCHANGED <<data, edge, worker>>
    BY <2>2 DEF ReceiveBuffered, Send, Close, kernel
  <2>3. ASSUME NEW e \in Ends, Block(u, e) PROVE UNCHANGED <<data, edge, worker>>
    BY <2>3 DEF Block, kernel
  <2>4. ASSUME NEW v \in Threads, KillBlocked(u, v) PROVE UNCHANGED <<data, edge, worker>>
    BY <2>4 DEF KillBlocked, kernel
  <2>5. Sleep(u) \/ Wake(u) => UNCHANGED <<data, edge, worker>>
    BY DEF Sleep, Wake, kernel
  <2> QED BY <1>4, <1>6, <2>1, <2>2, <2>3, <2>4, <2>5 DEF CosocketLua
<1>7. ASSUME NEW x \in Socks, PeerSends(x) PROVE posted[t] \/ edge'[<<s, "r">>]
  <2>1. /\ data' = [data EXCEPT ![x] = TRUE]
        /\ edge' = [edge EXCEPT ![<<x, "r">>] = TRUE]
        /\ worker' = worker
    BY <1>7 DEF PeerSends
  <2> QED BY <1>0, <1>2, <1>3, <2>1 DEF EdgeKept, CosocketsTypeOK
<1>8. ASSUME NEW x \in Socks, PeerCloses(x) \/ Writable(x)
      PROVE  posted[t] \/ edge'[<<s, "r">>]
  <2>1. UNCHANGED <<data, worker>> /\ (\E e \in Ends : edge' = [edge EXCEPT ![e] = TRUE])
    BY <1>8, EndOf DEF PeerCloses, Writable, Dirs
  <2> QED BY <1>0, <1>2, <1>3, <2>1 DEF EdgeKept, CosocketsTypeOK
<1>9. ASSUME NEW x \in Socks, Connected(x) PROVE posted[t] \/ edge'[<<s, "r">>]
  BY <1>4, <1>9 DEF Connected, kernel
<1> QED BY <1>5, <1>6, <1>7, <1>8, <1>9 DEF CosocketsNext

\* Every step keeps the wake-ups: the yield tests FIONREAD, events queue the completion.
LEMMA WakeupInvNext ==
  ASSUME AtMostOneSelector, NoSharing, WakeupInv, [Next]_vars
  PROVE  WakeupInv'
<1>0. /\ TypeOK /\ CosocketsTypeOK /\ SoloInv /\ NobodyStranded /\ EdgeKept /\ SlotInv
      /\ HandlerInv' /\ SoloInv' /\ NobodyStranded'
  BY HandlerInvNext, SoloInvNext DEF WakeupInv, HandlerInv, SoloInv, SlotInv, TypeOK
<1>1. CASE /\ UNCHANGED <<pc, socket, data, edge, posted>>
           /\ worker' = worker \/ worker' # "up"
  BY <1>0, <1>1 DEF WakeupInv, EdgeKept, Asks
<1>2. CASE slot' = None
  <2>1. \A t \in Threads : pc'[t] # "select"
    BY <1>0, <1>2, CosocketConstants DEF NobodyStranded
  <2> QED BY <1>0, <2>1 DEF WakeupInv, EdgeKept
<1>3. ASSUME NEW how, how \in Crashes, Die(how) \/ DiscardDies(how) PROVE WakeupInv'
  BY <1>1, <1>3 DEF Die, DiscardDies, context, event, kernel, Crashes
<1>4. ASSUME NEW t \in Threads, NEW c \in Calls, Select(t, c) PROVE WakeupInv'
  <2>1. Calling(t, c)
    BY <1>4 DEF Select, SelectBadArgs, SelectBadEntry, SelectIoctlError,
                SelectAlreadyReady, SelectYield, Valid
  <2>2. slot = None
    BY <1>0, <2>1, CallerIsAlone
  <2>3. CASE SelectBadArgs(t, c) \/ SelectBadEntry(t, c) \/ SelectIoctlError(t, c)
    BY <1>2, <2>2, <2>3 DEF SelectBadArgs, SelectBadEntry, SelectIoctlError, context
  <2>4. CASE SelectAlreadyReady(t, c)
    BY <1>3, <2>2, <2>4 DEF SelectAlreadyReady, Discardable, Crashes
  <2>5. CASE SelectYield(t, c)
    <3>1. /\ slot' = t /\ socket'[t] = NewSockets(c) /\ data' = data
          /\ \A i \in DOMAIN c.table : ~data[c.table[i].sock]
      BY <1>0, <2>5 DEF SelectYield, set_ctx, TypeOK, kernel, BytesWaiting,
                        ngx_lua_select_sockets_ready
    <3>2. ASSUME NEW s \in Socks, Asks(socket'[t], <<s, "r">>) PROVE ~data'[s]
      BY <3>1, <3>2, AskedByCall
    <3> QED BY <1>0, <3>1, <3>2 DEF WakeupInv, EdgeKept, NobodyStranded
  <2> QED BY <1>4, <2>3, <2>4, <2>5 DEF Select
<1>5. ASSUME UNCHANGED <<pc, socket, data>>, socket_event_activated PROVE WakeupInv'
  <2>1. CASE worker' = "segv_event"
    BY <1>0, <2>1 DEF WakeupInv, EdgeKept
  <2>2. CASE slot # None /\ posted' = [posted EXCEPT ![slot] = TRUE]
    <3>1. \A t \in Threads : pc'[t] = "select" => posted'[t]
      BY <1>0, <1>5, <2>2 DEF NobodyStranded, TypeOK
    <3> QED BY <1>0, <3>1 DEF WakeupInv, EdgeKept
  <2> QED BY <1>5, <2>1, <2>2 DEF socket_event_activated
<1>6. CASE \/ \E e \in Ends : SelectEvent(e)
           \/ \E t \in Threads : timeout_handler(t)
  BY <1>5, <1>6 DEF SelectEvent, timeout_handler, Report, kernel
<1>7. CASE ctx_cleanup_and_discard(0)
  BY <1>2, <1>7 DEF ctx_cleanup_and_discard
<1>8. CASE post_completion_handler
  BY <1>3, <1>7, <1>8 DEF post_completion_handler, ngx_stream_lua_select_resume, Crashes
<1>9. CASE FreedEvent
  BY <1>3, <1>9 DEF FreedEvent, Crashes
<1>10. ASSUME NEW t \in Threads, NEW u \in Threads, KillSelecting(t, u) PROVE WakeupInv'
  BY <1>3, <1>7, <1>10 DEF KillSelecting, Crashes
<1>11. CASE Finalize
  <2>1. \A t \in Threads : pc'[t] # "select"
    BY <1>11 DEF Finalize
  <2> QED BY <1>0, <2>1 DEF WakeupInv, EdgeKept
<1>12. CASE Abort
  BY <1>3, <1>11, <1>12 DEF Abort, FinalizeIdle, Crashes
<1>13. ASSUME NEW t \in Threads, Exit(t) PROVE WakeupInv'
  <2>1. CASE FinalizeIdle
    BY <1>11, <2>1 DEF FinalizeIdle
  <2>2. CASE /\ pc' = [pc EXCEPT ![t] = "dead"]
             /\ UNCHANGED <<socket, data, edge, posted, worker>>
    BY <1>0, <2>2 DEF WakeupInv, EdgeKept, Asks, CosocketsTypeOK
  <2> QED BY <1>13, <2>1, <2>2 DEF Exit, kernel, context, event
<1>14. CASE CosocketsNext /\ UNCHANGED <<result, context>>
  BY <1>0, <1>14, CosocketsKeepWakeups DEF WakeupInv
<1>15. CASE UNCHANGED vars
  BY <1>1, <1>15 DEF vars
<1> QED BY <1>4, <1>6, <1>8, <1>9, <1>10, <1>12, <1>13, <1>14, <1>15 DEF Next

\* WakeupInv holds throughout.
LEMMA WakeupInvHolds ==
  ASSUME AtMostOneSelector, NoSharing
  PROVE  Spec => []WakeupInv
<1>1. Init => EdgeKept
  BY DEF Init, CosocketsInit, EdgeKept
<1>2. WakeupInv /\ [Next]_vars => WakeupInv'
  BY WakeupInvNext
<1>3. HandlerInv /\ SoloInv /\ EdgeKept <=> WakeupInv
  BY DEF WakeupInv
<1> QED BY <1>1, <1>2, <1>3, HandlerInvHolds, SoloInvHolds, PTL DEF Spec

\* With one selecting thread, and nobody receiving from a socket under select, bytes on
\* such a socket whose event is registered are never forgotten: for any sockets, modes,
\* refusals, kills and interleavings the completion is queued, or their edge is still to
\* come and meets select's handler.
THEOREM WakeupsAreKept ==
  ASSUME AtMostOneSelector, NoSharing
  PROVE  Spec => []NoLostWakeup
<1>1. WakeupInv => NoLostWakeup
  <2> SUFFICES ASSUME WakeupInv, NEW t \in Threads, NEW s \in Socks,
                      worker = "up", pc[t] = "select", Asks(socket[t], <<s, "r">>), data[s]
               PROVE  posted[t] \/ (edge[<<s, "r">>] /\ hdlr[<<s, "r">>] = "select")
    BY DEF NoLostWakeup
  <2>1. posted[t] \/ edge[<<s, "r">>]
    BY DEF WakeupInv, EdgeKept
  <2>2. slot = t /\ t # None
    BY CosocketConstants DEF WakeupInv, SoloInv, NobodyStranded
  <2>3. hdlr[<<s, "r">>] = "select"
    BY <2>2 DEF WakeupInv, HandlerInv, Held
  <2> QED BY <2>1, <2>3
<1> QED BY <1>1, WakeupInvHolds, PTL

---------------------------------------------------------------------------
(***************************************************************************)
(* Every read handler of select belongs to the live call. A table that     *)
(* lists a socket twice would save select's own handler and the clean-up   *)
(* would leave it behind; the discipline is to list a socket once. Other   *)
(* threads may use the selected sockets as they like.                      *)
(***************************************************************************)
NoRepeats ==
  \A c \in Calls : \A i, j \in DOMAIN c.table :
    c.table[i].sock = c.table[j].sock => i = j

\* The live context saved no handler of select.
SavedForeign ==
  slot # None => \A i \in DOMAIN socket[slot] : socket[slot][i].prev # "select"

LiveInv == SoloInv /\ HandlersLive /\ SavedForeign

\* A call made while no context is alive saves the handlers of others.
LEMMA SavesForeign ==
  ASSUME NoRepeats, NEW c \in Calls, NEW i \in DOMAIN c.table,
         c.table[i].sock \in Socks, hdlr[<<c.table[i].sock, "r">>] # "select"
  PROVE  Saved(c, i) # "select"
<1> DEFINE s == c.table[i].sock
<1>1. \A j \in Reads(c, s) : j = i
  BY DEF Reads, NoRepeats
<1>2. i \in 1 .. Len(c.table)
  BY TableType
<1>3. ~\E j \in Reads(c, s) : j < i
  BY <1>1, <1>2
<1>4. SavedBy(c, i) # "select"
  BY <1>3 DEF SavedBy
<1>5. ASSUME NEW by \in SUBSET Reads(c, s), by # {} PROVE Last(by) = i
  <2>1. by = {i}
    BY <1>1, <1>5
  <2> QED BY <1>2, <2>1 DEF Last
<1>6. None # "select"
  BY CosocketConstants DEF Handlers
<1> QED BY <1>4, <1>5, <1>6 DEF Saved

\* The clean-up leaves no read handler of select behind.
LEMMA DiscardLeavesNone ==
  ASSUME LiveInv, Discardable, ctx_cleanup_and_discard(0)
  PROVE  slot' = None /\ \A s \in Socks : hdlr'[<<s, "r">>] # "select"
<1>1. slot' = None /\ hdlr' = Restored
  BY DEF ctx_cleanup_and_discard
<1>2. slot # None /\ slot \in Threads /\ TypeOK
  BY DEF Discardable, LiveInv, SoloInv, SlotInv, TypeOK
<1>3. ASSUME NEW s \in Socks PROVE hdlr'[<<s, "r">>] # "select"
  <2>1. <<s, "r">> \in Ends
    BY EndOf DEF Dirs
  <2>2. CASE Entries(s) = {}
    <3>1. ~Asks(socket[slot], <<s, "r">>)
      BY <2>2 DEF Asks, Entries
    <3> QED BY <1>1, <2>1, <2>2, <3>1 DEF Restored, LiveInv, HandlersLive
  <2>3. CASE Entries(s) # {}
    <3>1. PICK n \in Nat : DOMAIN socket[slot] = 1 .. n
      BY <1>2 DEF TypeOK
    <3>2. Entries(s) \subseteq 1 .. n
      BY <3>1 DEF Entries
    <3>3. Last(Entries(s)) \in Entries(s)
      BY <2>3, <3>1, <3>2, LastIn
    <3>4. socket[slot][Last(Entries(s))].prev # "select"
      BY <1>2, <3>3 DEF Entries, LiveInv, SavedForeign
    <3> QED BY <1>1, <2>1, <2>3, <3>4 DEF Restored
  <2> QED BY <2>2, <2>3
<1> QED BY <1>1, <1>3

\* Other operations install no handler of select.
LEMMA CosocketsInstallNone ==
  ASSUME TypeOK, CosocketsNext
  PROVE  \A e \in Ends : hdlr'[e] = "select" => hdlr[e] = "select"
<1> DEFINE Goal == \A e \in Ends : hdlr'[e] = "select" => hdlr[e] = "select"
<1> USE DEF TypeOK, CosocketsTypeOK
<1>1. ASSUME NEW t \in Threads, CosocketLua(t) PROVE Goal
  <2>1. ASSUME NEW s \in Socks,
               ReceiveBuffered(t, s) \/ Receive(t, s) \/ Send(t, s) \/ Close(t, s)
        PROVE  Goal
    BY <2>1 DEF ReceiveBuffered, Receive, Send, Close
  <2>2. ASSUME NEW e \in Ends, Block(t, e) PROVE Goal
    BY <2>2 DEF Block
  <2>3. ASSUME NEW u \in Threads, KillBlocked(t, u) PROVE Goal
    BY <2>3 DEF KillBlocked
  <2>4. CASE Sleep(t)
    BY <2>4 DEF Sleep
  <2> QED BY <1>1, <2>1, <2>2, <2>3, <2>4 DEF CosocketLua
<1>2. ASSUME NEW t \in Threads, Wake(t) PROVE Goal
  BY <1>2 DEF Wake
<1>3. ASSUME NEW e \in Ends, CosocketEvent(e) PROVE Goal
  BY <1>3 DEF CosocketEvent
<1>4. ASSUME NEW s \in Socks, PeerSends(s) \/ PeerCloses(s) \/ Writable(s) \/ Connected(s)
      PROVE  Goal
  BY <1>4 DEF PeerSends, PeerCloses, Writable, Connected
<1> QED BY <1>1, <1>2, <1>3, <1>4 DEF CosocketsNext

\* Every step keeps LiveInv, if no table lists a socket twice.
LEMMA LiveInvNext ==
  ASSUME AtMostOneSelector, NoRepeats, LiveInv, [Next]_vars
  PROVE  LiveInv'
<1>0. TypeOK /\ SoloInv /\ SoloInv' /\ HandlersLive /\ SavedForeign
  BY SoloInvNext DEF LiveInv, SoloInv, SlotInv
<1>1. CASE UNCHANGED <<hdlr, slot, socket>>
  BY <1>0, <1>1 DEF LiveInv, HandlersLive, SavedForeign, Asks
<1>2. ASSUME NEW how, Die(how) \/ DiscardDies(how) PROVE LiveInv'
  BY <1>1, <1>2 DEF Die, DiscardDies, context
<1>3. ASSUME Discardable, ctx_cleanup_and_discard(0) PROVE LiveInv'
  <2>1. slot' = None /\ \A s \in Socks : hdlr'[<<s, "r">>] # "select"
    BY <1>3, DiscardLeavesNone
  <2> QED BY <1>0, <2>1 DEF LiveInv, HandlersLive, SavedForeign
<1>4. ASSUME NEW t \in Threads, NEW c \in Calls, Select(t, c) PROVE LiveInv'
  <2>1. Calling(t, c)
    BY <1>4 DEF Select, SelectBadArgs, SelectBadEntry, SelectIoctlError,
                SelectAlreadyReady, SelectYield, Valid
  <2>2. slot = None
    BY <1>0, <2>1, CallerIsAlone
  <2>3. CASE SelectBadArgs(t, c) \/ SelectBadEntry(t, c) \/ SelectIoctlError(t, c)
    BY <1>1, <2>3 DEF SelectBadArgs, SelectBadEntry, SelectIoctlError, cosockets, context
  <2>4. CASE SelectAlreadyReady(t, c)
    BY <1>2, <2>2, <2>4 DEF SelectAlreadyReady, Discardable
  <2>5. CASE SelectYield(t, c)
    <3>1. /\ slot' = t /\ socket'[t] = NewSockets(c) /\ hdlr' = Installed(c)
          /\ t # None /\ Bad(c) = {}
      BY <1>0, <2>5, CosocketConstants DEF SelectYield, set_ctx, TypeOK, Valid
    <3>2. \A s \in Socks : hdlr[<<s, "r">>] # "select"
      BY <1>0, <2>2 DEF HandlersLive
    <3>3. HandlersLive'
      <4>1. ASSUME NEW s \in Socks, hdlr'[<<s, "r">>] = "select"
            PROVE  Asks(NewSockets(c), <<s, "r">>)
        BY <3>1, <3>2, <4>1, EndOf DEF Installed, Dirs
      <4> QED BY <3>1, <4>1 DEF HandlersLive
    <3>4. SavedForeign'
      <4>1. ASSUME NEW i \in DOMAIN c.table PROVE Saved(c, i) # "select"
        <5>1. c.table[i].sock \in Socks
          BY <3>1, <4>1, TableType DEF Bad, BadEntry
        <5> QED BY <3>2, <5>1, SavesForeign
      <4>2. /\ DOMAIN NewSockets(c) = DOMAIN c.table
            /\ \A i \in DOMAIN c.table : NewSockets(c)[i].prev = Saved(c, i)
        BY AskedByCall
      <4> QED BY <3>1, <4>1, <4>2 DEF SavedForeign
    <3> QED BY <1>0, <3>3, <3>4 DEF LiveInv
  <2> QED BY <1>4, <2>3, <2>4, <2>5 DEF Select
<1>5. CASE \/ \E e \in Ends : SelectEvent(e)
           \/ \E t \in Threads : timeout_handler(t)
           \/ UNCHANGED vars
  BY <1>1, <1>5 DEF SelectEvent, timeout_handler, vars
<1>6. CASE post_completion_handler
  BY <1>2, <1>3, <1>6 DEF post_completion_handler, ngx_stream_lua_select_resume
<1>7. CASE FreedEvent
  BY <1>2, <1>7 DEF FreedEvent
<1>8. ASSUME NEW t \in Threads, NEW u \in Threads, KillSelecting(t, u) PROVE LiveInv'
  BY <1>2, <1>3, <1>8 DEF KillSelecting
<1>9. CASE Abort
  BY <1>1, <1>2, <1>3, <1>9 DEF Abort, FinalizeIdle, context
<1>10. ASSUME NEW t \in Threads, Exit(t) PROVE LiveInv'
  BY <1>1, <1>10 DEF Exit, FinalizeIdle, context
<1>11. CASE CosocketsNext /\ UNCHANGED <<result, context>>
  <2>1. \A s \in Socks : hdlr'[<<s, "r">>] = "select" => hdlr[<<s, "r">>] = "select"
    BY <1>0, <1>11, CosocketsInstallNone, EndOf DEF Dirs
  <2>2. UNCHANGED <<slot, socket>>
    BY <1>11 DEF context
  <2> QED BY <1>0, <2>1, <2>2 DEF LiveInv, HandlersLive, SavedForeign, Asks
<1> QED BY <1>4, <1>5, <1>6, <1>7, <1>8, <1>9, <1>10, <1>11 DEF Next

\* LiveInv holds throughout.
LEMMA LiveInvHolds ==
  ASSUME AtMostOneSelector, NoRepeats
  PROVE  Spec => []LiveInv
<1>1. Init => HandlersLive /\ SavedForeign
  BY EndOf DEF Init, CosocketsInit, HandlersLive, SavedForeign, Dirs
<1>2. LiveInv /\ [Next]_vars => LiveInv'
  BY LiveInvNext
<1>3. LiveInv <=> SoloInv /\ HandlersLive /\ SavedForeign
  BY DEF LiveInv
<1> QED BY <1>1, <1>2, <1>3, SoloInvHolds, PTL DEF Spec

\* With one selecting thread whose tables list a socket once, no read handler of select
\* outlives its call, even if threads are killed, calls refused, and the sockets under
\* select received from, written to or closed by other threads.
THEOREM NoHandlerOutlivesItsCall ==
  ASSUME AtMostOneSelector, NoRepeats
  PROVE  Spec => []HandlersLive
<1>1. LiveInv => HandlersLive
  BY DEF LiveInv
<1> QED BY <1>1, LiveInvHolds, PTL
===========================================================================
