------------------------ MODULE RegistrationProofs ------------------------
(***************************************************************************)
(* Which events are registered with the kernel. A refused call deletes     *)
(* those of the entries it has taken. It never hits a receive or send in   *)
(* progress; and but for these deletions every open socket under select    *)
(* would be registered, and its bytes would be on their way to the thread. *)
(***************************************************************************)
EXTENDS ActionProofs

\* An entry that lua_select_module_select takes names no direction that a receive or
\* send waits for.
LEMMA TakenAreFree ==
  ASSUME TypeOK, NEW c \in Calls, NEW i \in DOMAIN c.table, ~BadEntry(c.table[i]),
         NEW u \in Threads, waits[u] # None
  PROVE  ~(c.table[i].sock = waits[u][1] /\ waits[u][2] \in Readwrite(c.table[i]))
<1>1. SUFFICES ASSUME c.table[i].sock = waits[u][1], waits[u][2] \in Readwrite(c.table[i])
               PROVE  FALSE
  OBVIOUS
<1>2. waits[u] = <<c.table[i].sock, waits[u][2]>> /\ waits[u][2] \in {"r", "w"}
  BY <1>1, WaitsType, PartsOfEnd DEF Dirs
<1>3. Busy(c.table[i].sock, Readwrite(c.table[i]))
  BY <1>1, <1>2 DEF Busy, Waiting
<1> QED BY <1>3 DEF BadEntry

\* A refused call has looked at all the entries whose events it deletes.
LEMMA RefusalKeepsOps ==
  ASSUME TypeOK, BlockedOpsStayRegistered, NEW t \in Threads, NEW c \in Calls,
         SelectBadEntry(t, c) \/ SelectIoctlError(t, c)
  PROVE  BlockedOpsStayRegistered'
<1>1. waits' = waits
  BY DEF SelectBadEntry, SelectIoctlError
<1>2. PICK n \in Nat : /\ select_fail_cleanup(c, n)
                       /\ \A i \in 1 .. n : i \in DOMAIN c.table /\ ~BadEntry(c.table[i])
  <2>1. PICK m \in Nat : m = Len(c.table) /\ DOMAIN c.table = 1 .. m
    BY TableType
  <2>2. CASE SelectBadEntry(t, c)
    <3>1. PICK i \in Bad(c) : (\A j \in Bad(c) : i <= j) /\ select_fail_cleanup(c, i - 1)
      BY <2>2 DEF SelectBadEntry
    <3>2. i \in 1 .. m
      BY <2>1 DEF Bad
    <3>3. ASSUME NEW j \in 1 .. (i - 1) PROVE j \in DOMAIN c.table /\ ~BadEntry(c.table[j])
      <4>1. j \in 1 .. m /\ ~(i <= j)
        BY <3>2
      <4> QED BY <2>1, <3>1, <4>1 DEF Bad
    <3>4. i - 1 \in Nat
      BY <3>2
    <3> QED BY <3>1, <3>3, <3>4
  <2>3. CASE SelectIoctlError(t, c)
    BY <2>1, <2>3 DEF SelectIoctlError, Valid, Bad
  <2> QED BY <2>2, <2>3
<1>3. ASSUME NEW u \in Threads, waits[u] # None PROVE active'[waits[u]]
  <2>1. waits[u] \in Ends /\ active[waits[u]]
    BY <1>3, WaitsType DEF BlockedOpsStayRegistered
  <2>2. ~\E i \in 1 .. n : /\ c.table[i].sock = waits[u][1]
                           /\ waits[u][2] \in Readwrite(c.table[i])
    BY <1>2, <1>3, TakenAreFree
  <2> QED BY <1>2, <2>1, <2>2 DEF select_fail_cleanup
<1> QED BY <1>1, <1>3 DEF BlockedOpsStayRegistered

\* The other operations delete no event somebody is blocked on: a socket that a thread
\* is blocked on is not closed.
LEMMA CosocketsKeepOps ==
  ASSUME TypeOK, BlockedOpsStayRegistered, CosocketsNext
  PROVE  BlockedOpsStayRegistered'
<1> DEFINE Goal == BlockedOpsStayRegistered'
<1>0. /\ CosocketsTypeOK /\ None \notin Ends
      /\ \A u \in Threads : waits[u] # None => waits[u] \in Ends /\ active[waits[u]]
  BY CosocketConstants, WaitsType DEF TypeOK, BlockedOpsStayRegistered
<1>1. CASE UNCHANGED <<waits, active>>
  BY <1>0, <1>1 DEF BlockedOpsStayRegistered
<1>2. ASSUME UNCHANGED active, NEW u \in Threads, waits' = [waits EXCEPT ![u] = None]
      PROVE  Goal
  BY <1>0, <1>2 DEF BlockedOpsStayRegistered, CosocketsTypeOK
<1>3. ASSUME NEW t \in Threads, CosocketLua(t) PROVE Goal
  <2>1. ASSUME NEW s \in Socks, ReceiveBuffered(t, s) \/ Receive(t, s) \/ Send(t, s)
        PROVE  Goal
    BY <1>1, <2>1 DEF ReceiveBuffered, Receive, Send, conn
  <2>2. ASSUME NEW s \in Socks, Close(t, s) PROVE Goal
    <3>1. /\ waits' = waits /\ active' = [e \in Ends |-> active[e] /\ e[1] # s]
          /\ \A u \in Threads, d \in Dirs : waits[u] # <<s, d>>
      BY <2>2 DEF Close, Waiting
    <3>2. ASSUME NEW u \in Threads, waits[u] # None PROVE waits[u][1] # s
      BY <1>0, <3>1, <3>2, PartsOfEnd
    <3> QED BY <1>0, <3>1, <3>2 DEF BlockedOpsStayRegistered
  <2>3. ASSUME NEW e \in Ends, Block(t, e) PROVE Goal
    <3>1. waits' = [waits EXCEPT ![t] = e] /\ active' = [active EXCEPT ![e] = TRUE]
      BY <2>3 DEF Block
    <3> QED BY <1>0, <3>1 DEF BlockedOpsStayRegistered, CosocketsTypeOK
  <2>4. ASSUME NEW u \in Threads, KillBlocked(t, u) PROVE Goal
    BY <1>2, <2>4 DEF KillBlocked, conn
  <2>5. CASE Sleep(t)
    BY <1>1, <2>5 DEF Sleep, conn
  <2> QED BY <1>3, <2>1, <2>2, <2>3, <2>4, <2>5 DEF CosocketLua
<1>4. ASSUME NEW t \in Threads, Wake(t) PROVE Goal
  BY <1>1, <1>4 DEF Wake, conn
<1>5. ASSUME NEW e \in Ends, CosocketEvent(e) PROVE Goal
  BY <1>1, <1>2, <1>5 DEF CosocketEvent, Report
<1>6. ASSUME NEW s \in Socks, PeerSends(s) \/ PeerCloses(s) \/ Writable(s) PROVE Goal
  BY <1>1, <1>6 DEF PeerSends, PeerCloses, Writable, conn
<1>7. ASSUME NEW s \in Socks, Connected(s) PROVE Goal
  <2>1. waits' = waits /\ active' = [e \in Ends |-> active[e] \/ e[1] = s]
    BY <1>7 DEF Connected
  <2> QED BY <1>0, <2>1 DEF BlockedOpsStayRegistered
<1> QED BY <1>3, <1>4, <1>5, <1>6, <1>7 DEF CosocketsNext

\* Every step keeps the events of blocked operations registered.
LEMMA BlockedOpsNext ==
  ASSUME TypeOK, BlockedOpsStayRegistered, [Next]_vars
  PROVE  BlockedOpsStayRegistered'
<1> DEFINE Goal == BlockedOpsStayRegistered'
<1>1. CASE UNCHANGED <<waits, active>>
  BY <1>1 DEF BlockedOpsStayRegistered
<1>2. ASSUME NEW how, Die(how) \/ DiscardDies(how) PROVE Goal
  BY <1>1, <1>2 DEF Die, DiscardDies, conn
<1>3. CASE Finalize
  BY <1>3 DEF Finalize, BlockedOpsStayRegistered
<1>4. ASSUME NEW t \in Threads, NEW c \in Calls, Select(t, c) PROVE Goal
  <2>1. CASE SelectBadArgs(t, c)
    BY <1>1, <2>1 DEF SelectBadArgs, cosockets
  <2>2. CASE SelectBadEntry(t, c) \/ SelectIoctlError(t, c)
    BY <2>2, RefusalKeepsOps
  <2>3. CASE SelectAlreadyReady(t, c)
    BY <1>1, <1>2, <2>3 DEF SelectAlreadyReady, conn
  <2>4. CASE SelectYield(t, c)
    BY <1>1, <2>4 DEF SelectYield, conn
  <2> QED BY <1>4, <2>1, <2>2, <2>3, <2>4 DEF Select
<1>5. CASE \/ \E e \in Ends : SelectEvent(e)
           \/ \E t \in Threads : timeout_handler(t)
           \/ UNCHANGED vars
  BY <1>1, <1>5 DEF SelectEvent, Report, timeout_handler, conn, vars
<1>6. CASE post_completion_handler
  BY <1>1, <1>2, <1>6 DEF post_completion_handler, ngx_stream_lua_select_resume, conn
<1>7. CASE FreedEvent
  BY <1>2, <1>7 DEF FreedEvent
<1>8. ASSUME NEW t \in Threads, NEW u \in Threads, KillSelecting(t, u) PROVE Goal
  BY <1>1, <1>2, <1>8 DEF KillSelecting, conn
<1>9. CASE Abort
  BY <1>2, <1>3, <1>9 DEF Abort, FinalizeIdle
<1>10. ASSUME NEW t \in Threads, Exit(t) PROVE Goal
  BY <1>1, <1>3, <1>10 DEF Exit, FinalizeIdle, conn
<1>11. CASE CosocketsNext /\ UNCHANGED <<result, context>>
  BY <1>11, CosocketsKeepOps
<1> QED BY <1>4, <1>5, <1>6, <1>7, <1>8, <1>9, <1>10, <1>11 DEF Next

\* Whatever the Lua code does, however many threads select, share and close sockets, are
\* killed or make calls that are refused: the event of a receive or send in progress
\* stays registered. The clean-up of a refused call deletes events of sockets that are
\* not its own, but the tests for a busy socket come first.
THEOREM RefusalsSpareBlockedOps == Spec => []BlockedOpsStayRegistered
<1>1. Init => BlockedOpsStayRegistered
  BY DEF Init, CosocketsInit, BlockedOpsStayRegistered
<1>2. TypeOK /\ BlockedOpsStayRegistered /\ [Next]_vars => BlockedOpsStayRegistered'
  BY BlockedOpsNext
<1> QED BY <1>1, <1>2, TypeCorrect, PTL DEF Spec

---------------------------------------------------------------------------
(***************************************************************************)
(* The behaviours in which no refused call deletes an event: those that    *)
(* the comment at ngx_stream_lua_select_module.c:40 takes for granted.     *)
(***************************************************************************)
Refusal == \E t \in Threads, c \in Calls : SelectBadEntry(t, c) \/ SelectIoctlError(t, c)

KeepingNext == Next /\ (Refusal => active' = active)

KeepingSpec == Init /\ [][KeepingNext]_vars

\* While the request lives, the events of its open sockets are registered.
Registered ==
  (\E t \in Threads : pc[t] # "dead") =>
    \A e \in Ends : sstate[e[1]] = "open" => active[e]

\* They are a part of the behaviours of the module.
LEMMA KeepingIsASpec == KeepingSpec => Spec
<1>1. [KeepingNext]_vars => [Next]_vars
  BY DEF KeepingNext
<1> QED BY <1>1, PTL DEF KeepingSpec, Spec

\* No light thread comes back to life.
LEMMA NobodyRevives ==
  ASSUME SlotInv, [Next]_vars, NEW u \in Threads, pc[u] = "dead"
  PROVE  pc'[u] = "dead"
<1> DEFINE Goal == pc'[u] = "dead"
<1>0. TypeOK /\ Blocked /\ SlotWaits /\ pc \in [Threads -> {"lua", "select", "io", "dead"}]
  BY DEF SlotInv, TypeOK, CosocketsTypeOK
<1>1. CASE UNCHANGED pc
  BY <1>1
<1>2. ASSUME NEW t \in Threads, pc[t] # "dead", NEW p, pc' = [pc EXCEPT ![t] = p] PROVE Goal
  BY <1>2
<1>3. ASSUME NEW how, Die(how) \/ DiscardDies(how) PROVE Goal
  BY <1>1, <1>3 DEF Die, DiscardDies
<1>4. CASE Finalize
  BY <1>4 DEF Finalize
<1>5. ASSUME NEW t \in Threads, NEW c \in Calls, Select(t, c) PROVE Goal
  <2>1. CASE SelectBadArgs(t, c) \/ SelectBadEntry(t, c) \/ SelectIoctlError(t, c)
    BY <1>1, <2>1 DEF SelectBadArgs, SelectBadEntry, SelectIoctlError, cosockets
  <2>2. CASE SelectAlreadyReady(t, c)
    BY <1>1, <1>3, <2>2 DEF SelectAlreadyReady
  <2>3. CASE SelectYield(t, c)
    BY <1>2, <2>3 DEF SelectYield, Valid, Calling, Running
  <2> QED BY <1>5, <2>1, <2>2, <2>3 DEF Select
<1>6. CASE \/ \E e \in Ends : SelectEvent(e)
           \/ \E t \in Threads : timeout_handler(t)
           \/ UNCHANGED vars
  BY <1>1, <1>6 DEF SelectEvent, timeout_handler, vars
<1>7. CASE post_completion_handler
  <2>1. CASE Discardable /\ ngx_stream_lua_select_resume
    <3>1. slot \in Threads /\ pc[slot] = "select" /\ pc' = [pc EXCEPT ![slot] = "lua"]
      BY <1>0, <2>1 DEF Discardable, SlotWaits, TypeOK, ngx_stream_lua_select_resume
    <3> QED BY <1>2, <3>1
  <2> QED BY <1>3, <1>7, <2>1 DEF post_completion_handler
<1>8. CASE FreedEvent
  BY <1>3, <1>8 DEF FreedEvent
<1>9. ASSUME NEW t \in Threads, NEW v \in Threads, KillSelecting(t, v) PROVE Goal
  BY <1>2, <1>3, <1>9 DEF KillSelecting, Selecting
<1>10. CASE Abort
  BY <1>3, <1>4, <1>10 DEF Abort, FinalizeIdle
<1>11. ASSUME NEW t \in Threads, Exit(t) PROVE Goal
  BY <1>2, <1>4, <1>11 DEF Exit, FinalizeIdle, Running
<1>12. CASE CosocketsNext
  <2>1. ASSUME NEW t \in Threads, CosocketLua(t) PROVE Goal
    <3>1. ASSUME NEW s \in Socks,
                 ReceiveBuffered(t, s) \/ Receive(t, s) \/ Send(t, s) \/ Close(t, s)
          PROVE  Goal
      BY <1>1, <3>1 DEF ReceiveBuffered, Receive, Send, Close
    <3>2. ASSUME NEW e \in Ends, Block(t, e) PROVE Goal
      BY <1>2, <3>2 DEF Block, MayUse, Running
    <3>3. ASSUME NEW v \in Threads, KillBlocked(t, v) PROVE Goal
      BY <1>2, <3>3 DEF KillBlocked
    <3>4. CASE Sleep(t)
      BY <1>2, <3>4 DEF Sleep, Running
    <3> QED BY <2>1, <3>1, <3>2, <3>3, <3>4 DEF CosocketLua
  <2>2. ASSUME NEW t \in Threads, Wake(t) PROVE Goal
    BY <1>2, <2>2 DEF Wake
  <2>3. ASSUME NEW e \in Ends, CosocketEvent(e) PROVE Goal
    <3>1. e # None
      BY CosocketConstants
    <3> QED BY <1>0, <1>1, <1>2, <2>3, <3>1 DEF CosocketEvent, Blocked
  <2>4. ASSUME NEW s \in Socks, PeerSends(s) \/ PeerCloses(s) \/ Writable(s) \/ Connected(s)
        PROVE  Goal
    BY <1>1, <2>4 DEF PeerSends, PeerCloses, Writable, Connected
  <2> QED BY <1>12, <2>1, <2>2, <2>3, <2>4 DEF CosocketsNext
<1> QED BY <1>5, <1>6, <1>7, <1>8, <1>9, <1>10, <1>11, <1>12 DEF Next

\* The other operations: what is closed may be deleted, what is opened is registered.
LEMMA CosocketsKeepRegistered ==
  ASSUME TypeOK, CosocketsNext,
         \A e \in Ends : sstate[e[1]] = "open" => active[e]
  PROVE  \A e \in Ends : sstate'[e[1]] = "open" => active'[e]
<1> DEFINE Goal == \A e \in Ends : sstate'[e[1]] = "open" => active'[e]
<1>0. CosocketsTypeOK /\ \A e \in Ends : e[1] \in Socks
  BY PartsOfEnd DEF TypeOK
<1>1. CASE UNCHANGED <<sstate, active>>
  BY <1>1
<1>2. ASSUME NEW t \in Threads, CosocketLua(t) PROVE Goal
  <2>1. ASSUME NEW s \in Socks, ReceiveBuffered(t, s) \/ Send(t, s) PROVE Goal
    BY <1>1, <2>1 DEF ReceiveBuffered, Send, conn
  <2>2. ASSUME NEW s \in Socks, Receive(t, s) PROVE Goal
    <3>1. active' = active /\ (sstate' = sstate \/ sstate' = [sstate EXCEPT ![s] = "closed"])
      BY <2>2 DEF Receive
    <3> QED BY <1>0, <3>1 DEF CosocketsTypeOK
  <2>3. ASSUME NEW s \in Socks, Close(t, s) PROVE Goal
    <3>1. /\ sstate' = [sstate EXCEPT ![s] = "closed"]
          /\ active' = [e \in Ends |-> active[e] /\ e[1] # s]
      BY <2>3 DEF Close
    <3> QED BY <1>0, <3>1 DEF CosocketsTypeOK
  <2>4. ASSUME NEW e \in Ends, Block(t, e) PROVE Goal
    <3>1. sstate' = sstate /\ active' = [active EXCEPT ![e] = TRUE]
      BY <2>4 DEF Block
    <3> QED BY <1>0, <3>1 DEF CosocketsTypeOK
  <2>5. ASSUME NEW u \in Threads, KillBlocked(t, u) PROVE Goal
    BY <1>1, <2>5 DEF KillBlocked, conn
  <2>6. CASE Sleep(t)
    BY <1>1, <2>6 DEF Sleep, conn
  <2> QED BY <1>2, <2>1, <2>2, <2>3, <2>4, <2>5, <2>6 DEF CosocketLua
<1>3. ASSUME NEW t \in Threads, Wake(t) PROVE Goal
  BY <1>1, <1>3 DEF Wake, conn
<1>4. ASSUME NEW e \in Ends, CosocketEvent(e) PROVE Goal
  BY <1>1, <1>4 DEF CosocketEvent, Report
<1>5. ASSUME NEW s \in Socks, PeerSends(s) \/ PeerCloses(s) \/ Writable(s) PROVE Goal
  BY <1>1, <1>5 DEF PeerSends, PeerCloses, Writable, conn
<1>6. ASSUME NEW s \in Socks, Connected(s) PROVE Goal
  <2>1. /\ sstate' = [sstate EXCEPT ![s] = "open"]
        /\ active' = [e \in Ends |-> active[e] \/ e[1] = s]
    BY <1>6 DEF Connected
  <2> QED BY <1>0, <2>1 DEF CosocketsTypeOK
<1> QED BY <1>2, <1>3, <1>4, <1>5, <1>6 DEF CosocketsNext

\* Every step that deletes no event for a refused call keeps Registered.
LEMMA RegisteredNext ==
  ASSUME SlotInv, Registered, [KeepingNext]_vars
  PROVE  Registered'
<1>0. [Next]_vars /\ TypeOK
  BY DEF KeepingNext, SlotInv
<1>1. SUFFICES ASSUME NEW t \in Threads, pc'[t] # "dead"
               PROVE  \A e \in Ends : sstate'[e[1]] = "open" => active'[e]
  BY DEF Registered
<1>2. \A e \in Ends : sstate[e[1]] = "open" => active[e]
  BY <1>0, <1>1, NobodyRevives DEF Registered
<1> DEFINE Goal == \A e \in Ends : sstate'[e[1]] = "open" => active'[e]
<1>3. CASE UNCHANGED <<sstate, active>>
  BY <1>2, <1>3
<1>4. ASSUME NEW how, Die(how) \/ DiscardDies(how) PROVE Goal
  BY <1>3, <1>4 DEF Die, DiscardDies, conn
<1>5. ~Finalize
  BY <1>1 DEF Finalize
<1>6. ASSUME NEW u \in Threads, NEW c \in Calls, Select(u, c),
             Refusal => active' = active
      PROVE  Goal
  <2>1. CASE SelectBadArgs(u, c)
    BY <1>3, <2>1 DEF SelectBadArgs, cosockets
  <2>2. CASE SelectBadEntry(u, c) \/ SelectIoctlError(u, c)
    <3>1. active' = active
      BY <1>6, <2>2 DEF Refusal
    <3> QED BY <1>3, <2>2, <3>1 DEF SelectBadEntry, SelectIoctlError
  <2>3. CASE SelectAlreadyReady(u, c)
    BY <1>3, <1>4, <2>3 DEF SelectAlreadyReady, conn
  <2>4. CASE SelectYield(u, c)
    BY <1>3, <2>4 DEF SelectYield, conn
  <2> QED BY <1>6, <2>1, <2>2, <2>3, <2>4 DEF Select
<1>7. CASE \/ \E e \in Ends : SelectEvent(e)
           \/ \E u \in Threads : timeout_handler(u)
           \/ UNCHANGED vars
  BY <1>3, <1>7 DEF SelectEvent, Report, timeout_handler, conn, vars
<1>8. CASE post_completion_handler
  BY <1>3, <1>4, <1>8 DEF post_completion_handler, ngx_stream_lua_select_resume, conn
<1>9. CASE FreedEvent
  BY <1>4, <1>9 DEF FreedEvent
<1>10. ASSUME NEW u \in Threads, NEW v \in Threads, KillSelecting(u, v) PROVE Goal
  BY <1>3, <1>4, <1>10 DEF KillSelecting, conn
<1>11. CASE Abort
  BY <1>4, <1>5, <1>11 DEF Abort, FinalizeIdle
<1>12. ASSUME NEW u \in Threads, Exit(u) PROVE Goal
  BY <1>3, <1>5, <1>12 DEF Exit, FinalizeIdle, conn
<1>13. CASE CosocketsNext
  BY <1>0, <1>2, <1>13, CosocketsKeepRegistered
<1> QED BY <1>6, <1>7, <1>8, <1>9, <1>10, <1>11, <1>12, <1>13 DEF KeepingNext, Next

\* Registered holds throughout, if no refused call deletes an event.
LEMMA RegisteredHolds == KeepingSpec => []Registered
<1>1. Init => Registered
  <2>1. Init => active = [e \in Ends |-> sstate[e[1]] = "open"]
    BY DEF Init, CosocketsInit
  <2> QED BY <2>1 DEF Registered
<1>2. SlotInv /\ Registered /\ [KeepingNext]_vars => Registered'
  BY RegisteredNext
<1> QED BY <1>1, <1>2, KeepingIsASpec, SlotInvHolds, PTL DEF KeepingSpec

\* select_fail_cleanup is the only thing that can leave a selected socket unregistered:
\* but for its deletions, the events of the sockets a thread waits for are registered,
\* however many threads select, share, close or are killed. The refused_then_select run
\* shows that the deletions do happen.
THEOREM OnlyRefusalsUnregister == KeepingSpec => []SelectedAreActive
<1>1. Registered => SelectedAreActive
  BY DEF Registered, SelectedAreActive
<1> QED BY <1>1, RegisteredHolds, PTL

\* Bytes that wait on a socket selected for reading are on their way to the thread:
\* queued, or registered, still to be reported, and to select's handler.
BytesArrive ==
  \A t \in Threads, s \in Socks :
    /\ worker = "up" /\ pc[t] = "select"
    /\ Asks(socket[t], <<s, "r">>) /\ data[s]
    => \/ posted[t]
       \/ active[<<s, "r">>] /\ edge[<<s, "r">>] /\ hdlr[<<s, "r">>] = "select"

\* With one selecting thread whose sockets nobody shares, no byte on a selected socket
\* is missed, as long as no refused call has deleted an event: each is behind a queued
\* completion, or behind an edge that the kernel will report to select's handler.
THEOREM OnlyRefusalsLoseWakeups ==
  ASSUME AtMostOneSelector, NoSharing
  PROVE  KeepingSpec => []BytesArrive
<1>1. WakeupInv /\ TellInv /\ Registered => BytesArrive
  <2> SUFFICES ASSUME WakeupInv, TellInv, Registered, NEW t \in Threads, NEW s \in Socks,
                      worker = "up", pc[t] = "select", Asks(socket[t], <<s, "r">>), data[s]
               PROVE  \/ posted[t]
                      \/ active[<<s, "r">>] /\ edge[<<s, "r">>] /\ hdlr[<<s, "r">>] = "select"
    BY DEF BytesArrive
  <2>1. posted[t] \/ edge[<<s, "r">>]
    BY DEF WakeupInv, EdgeKept
  <2>2. slot = t /\ t # None
    BY CosocketConstants DEF WakeupInv, SoloInv, NobodyStranded
  <2>3. hdlr[<<s, "r">>] = "select"
    BY <2>2 DEF WakeupInv, HandlerInv, Held
  <2>4. sstate[s] = "open"
    BY <2>2 DEF TellInv, OpenRead
  <2>5. active[<<s, "r">>]
    <3>1. <<s, "r">> \in Ends /\ <<s, "r">>[1] = s
      BY EndOf DEF Dirs
    <3> QED BY <2>4, <3>1 DEF Registered
  <2> QED BY <2>1, <2>3, <2>5
<1> QED BY <1>1, WakeupInvHolds, TellInvHolds, RegisteredHolds, KeepingIsASpec, PTL
===========================================================================
