--------------------------- MODULE ActionProofs ---------------------------
(***************************************************************************)
(* What no step of the module may do: swallow bytes with a "timeout", or   *)
(* let a thread leave select with other references than its own.           *)
(***************************************************************************)
EXTENDS HandlerProofs

\* A thread leaves select by the completion of the context in the slot, or by a
\* clean-up; in both cases the context in the slot is discarded.
LEMMA LeavingSelect ==
  ASSUME SlotInv, [Next]_vars, NEW t \in Threads, pc[t] = "select", pc'[t] # "select"
  PROVE  /\ Discardable
         /\ ctx_cleanup_and_discard(0)
         /\ \/ slot = t /\ ngx_stream_lua_select_resume
            \/ pc'[t] = "dead"
<1> DEFINE Goal == /\ Discardable
                   /\ ctx_cleanup_and_discard(0)
                   /\ \/ slot = t /\ ngx_stream_lua_select_resume
                      \/ pc'[t] = "dead"
<1>0. TypeOK /\ pc \in [Threads -> {"lua", "select", "io", "dead"}]
  BY DEF SlotInv, TypeOK, CosocketsTypeOK
<1>1. CASE UNCHANGED pc
  BY <1>1
<1>2. ASSUME NEW how, Die(how) \/ DiscardDies(how) PROVE Goal
  BY <1>1, <1>2 DEF Die, DiscardDies
<1>3. ASSUME NEW u \in Threads, NEW c \in Calls, Select(u, c) PROVE Goal
  <2>1. CASE SelectBadArgs(u, c) \/ SelectBadEntry(u, c) \/ SelectIoctlError(u, c)
    BY <1>1, <2>1 DEF SelectBadArgs, SelectBadEntry, SelectIoctlError, cosockets
  <2>2. CASE SelectAlreadyReady(u, c)
    BY <1>1, <1>2, <2>2 DEF SelectAlreadyReady
  <2>3. CASE SelectYield(u, c)
    BY <1>0, <2>3 DEF SelectYield
  <2> QED BY <1>3, <2>1, <2>2, <2>3 DEF Select
<1>4. CASE \/ \E e \in Ends : SelectEvent(e)
           \/ \E u \in Threads : timeout_handler(u)
           \/ UNCHANGED vars
  BY <1>1, <1>4 DEF SelectEvent, timeout_handler, vars
<1>5. CASE post_completion_handler
  <2>1. CASE Discardable /\ ngx_stream_lua_select_resume
    <3>1. pc' = [pc EXCEPT ![slot] = "lua"] /\ ctx_cleanup_and_discard(0)
      BY <2>1 DEF ngx_stream_lua_select_resume
    <3>2. slot = t
      BY <1>0, <3>1
    <3> QED BY <2>1, <3>1, <3>2
  <2> QED BY <1>2, <1>5, <2>1 DEF post_completion_handler
<1>6. CASE FreedEvent
  BY <1>2, <1>6 DEF FreedEvent
<1>7. ASSUME NEW v \in Threads, NEW u \in Threads, KillSelecting(v, u) PROVE Goal
  <2>1. CASE DiscardDies("segv_cleanup")
    BY <1>2, <2>1
  <2>2. CASE Discardable /\ ctx_cleanup_and_discard(0) /\ pc' = [pc EXCEPT ![u] = "dead"]
    BY <1>0, <2>2
  <2> QED BY <1>7, <2>1, <2>2 DEF KillSelecting
<1>8. CASE FinalizeIdle
  BY <1>8 DEF FinalizeIdle, Selecting
<1>9. CASE Abort
  <2>1. CASE Discardable /\ ctx_cleanup_and_discard(0) /\ Finalize
    BY <2>1 DEF Finalize
  <2> QED BY <1>2, <1>8, <1>9, <2>1 DEF Abort
<1>10. ASSUME NEW u \in Threads, Exit(u) PROVE Goal
  <2>1. CASE Running(u) /\ pc' = [pc EXCEPT ![u] = "dead"]
    BY <1>0, <2>1 DEF Running
  <2> QED BY <1>8, <1>10, <2>1 DEF Exit
<1>11. CASE CosocketsNext /\ UNCHANGED <<result, context>>
  BY <1>11, CosocketsKeepSelecting DEF SlotInv
<1> QED BY <1>3, <1>4, <1>5, <1>6, <1>7, <1>9, <1>10, <1>11 DEF Next

\* With one selecting thread, a thread that leaves select, because its call completed,
\* because it was killed or because the request ended, gives back exactly the references
\* of its own call, whatever other calls were refused and leaked.
THEOREM OneSelectorReleasesOwnRefs ==
  ASSUME AtMostOneSelector
  PROVE  Spec => ReleasesOwnRefs
<1>1. SoloInv /\ [Next]_vars => [ReleasesOwn]_vars
  <2> SUFFICES ASSUME SoloInv, [Next]_vars, NEW t \in Threads,
                      pc[t] = "select", pc'[t] # "select"
               PROVE  refs' = refs - (Len(socket[t]) + 1)
    BY DEF ReleasesOwn
  <2>1. SlotInv /\ slot = t
    BY DEF SoloInv, NobodyStranded
  <2>2. ctx_cleanup_and_discard(0)
    BY <2>1, LeavingSelect
  <2>3. refs' = (refs + 0) - (Len(socket[t]) + 1) /\ refs \in Int
    BY <2>1, <2>2 DEF ctx_cleanup_and_discard, SlotInv, TypeOK
  <2> HIDE DEF SoloInv
  <2> QED BY <2>3
<1> QED BY <1>1, SoloInvHolds, PTL DEF Spec, ReleasesOwnRefs

---------------------------------------------------------------------------
(***************************************************************************)
(* Bytes and "timeout".                                                    *)
(***************************************************************************)
\* The kernel has reported the bytes it holds, or will.
Told == \A s \in Socks : data[s] => ready[<<s, "r">>] \/ edge[<<s, "r">>]

\* The sockets that the call in the slot reads are open.
OpenRead ==
  slot # None => \A s \in Socks : Asks(socket[slot], <<s, "r">>) => sstate[s] = "open"

TellInv == HandlerInv /\ Told /\ OpenRead

\* The bytes of a socket and the flag that tells of them are taken together.
LEMMA CosocketsTell ==
  ASSUME TypeOK, CosocketsNext, Told
  PROVE  Told'
<1> USE DEF TypeOK, CosocketsTypeOK
<1>1. CASE UNCHANGED <<data, ready, edge>>
  BY <1>1 DEF Told
<1>2. SUFFICES ASSUME NEW s \in Socks, data'[s], <<s, "r">> \in Ends
               PROVE  ready'[<<s, "r">>] \/ edge'[<<s, "r">>]
  BY EndOf DEF Told, Dirs
<1> DEFINE Goal == ready'[<<s, "r">>] \/ edge'[<<s, "r">>]
<1>3. ASSUME NEW t \in Threads, CosocketLua(t) PROVE Goal
  <2>1. ASSUME NEW x \in Socks, Receive(t, x) PROVE Goal
    <3>1. \E b \in BOOLEAN : edge' = [edge EXCEPT ![<<x, "r">>] = edge[<<x, "r">>] /\ b]
      BY <2>1 DEF Receive
    <3>2. CASE x = s
      <4>1. ~data[x] => data' = data
        BY <2>1 DEF Receive
      <4>2. data[x] => data' = [data EXCEPT ![x] = FALSE]
        BY <2>1 DEF Receive
      <4> QED BY <1>2, <3>2, <4>1, <4>2
    <3>3. CASE x # s
      <4>1. data' = data \/ data' = [data EXCEPT ![x] = FALSE]
        BY <2>1 DEF Receive
      <4>2. ready' = ready \/ \E b \in BOOLEAN : ready' = [ready EXCEPT ![<<x, "r">>] = b]
        BY <2>1 DEF Receive
      <4>3. /\ data[s] /\ ready'[<<s, "r">>] = ready[<<s, "r">>]
            /\ edge'[<<s, "r">>] = edge[<<s, "r">>]
        BY <1>2, <3>1, <3>3, <4>1, <4>2
      <4> QED BY <4>3 DEF Told
    <3> QED BY <3>2, <3>3
  <2>2. ASSUME NEW x \in Socks, Send(t, x) PROVE Goal
    <3>1. ready' = [ready EXCEPT ![<<x, "w">>] = FALSE] /\ UNCHANGED <<data, edge>>
      BY <2>2 DEF Send, kernel
    <3> QED BY <1>2, <3>1 DEF Told
  <2>3. ASSUME NEW x \in Socks, ReceiveBuffered(t, x) \/ Close(t, x) PROVE Goal
    BY <1>1, <1>2, <2>3 DEF ReceiveBuffered, Close, conn, Told
  <2>4. ASSUME NEW e \in Ends, Block(t, e) PROVE Goal
    BY <1>1, <1>2, <2>4 DEF Block, kernel, Told
  <2>5. ASSUME NEW u \in Threads, KillBlocked(t, u) PROVE Goal
    BY <1>1, <1>2, <2>5 DEF KillBlocked, conn, kernel, Told
  <2>6. CASE Sleep(t)
    BY <1>1, <1>2, <2>6 DEF Sleep, conn, kernel, Told
  <2> QED BY <1>3, <2>1, <2>2, <2>3, <2>4, <2>5, <2>6 DEF CosocketLua
<1>4. ASSUME NEW t \in Threads, Wake(t) PROVE Goal
  BY <1>1, <1>2, <1>4 DEF Wake, conn, kernel, Told
<1>5. ASSUME NEW e \in Ends, CosocketEvent(e) PROVE Goal
  <2>1. /\ edge' = [edge EXCEPT ![e] = FALSE] /\ ready' = [ready EXCEPT ![e] = TRUE]
        /\ data' = data
    BY <1>5 DEF CosocketEvent, Report
  <2> QED BY <1>2, <2>1 DEF Told
<1>6. ASSUME NEW x \in Socks, PeerSends(x) PROVE Goal
  <2>1. /\ data' = [data EXCEPT ![x] = TRUE] /\ edge' = [edge EXCEPT ![<<x, "r">>] = TRUE]
        /\ ready' = ready
    BY <1>6 DEF PeerSends, conn
  <2> QED BY <1>2, <2>1 DEF Told
<1>7. ASSUME NEW x \in Socks, PeerCloses(x) \/ Writable(x) PROVE Goal
  <2>1. /\ \E e \in Ends : edge' = [edge EXCEPT ![e] = TRUE]
        /\ UNCHANGED <<data, ready>>
    BY <1>7, EndOf DEF PeerCloses, Writable, conn, Dirs
  <2> QED BY <1>2, <2>1 DEF Told
<1>8. ASSUME NEW x \in Socks, Connected(x) PROVE Goal
  BY <1>1, <1>2, <1>8 DEF Connected, kernel, Told
<1> QED BY <1>3, <1>4, <1>5, <1>6, <1>7, <1>8 DEF CosocketsNext

\* Without sharing nobody closes a socket that the call in the slot reads.
LEMMA CosocketsKeepOpen ==
  ASSUME NoSharing, TypeOK, Held, OpenRead, CosocketsNext, UNCHANGED context
  PROVE  OpenRead'
<1>1. UNCHANGED <<slot, socket>>
  BY DEF context
<1>2. ASSUME slot # None, NEW s \in Socks, Asks(socket[slot], <<s, "r">>)
      PROVE  sstate'[s] = "open"
  <2>1. hdlr[<<s, "r">>] = "select" /\ sstate[s] = "open"
    BY <1>2 DEF Held, OpenRead
  <2> QED BY <2>1, CosocketsLeaveAlone
<1> QED BY <1>1, <1>2 DEF OpenRead, Asks

\* Every step keeps TellInv, with unshared sockets.
LEMMA TellInvNext ==
  ASSUME NoSharing, TellInv, [Next]_vars
  PROVE  TellInv'
<1>0. /\ TypeOK /\ CosocketsTypeOK /\ Held /\ Told /\ OpenRead /\ HandlerInv'
  BY HandlerInvNext DEF TellInv, HandlerInv, SlotInv, TypeOK
<1>1. CASE UNCHANGED <<data, ready, edge, slot, socket, sstate>>
  BY <1>0, <1>1 DEF TellInv, Told, OpenRead, Asks
<1>2. CASE UNCHANGED <<data, ready, edge>> /\ slot' = None
  BY <1>0, <1>2 DEF TellInv, Told, OpenRead
<1>3. ASSUME NEW how, Die(how) \/ DiscardDies(how) PROVE TellInv'
  BY <1>1, <1>3 DEF Die, DiscardDies, context, conn, kernel
<1>4. ASSUME NEW t \in Threads, NEW c \in Calls, Select(t, c) PROVE TellInv'
  <2>1. CASE SelectBadArgs(t, c) \/ SelectBadEntry(t, c) \/ SelectIoctlError(t, c)
    BY <1>1, <2>1 DEF SelectBadArgs, SelectBadEntry, SelectIoctlError, cosockets,
                      context, kernel
  <2>2. CASE SelectAlreadyReady(t, c)
    BY <1>2, <1>3, <2>2 DEF SelectAlreadyReady, ctx_cleanup_and_discard, conn, kernel
  <2>3. CASE SelectYield(t, c)
    <3>1. /\ slot' = t /\ socket'[t] = NewSockets(c) /\ Bad(c) = {}
          /\ UNCHANGED <<sstate, data, ready, edge>>
      BY <1>0, <2>3 DEF SelectYield, set_ctx, TypeOK, Valid, conn, kernel
    <3>2. ASSUME NEW s \in Socks, Asks(NewSockets(c), <<s, "r">>) PROVE sstate[s] = "open"
      <4>1. PICK i \in DOMAIN c.table : c.table[i].sock = s
        BY <3>2, AskedByCall
      <4> QED BY <3>1, <4>1 DEF Bad, BadEntry
    <3> QED BY <1>0, <3>1, <3>2 DEF TellInv, Told, OpenRead
  <2> QED BY <1>4, <2>1, <2>2, <2>3 DEF Select
<1>5. ASSUME NEW e \in Ends, SelectEvent(e) PROVE TellInv'
  <2>1. /\ edge' = [edge EXCEPT ![e] = FALSE] /\ ready' = [ready EXCEPT ![e] = TRUE]
        /\ UNCHANGED <<data, slot, socket, sstate>>
    BY <1>5 DEF SelectEvent, Report
  <2>2. Told'
    BY <1>0, <2>1, EndOf DEF Told, CosocketsTypeOK, Dirs
  <2> QED BY <1>0, <2>1, <2>2 DEF TellInv, OpenRead, Asks
<1>6. CASE \/ \E t \in Threads : timeout_handler(t)
           \/ UNCHANGED vars
  BY <1>1, <1>6 DEF timeout_handler, conn, kernel, vars
<1>7. CASE post_completion_handler
  BY <1>2, <1>3, <1>7 DEF post_completion_handler, ngx_stream_lua_select_resume,
                          ctx_cleanup_and_discard, conn, kernel
<1>8. CASE FreedEvent
  BY <1>3, <1>8 DEF FreedEvent
<1>9. ASSUME NEW t \in Threads, NEW u \in Threads, KillSelecting(t, u) PROVE TellInv'
  BY <1>2, <1>3, <1>9 DEF KillSelecting, ctx_cleanup_and_discard, conn, kernel
<1>10. CASE FinalizeIdle
  BY <1>1, <1>10 DEF FinalizeIdle, Finalize, context, kernel
<1>11. CASE Abort
  <2>1. CASE ctx_cleanup_and_discard(0) /\ Finalize
    BY <1>2, <2>1 DEF ctx_cleanup_and_discard, Finalize, kernel
  <2> QED BY <1>3, <1>10, <1>11, <2>1 DEF Abort
<1>12. ASSUME NEW t \in Threads, Exit(t) PROVE TellInv'
  BY <1>1, <1>10, <1>12 DEF Exit, conn, kernel, context
<1>13. CASE CosocketsNext /\ UNCHANGED <<result, context>>
  BY <1>0, <1>13, CosocketsTell, CosocketsKeepOpen DEF TellInv
<1> QED BY <1>4, <1>5, <1>6, <1>7, <1>8, <1>9, <1>11, <1>12, <1>13 DEF Next

\* TellInv holds throughout.
LEMMA TellInvHolds ==
  ASSUME NoSharing
  PROVE  Spec => []TellInv
<1>1. Init => Told /\ OpenRead
  BY DEF Init, CosocketsInit, Told, OpenRead
<1>2. TellInv /\ [Next]_vars => TellInv'
  BY TellInvNext
<1>3. TellInv <=> HandlerInv /\ Told /\ OpenRead
  BY DEF TellInv
<1> QED BY <1>1, <1>2, <1>3, HandlerInvHolds, PTL DEF Spec

\* A completion that says "timeout" has found none of the asked flags set.
LEMMA TimeoutFindsNothing ==
  ASSUME SlotInv, Discardable, ngx_stream_lua_select_resume, result'[slot].kind = "timeout",
         NEW s \in Socks, Asks(socket[slot], <<s, "r">>), sstate[s] = "open"
  PROVE  ~ready[<<s, "r">>]
<1>1. slot \in Threads /\ slot # None /\ result \in [Threads -> Results]
  BY DEF Discardable, SlotInv, TypeOK
<1>2. PICK up \in [DOMAIN socket[slot] -> SUBSET Dirs] :
        /\ Flags(up)
        /\ result' = [result EXCEPT ![slot] =
                        ngx_lua_select_push_result(socket[slot], up, timedout[slot])]
  BY DEF ngx_stream_lua_select_resume
<1>3. ngx_lua_select_push_result(socket[slot], up, timedout[slot]).kind = "timeout"
  BY <1>1, <1>2
<1>4. {i \in DOMAIN socket[slot] : up[i] # {}} = {}
  BY <1>3 DEF ngx_lua_select_push_result
<1>5. PICK i \in DOMAIN socket[slot] : socket[slot][i].sock = s /\ "r" \in socket[slot][i].rw
  BY DEF Asks
<1>6. up[i] = {} /\ up[i] = socket[slot][i].rw \cap ReadyNow(s)
  BY <1>2, <1>4, <1>5 DEF Flags
<1>7. "r" \notin ReadyNow(s)
  BY <1>5, <1>6
<1> QED BY <1>7 DEF ReadyNow, Dirs

\* However many threads select, in whichever modes, and whatever is killed or refused: a
\* call that returns "timeout" passes over no bytes on the sockets it reads, as long as
\* no other thread uses those: the kernel has not reported them yet, so that the timer
\* has only won the race against their edge.
THEOREM TimeoutsSwallowNothing ==
  ASSUME NoSharing
  PROVE  Spec => TimeoutSwallowsNothing
<1>1. TellInv /\ [Next]_vars => [SwallowsNothing]_vars
  <2> SUFFICES ASSUME TellInv, [Next]_vars, NEW t \in Threads, NEW s \in Socks,
                      pc[t] = "select", pc'[t] = "lua", result'[t].kind = "timeout",
                      Asks(socket[t], <<s, "r">>), data[s]
               PROVE  edge'[<<s, "r">>]
    BY DEF SwallowsNothing
  <2>1. SlotInv /\ Told /\ OpenRead
    BY DEF TellInv, HandlerInv
  <2>2. Discardable /\ slot = t /\ ngx_stream_lua_select_resume
    BY <2>1, LeavingSelect
  <2>3. sstate[s] = "open"
    BY <2>1, <2>2 DEF OpenRead, Discardable
  <2>4. ~ready[<<s, "r">>]
    BY <2>1, <2>2, <2>3, TimeoutFindsNothing
  <2>5. edge[<<s, "r">>]
    BY <2>1, <2>4 DEF Told
  <2>6. edge' = edge
    BY <2>2 DEF ngx_stream_lua_select_resume, kernel
  <2> QED BY <2>5, <2>6
<1> QED BY <1>1, TellInvHolds, PTL DEF Spec, TimeoutSwallowsNothing
===========================================================================
