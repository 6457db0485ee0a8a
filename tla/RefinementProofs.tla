------------------------- MODULE RefinementProofs -------------------------
(***************************************************************************)
(* StreamSelect implements SelectAPI when the Lua code selects for reading *)
(* only, from one thread, lists a socket once, leaves the sockets under    *)
(* select alone, and neither kills a thread nor is cut short.              *)
(***************************************************************************)
EXTENDS HandlerProofs

ReadsOnly == \A c \in Calls : \A i \in DOMAIN c.table : "w" \notin Readwrite(c.table[i])

Disciplined == AtMostOneSelector /\ NoSharing /\ NoCutShort /\ NoRepeats /\ ReadsOnly

\* No write handler is select's, and the entries of the live context are for reading.
Reading ==
  /\ \A s \in Socks : hdlr[<<s, "w">>] # "select"
  /\ slot # None => \A i \in DOMAIN socket[slot] : socket[slot][i].rw = {"r"}

\* The sockets of the live context are open.
Open == slot # None => \A i \in DOMAIN socket[slot] : sstate[socket[slot][i].sock] = "open"

\* A queued completion has a reason that lasts until it runs.
Woken ==
  slot # None /\ posted[slot]
    => \/ timedout[slot]
       \/ \E s \in Socks : Asks(socket[slot], <<s, "r">>) /\ ready[<<s, "r">>]

RefInv == HandlerInv /\ LiveInv /\ EventInv /\ Reading /\ Open /\ Woken

\* The sockets of the live context are read, so that no other thread uses them.
LEMMA EntriesHeld ==
  ASSUME RefInv, slot # None, NEW i \in DOMAIN socket[slot]
  PROVE  /\ socket[slot][i].sock \in Socks
         /\ Asks(socket[slot], <<socket[slot][i].sock, "r">>)
         /\ hdlr[<<socket[slot][i].sock, "r">>] = "select"
<1>1. slot \in Threads /\ socket[slot] \in Seq(SocketEntry)
  BY DEF RefInv, HandlerInv, SlotInv, TypeOK
<1>2. socket[slot][i] \in SocketEntry
  BY <1>1
<1>3. socket[slot][i].sock \in Socks
  BY <1>2 DEF SocketEntry
<1>4. socket[slot][i].rw = {"r"}
  BY DEF RefInv, Reading
<1>5. Asks(socket[slot], <<socket[slot][i].sock, "r">>)
  BY <1>4 DEF Asks
<1> QED BY <1>3, <1>5 DEF RefInv, HandlerInv, Held

\* Every step keeps RefInv, under the discipline.
LEMMA RefInvNext ==
  ASSUME Disciplined, RefInv, [Next]_vars
  PROVE  RefInv'
<1> USE DEF Disciplined
<1>0. /\ TypeOK /\ CosocketsTypeOK /\ SoloInv /\ Reading /\ Open /\ Woken
      /\ HandlerInv' /\ LiveInv' /\ EventInv'
  BY HandlerInvNext, LiveInvNext, EventInvNext
  DEF RefInv, HandlerInv, LiveInv, SoloInv, SlotInv, TypeOK
<1>1. CASE UNCHANGED <<hdlr, slot, socket, sstate, ready, posted, timedout>>
  BY <1>0, <1>1 DEF RefInv, Reading, Open, Woken, Asks
<1>2. ASSUME NEW how, Die(how) \/ DiscardDies(how) PROVE RefInv'
  BY <1>1, <1>2 DEF Die, DiscardDies, context, event, conn
<1>3. ASSUME Discardable, ctx_cleanup_and_discard(0) PROVE RefInv'
  <2>1. slot' = None /\ hdlr' = Restored
    BY <1>3 DEF ctx_cleanup_and_discard
  <2>2. \A s \in Socks : hdlr'[<<s, "w">>] = hdlr[<<s, "w">>]
    BY <2>1, EndOf DEF Restored, Dirs
  <2> QED BY <1>0, <2>1, <2>2 DEF RefInv, Reading, Open, Woken
<1>4. ASSUME NEW t \in Threads, NEW c \in Calls, Select(t, c) PROVE RefInv'
  <2>1. Calling(t, c)
    BY <1>4 DEF Select, SelectBadArgs, SelectBadEntry, SelectIoctlError,
                SelectAlreadyReady, SelectYield, Valid
  <2>2. slot = None
    BY <1>0, <2>1, CallerIsAlone
  <2>3. CASE SelectBadArgs(t, c) \/ SelectBadEntry(t, c) \/ SelectIoctlError(t, c)
    BY <1>1, <2>3 DEF SelectBadArgs, SelectBadEntry, SelectIoctlError, cosockets,
                      context, event
  <2>4. CASE SelectAlreadyReady(t, c)
    BY <1>2, <2>2, <2>4 DEF SelectAlreadyReady, Discardable
  <2>5. CASE SelectYield(t, c)
    <3>1. /\ slot' = t /\ socket'[t] = NewSockets(c) /\ hdlr' = Installed(c)
          /\ sstate' = sstate /\ posted'[t] = FALSE /\ Bad(c) = {}
      BY <1>0, <2>5 DEF SelectYield, set_ctx, TypeOK, Valid, conn
    <3>2. \A i \in DOMAIN c.table : /\ Readwrite(c.table[i]) = {"r"}
                                    /\ sstate[c.table[i].sock] = "open"
      <4>1. ASSUME NEW i \in DOMAIN c.table
            PROVE  /\ Readwrite(c.table[i]) # {} /\ Readwrite(c.table[i]) \in SUBSET {"r", "w"}
                   /\ "w" \notin Readwrite(c.table[i])
                   /\ sstate[c.table[i].sock] = "open"
        BY <3>1, <4>1, TableType DEF Bad, BadEntry, ReadsOnly, Dirs
      <4> QED BY <4>1
    <3>3. /\ DOMAIN NewSockets(c) = DOMAIN c.table
          /\ \A i \in DOMAIN c.table : /\ NewSockets(c)[i].sock = c.table[i].sock
                                       /\ NewSockets(c)[i].rw = Readwrite(c.table[i])
      BY AskedByCall
    <3>4. \A s \in Socks : ~Asks(NewSockets(c), <<s, "w">>)
      BY <3>2, <3>3 DEF Asks
    <3>5. \A s \in Socks : hdlr'[<<s, "w">>] # "select"
      BY <1>0, <3>1, <3>4, EndOf DEF Installed, Reading, Dirs
    <3>6. Reading' /\ Open' /\ Woken'
      BY <3>1, <3>2, <3>3, <3>5 DEF Reading, Open, Woken
    <3> QED BY <1>0, <3>6 DEF RefInv
  <2> QED BY <1>4, <2>3, <2>4, <2>5 DEF Select
<1>5. ASSUME NEW e \in Ends, SelectEvent(e) PROVE RefInv'
  <2>1. /\ UNCHANGED <<hdlr, slot, socket, sstate, timedout>> /\ hdlr[e] = "select"
        /\ ready' = [ready EXCEPT ![e] = TRUE]
    BY <1>5 DEF SelectEvent, Report
  <2>2. PICK s \in Socks : e = <<s, "r">>
    BY <1>0, <2>1, PartsOfEnd DEF Reading, Dirs
  <2>3. slot # None /\ Asks(socket[slot], <<s, "r">>)
    BY <2>1, <2>2 DEF RefInv, LiveInv, HandlersLive
  <2>4. Woken'
    BY <1>0, <2>1, <2>2, <2>3 DEF Woken, Asks, CosocketsTypeOK
  <2> QED BY <1>0, <2>1, <2>4 DEF RefInv, Reading, Open
<1>6. ASSUME NEW t \in Threads, timeout_handler(t) PROVE RefInv'
  <2>1. /\ UNCHANGED <<hdlr, slot, socket, sstate, ready>>
        /\ timedout' = [timedout EXCEPT ![t] = TRUE]
    BY <1>6 DEF timeout_handler, conn
  <2>2. slot = t
    BY <1>0, <1>6 DEF timeout_handler, SoloInv, TimersLive
  <2>3. Woken'
    BY <1>0, <2>1, <2>2 DEF Woken, TypeOK
  <2> QED BY <1>0, <2>1, <2>3 DEF RefInv, Reading, Open
<1>7. CASE post_completion_handler
  BY <1>2, <1>3, <1>7 DEF post_completion_handler, ngx_stream_lua_select_resume
<1>8. CASE FreedEvent
  BY <1>2, <1>8 DEF FreedEvent
<1>9. ~Abort /\ \A t, u \in Threads : ~KillSelecting(t, u)
  BY DEF Abort, KillSelecting, NoCutShort
<1>10. ASSUME NEW t \in Threads, Exit(t) PROVE RefInv'
  BY <1>1, <1>10 DEF Exit, FinalizeIdle, Finalize, context, event, conn
<1>11. CASE CosocketsNext /\ UNCHANGED <<result, context>>
  <2>1. UNCHANGED <<slot, socket, posted, timedout>>
    BY <1>11 DEF context, event
  <2>2. \A s \in Socks : hdlr'[<<s, "w">>] # "select"
    BY <1>0, <1>11, CosocketsInstallNone, EndOf DEF Reading, Dirs
  <2>3. Open'
    <3>1. ASSUME slot # None, NEW i \in DOMAIN socket[slot]
          PROVE  sstate'[socket[slot][i].sock] = "open"
      BY <1>0, <1>11, <3>1, EntriesHeld, CosocketsLeaveAlone DEF Open
    <3> QED BY <2>1, <3>1 DEF Open
  <2>4. Woken'
    <3>1. ASSUME slot # None, NEW s \in Socks, Asks(socket[slot], <<s, "r">>),
                 ready[<<s, "r">>]
          PROVE  ready'[<<s, "r">>]
      <4>1. hdlr[<<s, "r">>] = "select"
        BY <3>1 DEF RefInv, HandlerInv, Held
      <4> QED BY <1>0, <1>11, <3>1, <4>1, CosocketsLeaveAlone
    <3> QED BY <1>0, <2>1, <3>1 DEF Woken, Asks
  <2> QED BY <1>0, <2>1, <2>2, <2>3, <2>4 DEF RefInv, Reading
<1>12. CASE UNCHANGED vars
  BY <1>1, <1>12 DEF vars
<1> QED BY <1>4, <1>5, <1>6, <1>7, <1>8, <1>9, <1>10, <1>11, <1>12 DEF Next

\* RefInv holds throughout.
LEMMA RefInvHolds ==
  ASSUME Disciplined
  PROVE  Spec => []RefInv
<1>1. Init => Reading /\ Open /\ Woken
  BY EndOf DEF Init, CosocketsInit, Reading, Open, Woken, Dirs
<1>2. RefInv /\ [Next]_vars => RefInv'
  BY RefInvNext
<1>3. RefInv <=> HandlerInv /\ LiveInv /\ EventInv /\ Reading /\ Open /\ Woken
  BY DEF RefInv
<1>4. Spec => []HandlerInv /\ []LiveInv /\ []EventInv
  BY HandlerInvHolds, LiveInvHolds, EventInvHolds DEF Disciplined
<1> QED BY <1>1, <1>2, <1>3, <1>4, PTL DEF Spec

---------------------------------------------------------------------------
(***************************************************************************)
(* The simulation. Yielding is Ask, a refusal Refuse, the completion       *)
(* Answer or Expire, the death of the worker Stop; all else is World.      *)
(***************************************************************************)
\* Nothing happens once the worker is dead.
LEMMA NextNeedsWorker == Next => worker = "up"
<1>1. ASSUME NEW t \in Threads, NEW c, Calling(t, c) PROVE worker = "up"
  BY <1>1 DEF Calling, Running
<1>2. ASSUME NEW t \in Threads, NEW c \in Calls, Select(t, c) PROVE worker = "up"
  BY <1>1, <1>2 DEF Select, SelectBadArgs, SelectBadEntry, SelectIoctlError,
                    SelectAlreadyReady, SelectYield, Valid
<1>3. ASSUME \/ \E e \in Ends : SelectEvent(e)
             \/ \E t \in Threads : timeout_handler(t)
             \/ post_completion_handler
             \/ FreedEvent
      PROVE  worker = "up"
  BY <1>3 DEF SelectEvent, Report, timeout_handler, post_completion_handler, FreedEvent,
              EventLoop
<1>4. ASSUME \/ \E t, u \in Threads : KillSelecting(t, u)
             \/ Abort
             \/ \E t \in Threads : Exit(t)
      PROVE  worker = "up"
  BY <1>4 DEF KillSelecting, Abort, Exit, Running
<1>5. ASSUME NEW t \in Threads, CosocketLua(t) PROVE worker = "up"
  BY <1>5 DEF CosocketLua, ReceiveBuffered, Receive, Send, Close, Block, KillBlocked,
              Sleep, MayUse, Running
<1>6. CosocketsNext => worker = "up"
  BY <1>5 DEF CosocketsNext, Wake, CosocketEvent, Report, PeerSends, PeerCloses, Writable,
              Connected, EventLoop
<1> QED BY <1>2, <1>3, <1>4, <1>6 DEF Next

\* A step that moves no thread into select or out of it is a World step.
LEMMA WorldStep ==
  ASSUME worker = "up", UNCHANGED <<worker, result>>,
         \A u \in Threads : /\ pc[u] = "select" <=> pc'[u] = "select"
                            /\ pc[u] = "select" => /\ socket'[u] = socket[u]
                                                   /\ (armed[u] \/ timedout[u])
                                                        <=> (armed[u] \/ timedout[u])'
  PROVE  API!Next
<1>1. apiWaiting' = apiWaiting /\ apiTimed' = apiTimed
  BY DEF apiWaiting, apiTimed
<1>2. apiAsked' = apiAsked
  BY DEF apiAsked, Asks
<1>3. apiAnswer' = apiAnswer /\ apiAlive /\ apiAlive' = apiAlive
  BY DEF apiAnswer, apiAlive, Listed
<1>4. apiUp' \in SUBSET Ends
  BY DEF apiUp
<1> QED BY <1>1, <1>2, <1>3, <1>4 DEF API!Next, API!World

\* A step in which the worker dies is a Stop step.
LEMMA StopStep ==
  ASSUME worker = "up", worker' # "up", UNCHANGED <<pc, socket, result>>,
         \A u \in Threads : pc[u] = "select" => ((armed[u] \/ timedout[u])
                                                   <=> (armed[u] \/ timedout[u])')
  PROVE  API!Next
<1>1. apiWaiting' = apiWaiting /\ apiTimed' = apiTimed
  BY DEF apiWaiting, apiTimed
<1>2. apiAsked' = apiAsked
  BY DEF apiAsked, Asks
<1>3. apiAnswer' = apiAnswer /\ apiAlive /\ apiAlive' = FALSE
  BY DEF apiAnswer, apiAlive, Listed
<1>4. apiUp' \in SUBSET Ends
  BY DEF apiUp
<1> QED BY <1>1, <1>2, <1>3, <1>4 DEF API!Next, API!Stop

\* What a result without a table lists.
LEMMA ListedNothing ==
  ASSUME NEW k PROVE Listed([kind |-> k, mode |-> Nothing]) = API!Plain(k)
<1>1. \A e \in Ends : Nothing[e[1]] = {}
  BY PartsOfEnd DEF Nothing
<1> QED BY <1>1 DEF Listed, API!Plain

\* A refused call is a Refuse step.
LEMMA RefuseStep ==
  ASSUME worker = "up", TypeOK, NEW t \in Threads, pc[t] = "lua", Raise(t),
         UNCHANGED <<pc, socket, armed, timedout, ready, worker>>
  PROVE  API!Next
<1>1. /\ apiWaiting' = apiWaiting /\ apiTimed' = apiTimed /\ apiUp' = apiUp
      /\ apiAlive /\ apiAlive' = apiAlive /\ ~apiWaiting[t]
  BY DEF apiWaiting, apiTimed, apiUp, apiAlive
<1>2. apiAsked' = apiAsked
  BY DEF apiAsked, Asks
<1>3. apiAnswer' = [apiAnswer EXCEPT ![t] = API!Plain("error")]
  <2>1. result' = [result EXCEPT ![t] = [kind |-> "error", mode |-> Nothing]]
    BY DEF Raise
  <2>2. \A u \in Threads : Listed(result'[u]) = IF u = t THEN API!Plain("error")
                                                ELSE Listed(result[u])
    BY <2>1, ListedNothing DEF TypeOK
  <2> QED BY <2>2 DEF apiAnswer
<1> QED BY <1>1, <1>2, <1>3 DEF API!Next, API!Refuse

\* A call that yields is an Ask step.
LEMMA AskStep ==
  ASSUME worker = "up", TypeOK, NEW t \in Threads, pc[t] = "lua", NEW c, SelectYield(t, c)
  PROVE  API!Next
<1>1. /\ pc' = [pc EXCEPT ![t] = "select"]
      /\ \A u \in Threads : u # t => /\ socket'[u] = socket[u]
                                     /\ armed'[u] = armed[u]
                                     /\ timedout'[u] = timedout[u]
      /\ result' = [result EXCEPT ![t] = [kind |-> "none", mode |-> Nothing]]
      /\ UNCHANGED <<ready, worker>>
  BY DEF SelectYield, TypeOK, conn
<1>2. apiWaiting' = [apiWaiting EXCEPT ![t] = TRUE] /\ ~apiWaiting[t]
  BY <1>1 DEF apiWaiting, TypeOK, CosocketsTypeOK
<1>3. \E S \in SUBSET Ends : apiAsked' = [apiAsked EXCEPT ![t] = S]
  <2> DEFINE S == {e \in Ends : Asks(socket'[t], e)}
  <2>1. \A u \in Threads : apiAsked'[u] = IF u = t THEN S ELSE apiAsked[u]
    <3>1. pc'[t] = "select" /\ \A u \in Threads : u # t => pc'[u] = pc[u]
      BY <1>1 DEF TypeOK, CosocketsTypeOK
    <3>2. apiAsked'[t] = S
      BY <3>1 DEF apiAsked
    <3>3. ASSUME NEW u \in Threads, u # t PROVE apiAsked'[u] = apiAsked[u]
      <4>1. pc'[u] = pc[u] /\ socket'[u] = socket[u]
        BY <1>1, <3>1, <3>3
      <4> QED BY <4>1 DEF apiAsked
    <3> HIDE DEF S
    <3> QED BY <3>2, <3>3
  <2>2. apiAsked' = [apiAsked EXCEPT ![t] = S]
    BY <2>1 DEF apiAsked
  <2> HIDE DEF S
  <2>3. S \in SUBSET Ends
    BY DEF S
  <2> QED BY <2>2, <2>3
<1>4. \E limited \in BOOLEAN : apiTimed' = [apiTimed EXCEPT ![t] = limited]
  <2> DEFINE limited == armed'[t] \/ timedout'[t]
  <2>1. apiTimed' = [apiTimed EXCEPT ![t] = limited]
    BY <1>1 DEF apiTimed, TypeOK, CosocketsTypeOK
  <2>2. limited \in BOOLEAN
    OBVIOUS
  <2> HIDE DEF limited
  <2> QED BY <2>1, <2>2
<1>5. apiAnswer' = [apiAnswer EXCEPT ![t] = API!Plain("none")]
  <2>1. \A u \in Threads : Listed(result'[u]) = IF u = t THEN API!Plain("none")
                                                ELSE Listed(result[u])
    BY <1>1, ListedNothing DEF TypeOK
  <2> QED BY <2>1 DEF apiAnswer
<1>6. apiUp' = apiUp /\ apiAlive' = apiAlive /\ apiAlive
  BY <1>1 DEF apiUp, apiAlive
<1> QED BY <1>2, <1>3, <1>4, <1>5, <1>6 DEF API!Next, API!Ask

\* The result of a completed call lists the asked directions that are ready, or is
\* "timeout" when there is none.
LEMMA CompletionLists ==
  ASSUME RefInv, slot # None, posted[slot],
         NEW up \in [DOMAIN socket[slot] -> SUBSET Dirs], Flags(up)
  PROVE  LET r == ngx_lua_select_push_result(socket[slot], up, timedout[slot])
             A == {e \in Ends : Asks(socket[slot], e)} \cap apiUp
         IN  \/ A # {} /\ Listed(r) = API!Table(A)
             \/ A = {} /\ timedout[slot] /\ Listed(r) = API!Plain("timeout")
<1> DEFINE list == socket[slot]
           r == ngx_lua_select_push_result(list, up, timedout[slot])
           A == {e \in Ends : Asks(list, e)} \cap apiUp
           listed == {i \in DOMAIN list : up[i] # {}}
           of(s) == {i \in listed : list[i].sock = s}
<1>1. PICK n \in Nat : DOMAIN list = 1 .. n
  BY DEF RefInv, HandlerInv, SlotInv, TypeOK
<1>2. ASSUME NEW i \in DOMAIN list
      PROVE  /\ list[i].sock \in Socks /\ list[i].rw = {"r"}
             /\ up[i] = IF ready[<<list[i].sock, "r">>] THEN {"r"} ELSE {}
  <2>1. list[i].sock \in Socks /\ list[i].rw = {"r"} /\ sstate[list[i].sock] = "open"
    BY EntriesHeld DEF RefInv, Reading, Open
  <2>2. up[i] = list[i].rw \cap ReadyNow(list[i].sock)
    BY <2>1 DEF Flags
  <2> QED BY <2>1, <2>2 DEF ReadyNow, Dirs
<1>3. ASSUME NEW e \in Ends
      PROVE  e \in A <=> e[2] = "r" /\ of(e[1]) # {}
  <2>1. e[1] \in Socks /\ e = <<e[1], e[2]>>
    BY PartsOfEnd
  <2>2. e \in A <=> (\E i \in DOMAIN list : list[i].sock = e[1] /\ e[2] \in list[i].rw)
                      /\ ready[e]
    BY DEF Asks, apiUp
  <2>3. ASSUME e \in A PROVE e[2] = "r" /\ of(e[1]) # {}
    <3>1. PICK i \in DOMAIN list : list[i].sock = e[1] /\ e[2] \in list[i].rw
      BY <2>2, <2>3
    <3>2. e[2] = "r" /\ ready[<<list[i].sock, "r">>]
      BY <1>2, <2>1, <2>2, <2>3, <3>1
    <3>3. up[i] = {"r"}
      BY <1>2, <3>2
    <3>4. i \in of(e[1])
      BY <3>1, <3>3
    <3> QED BY <3>2, <3>4
  <2>4. ASSUME e[2] = "r", NEW i \in of(e[1]) PROVE e \in A
    <3>1. i \in DOMAIN list /\ list[i].sock = e[1] /\ up[i] # {}
      OBVIOUS
    <3>2. e[2] \in list[i].rw /\ ready[<<list[i].sock, "r">>]
      BY <1>2, <2>4, <3>1
    <3>3. ready[e]
      BY <2>1, <2>4, <3>1, <3>2
    <3> QED BY <2>2, <3>1, <3>2, <3>3
  <2> QED BY <2>3, <2>4
<1>4. ASSUME NEW s \in Socks, of(s) # {} PROVE up[Last(of(s))] = {"r"}
  <2>1. of(s) \subseteq 1 .. n
    BY <1>1
  <2>2. Last(of(s)) \in of(s)
    BY <1>4, <2>1, LastIn
  <2> QED BY <1>2, <2>2
<1>5. A = {} <=> listed = {}
  <2>1. ASSUME NEW i \in listed PROVE <<list[i].sock, "r">> \in A
    <3>1. <<list[i].sock, "r">> \in Ends
      BY <1>2, EndOf DEF Dirs
    <3> QED BY <1>3, <3>1
  <2> QED BY <1>3, <2>1
<1>6. CASE listed = {}
  <2>1. timedout[slot]
    <3>1. ASSUME NEW s \in Socks, Asks(list, <<s, "r">>), ready[<<s, "r">>] PROVE FALSE
      <4>1. <<s, "r">> \in A
        BY <3>1, EndOf DEF apiUp, Dirs
      <4> QED BY <1>5, <1>6, <4>1
    <3> QED BY <3>1 DEF RefInv, Woken
  <2>2. r = [kind |-> "timeout", mode |-> Nothing]
    BY <1>6, <2>1 DEF ngx_lua_select_push_result
  <2> QED BY <1>5, <1>6, <2>1, <2>2, ListedNothing
<1>7. CASE listed # {}
  <2> DEFINE m == [s \in Socks |-> IF of(s) = {} THEN {} ELSE up[Last(of(s))]]
  <2>1. r = [kind |-> "table", mode |-> m]
    BY <1>7 DEF ngx_lua_select_push_result
  <2>2. ASSUME NEW e \in Ends PROVE e[2] \in m[e[1]] <=> e \in A
    <3>1. e[1] \in Socks
      BY PartsOfEnd
    <3>2. m[e[1]] = IF of(e[1]) = {} THEN {} ELSE {"r"}
      BY <1>4, <3>1
    <3> HIDE DEF m, of, A
    <3> QED BY <1>3, <3>2
  <2> HIDE DEF m
  <2>3. r.kind = "table" /\ r.mode = m
    BY <2>1
  <2>4. {e \in Ends : e[2] \in r.mode[e[1]]} = A
    BY <2>2, <2>3
  <2>5. Listed(r) = API!Table(A)
    BY <2>3, <2>4 DEF Listed, API!Table
  <2> QED BY <1>5, <1>7, <2>5
<1> QED BY <1>6, <1>7

\* The completion is an Answer or an Expire step.
LEMMA CompletionStep ==
  ASSUME worker = "up", RefInv, Discardable, Queued, ngx_stream_lua_select_resume
  PROVE  API!Next
<1>1. /\ TypeOK /\ CosocketsTypeOK /\ slot \in Threads /\ slot # None
      /\ pc[slot] = "select" /\ posted[slot]
  BY DEF Discardable, Queued, RefInv, HandlerInv, SlotInv, SlotWaits, TypeOK, EventInv,
         EventsLive
<1>2. PICK up \in [DOMAIN socket[slot] -> SUBSET Dirs] :
        /\ Flags(up)
        /\ result' = [result EXCEPT ![slot] =
                        ngx_lua_select_push_result(socket[slot], up, timedout[slot])]
  BY DEF ngx_stream_lua_select_resume
<1> DEFINE r == ngx_lua_select_push_result(socket[slot], up, timedout[slot])
           A == {e \in Ends : Asks(socket[slot], e)} \cap apiUp
<1>3. /\ pc' = [pc EXCEPT ![slot] = "lua"] /\ UNCHANGED <<socket, timedout, ready, worker>>
      /\ \A u \in Threads : u # slot => armed'[u] = armed[u]
  BY <1>1 DEF ngx_stream_lua_select_resume, ctx_cleanup_and_discard, conn, TypeOK
<1>4. apiWaiting[slot] /\ apiWaiting' = [apiWaiting EXCEPT ![slot] = FALSE]
  BY <1>1, <1>3 DEF apiWaiting, CosocketsTypeOK
<1>5. apiTimed' = [apiTimed EXCEPT ![slot] = FALSE]
  BY <1>1, <1>3 DEF apiTimed, CosocketsTypeOK
<1>6. apiAsked' = [apiAsked EXCEPT ![slot] = {}]
  <2>1. \A u \in Threads : apiAsked'[u] = IF u = slot THEN {} ELSE apiAsked[u]
    BY <1>1, <1>3 DEF apiAsked, CosocketsTypeOK, Asks
  <2> QED BY <2>1 DEF apiAsked
<1>7. apiUp' = apiUp /\ apiAlive' = apiAlive /\ apiAlive
  BY <1>3 DEF apiUp, apiAlive
<1>8. API!Leave(slot)
  BY <1>4, <1>5, <1>6, <1>7 DEF API!Leave
<1>9. apiAsked[slot] \cap apiUp = A
  BY <1>1 DEF apiAsked
<1>10. timedout[slot] => apiTimed[slot]
  BY <1>1 DEF apiTimed, TypeOK
<1>11. apiAnswer' = [apiAnswer EXCEPT ![slot] = Listed(r)]
  <2>1. result'[slot] = r /\ \A u \in Threads : u # slot => result'[u] = result[u]
    BY <1>1, <1>2 DEF TypeOK
  <2> HIDE DEF r
  <2>2. \A u \in Threads : Listed(result'[u]) = IF u = slot THEN Listed(r)
                                                ELSE Listed(result[u])
    BY <2>1
  <2> QED BY <2>2 DEF apiAnswer
<1>12. \/ A # {} /\ Listed(r) = API!Table(A)
       \/ A = {} /\ timedout[slot] /\ Listed(r) = API!Plain("timeout")
  BY <1>1, <1>2, CompletionLists
<1> HIDE DEF r, A
<1>13. API!Answer(slot) \/ API!Expire(slot)
  BY <1>8, <1>9, <1>10, <1>11, <1>12 DEF API!Answer, API!Expire
<1> QED BY <1>1, <1>7, <1>13 DEF API!Next

\* Every step of the module is one of SelectAPI.
LEMMA NextSimulates ==
  ASSUME Disciplined, RefInv, Next
  PROVE  API!Next
<1> USE DEF Disciplined
<1>0. /\ worker = "up" /\ TypeOK /\ CosocketsTypeOK /\ SlotInv /\ SoloInv
  BY NextNeedsWorker DEF RefInv, HandlerInv, LiveInv, SoloInv, SlotInv, TypeOK
<1>1. ASSUME NEW how \in Crashes, Die(how) \/ DiscardDies(how) PROVE API!Next
  <2>1. worker' # "up" /\ UNCHANGED <<pc, socket, result, armed, timedout>>
    BY <1>1 DEF Die, DiscardDies, context, Crashes
  <2> QED BY <1>0, <2>1, StopStep
<1>2. ASSUME NEW t \in Threads, NEW c \in Calls, Select(t, c) PROVE API!Next
  <2>1. Calling(t, c)
    BY <1>2 DEF Select, SelectBadArgs, SelectBadEntry, SelectIoctlError,
                SelectAlreadyReady, SelectYield, Valid
  <2>2. slot = None /\ pc[t] = "lua"
    BY <1>0, <2>1, CallerIsAlone DEF Calling, Running
  <2>3. CASE SelectBadArgs(t, c) \/ SelectBadEntry(t, c) \/ SelectIoctlError(t, c)
    <3>1. Raise(t) /\ UNCHANGED <<pc, socket, armed, timedout, ready, worker>>
      BY <2>3 DEF SelectBadArgs, SelectBadEntry, SelectIoctlError, cosockets, context
    <3> QED BY <1>0, <2>2, <3>1, RefuseStep
  <2>4. CASE SelectAlreadyReady(t, c)
    BY <1>1, <2>2, <2>4 DEF SelectAlreadyReady, Discardable, Crashes
  <2>5. CASE SelectYield(t, c)
    BY <1>0, <2>2, <2>5, AskStep
  <2> QED BY <1>2, <2>3, <2>4, <2>5 DEF Select
<1>3. ASSUME socket_event_activated, UNCHANGED <<pc, socket, result>>,
             \A u \in Threads : pc[u] = "select" => ((armed[u] \/ timedout[u])
                                                       <=> (armed[u] \/ timedout[u])')
      PROVE  API!Next
  <2>1. CASE worker' = "segv_event"
    BY <1>0, <1>3, <2>1, StopStep
  <2>2. CASE worker' = worker
    BY <1>0, <1>3, <2>2, WorldStep
  <2> QED BY <1>3, <2>1, <2>2 DEF socket_event_activated
<1>4. ASSUME NEW e \in Ends, SelectEvent(e) PROVE API!Next
  BY <1>3, <1>4 DEF SelectEvent
<1>5. ASSUME NEW t \in Threads, timeout_handler(t) PROVE API!Next
  <2>1. /\ armed[t] /\ armed' = [armed EXCEPT ![t] = FALSE]
        /\ timedout' = [timedout EXCEPT ![t] = TRUE]
        /\ socket_event_activated /\ UNCHANGED <<pc, socket, result>>
    BY <1>5 DEF timeout_handler
  <2>2. \A u \in Threads : (armed[u] \/ timedout[u]) <=> (armed'[u] \/ timedout'[u])
    BY <1>0, <2>1 DEF TypeOK
  <2> QED BY <1>3, <2>1, <2>2
<1>6. CASE post_completion_handler
  BY <1>0, <1>1, <1>6, CompletionStep DEF post_completion_handler, Crashes
<1>7. CASE FreedEvent
  BY <1>1, <1>7 DEF FreedEvent, Crashes
<1>8. ~Abort /\ \A t, u \in Threads : ~KillSelecting(t, u)
  BY DEF Abort, KillSelecting, NoCutShort
<1>9. ASSUME NEW t \in Threads, Exit(t) PROVE API!Next
  <2>1. UNCHANGED <<worker, result, socket, armed, timedout>>
    BY <1>9 DEF Exit, FinalizeIdle, context
  <2>2. \A u \in Threads : pc[u] = "select" <=> pc'[u] = "select"
    BY <1>0, <1>9 DEF Exit, Running, FinalizeIdle, Finalize, Selecting, CosocketsTypeOK
  <2> QED BY <1>0, <2>1, <2>2, WorldStep
<1>10. CASE CosocketsNext /\ UNCHANGED <<result, context>>
  <2>1. UNCHANGED <<result, socket, armed, timedout>>
    BY <1>10 DEF context
  <2>2. \A u \in Threads : pc[u] = "select" <=> pc'[u] = "select"
    BY <1>0, <1>10, CosocketsKeepSelecting DEF SlotInv
  <2>3. worker' = worker
    BY <1>0, <1>10, CosocketsType
  <2> QED BY <1>0, <2>1, <2>2, <2>3, WorldStep
<1> QED BY <1>2, <1>4, <1>5, <1>6, <1>7, <1>8, <1>9, <1>10 DEF Next

\* Used with the discipline above, for any number of threads and sockets and any
\* interleaving, the select module implements SelectAPI: a completed call returns
\* exactly the sockets that are ready among those it asked for, "timeout" only when it
\* had a time limit and none is, and a refused call disturbs nobody.
THEOREM SelectImplementsAPI ==
  ASSUME Disciplined
  PROVE  Spec => ImplementsAPI
<1>1. Init => API!Init
  <2> SUFFICES ASSUME Init PROVE API!Init
    OBVIOUS
  <2>1. \A t \in Threads : pc[t] # "select" /\ result[t] = [kind |-> "none", mode |-> Nothing]
    BY DEF Init, CosocketsInit
  <2>2. worker = "up"
    BY DEF Init, CosocketsInit
  <2>3. apiAnswer = [t \in Threads |-> API!Plain("none")]
    BY <2>1, ListedNothing DEF apiAnswer
  <2> QED BY <2>1, <2>2, <2>3
        DEF API!Init, apiWaiting, apiAsked, apiTimed, apiUp, apiAlive
<1>2. RefInv /\ [Next]_vars => [API!Next]_(API!api)
  <2> SUFFICES ASSUME RefInv, [Next]_vars PROVE [API!Next]_(API!api)
    OBVIOUS
  <2>1. CASE Next
    BY <2>1, NextSimulates
  <2>2. CASE UNCHANGED vars
    BY <2>2 DEF vars, API!api, apiWaiting, apiAsked, apiTimed, apiUp, apiAnswer, apiAlive,
                Listed, Asks
  <2> QED BY <2>1, <2>2
<1>3. Spec => API!Spec
  BY <1>1, <1>2, RefInvHolds, PTL DEF Spec, API!Spec
<1> QED BY <1>3 DEF ImplementsAPI
===========================================================================
