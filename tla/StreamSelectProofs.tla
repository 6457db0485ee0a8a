------------------------ MODULE StreamSelectProofs ------------------------
(***************************************************************************)
(* What holds of StreamSelect for every set of threads, sockets and calls, *)
(* however the Lua code, the peers and the kernel behave.                  *)
(***************************************************************************)
EXTENDS SelectProperties, WellFoundedInduction, TLAPS

---------------------------------------------------------------------------
(***************************************************************************)
(* Facts about the operators the model is built from.                      *)
(***************************************************************************)
\* The last index of a set of array indices is one of them: the entry that
\* ngx_lua_select_push_result and the clean-up leave in place exists.
LEMMA LastIn ==
  ASSUME NEW n \in Nat, NEW I \in SUBSET (1 .. n), I # {}
  PROVE  Last(I) \in I /\ \A j \in I : j <= Last(I)
<1> DEFINE R == OpToRel(<, Nat)
           T == {k \in Nat : n - k \in I}
<1>0. R = {ss \in Nat \X Nat : ss[1] < ss[2]}
  BY Zenon DEF OpToRel
<1>1. IsWellFoundedOn(R, Nat)
  BY NatLessThanWellFounded
<1>2. T \subseteq Nat /\ T # {}
  <2>1. PICK i \in I : TRUE
    OBVIOUS
  <2>2. n - i \in Nat /\ n - (n - i) = i
    OBVIOUS
  <2> QED BY <2>1, <2>2
<1> HIDE DEF T, R
<1>3. PICK k \in T : \A m \in T : ~(<<m, k>> \in R)
  BY <1>1, <1>2, WFMin
<1>4. \A m \in T : k <= m
  <2>1. ASSUME NEW m \in Nat, m < k, k \in Nat PROVE <<m, k>> \in R
    <3>1. <<m, k>> \in {ss \in Nat \X Nat : ss[1] < ss[2]}
      BY <2>1
    <3> QED BY <1>0, <3>1
  <2>2. ASSUME NEW m \in T PROVE ~(m < k)
    BY <1>2, <1>3, <2>1
  <2> QED BY <1>2, <2>2
<1>5. n - k \in I /\ \A j \in I : j <= n - k
  <2>1. n - k \in I
    BY DEF T
  <2>2. ASSUME NEW j \in I PROVE j <= n - k
    <3>1. n - j \in T
      BY DEF T
    <3> QED BY <3>1, <1>2, <1>4
  <2> QED BY <2>1, <2>2
<1> QED BY <1>5 DEF Last

\* Whatever the ready bits, ngx_lua_select_push_result returns a result.
LEMMA PushResultType ==
  ASSUME NEW n \in Nat, NEW list, DOMAIN list = 1 .. n,
         NEW up \in [DOMAIN list -> SUBSET Dirs], NEW late \in BOOLEAN
  PROVE  ngx_lua_select_push_result(list, up, late) \in Results
<1> DEFINE listed == {i \in DOMAIN list : up[i] # {}}
           of(s)  == {i \in listed : list[i].sock = s}
<1>1. ASSUME NEW s \in Socks, of(s) # {} PROVE up[Last(of(s))] \in SUBSET Dirs
  <2>1. of(s) \in SUBSET (1 .. n)
    OBVIOUS
  <2>2. Last(of(s)) \in of(s)
    <3> HIDE DEF of
    <3> QED BY <1>1, <2>1, LastIn
  <2> QED BY <2>2
<1>2. [s \in Socks |-> IF of(s) = {} THEN {} ELSE up[Last(of(s))]] \in [Socks -> SUBSET Dirs]
  BY <1>1
<1>3. Nothing \in [Socks -> SUBSET Dirs]
  BY DEF Nothing
<1> QED BY <1>2, <1>3 DEF ngx_lua_select_push_result, Results

\* A direction of a socket is one of the ends.
LEMMA EndOf == \A s \in Socks, d \in Dirs : <<s, d>> \in Ends
BY DEF Ends

\* An end is a socket and a direction.
LEMMA PartsOfEnd == \A e \in Ends : e[1] \in Socks /\ e[2] \in Dirs /\ e = <<e[1], e[2]>>
BY DEF Ends

\* The entries of a call's table, by the assumption on the calls.
LEMMA TableType ==
  ASSUME NEW c \in Calls
  PROVE  /\ Len(c.table) \in Nat
         /\ DOMAIN c.table = 1 .. Len(c.table)
         /\ \A i \in DOMAIN c.table : /\ c.table[i].sock \in Socks \cup {None}
                                      /\ Readwrite(c.table[i]) \in SUBSET Dirs
<1> DEFINE E == [kind : EntryKinds, sock : Socks \cup {None}, chars : SUBSET Dirs]
<1>1. c.table \in Seq(E)
  BY SelectConstants
<1>2. \A e \in E : e.sock \in Socks \cup {None} /\ Readwrite(e) \in SUBSET Dirs
  BY DEF Readwrite, Dirs
<1> HIDE DEF E
<1>3. /\ Len(c.table) \in Nat
      /\ DOMAIN c.table = 1 .. Len(c.table)
      /\ \A i \in DOMAIN c.table : c.table[i] \in E
  BY <1>1
<1> QED BY <1>2, <1>3

\* The socket[] array of a valid call, with the handlers it saves.
LEMMA NewSocketsType ==
  ASSUME TypeOK, NEW c \in Calls, Bad(c) = {}
  PROVE  NewSockets(c) \in Seq(SocketEntry) /\ Len(NewSockets(c)) = Len(c.table)
<1> DEFINE n == Len(c.table)
<1>1. \A i \in 1 .. n : c.table[i].sock \in Socks
  BY TableType DEF Bad, BadEntry
<1>2. ASSUME NEW i \in 1 .. n PROVE SavedBy(c, i) \in Handlers
  BY <1>1, EndOf DEF SavedBy, TypeOK, CosocketsTypeOK, Handlers, Dirs
<1>3. ASSUME NEW i \in 1 .. n PROVE Saved(c, i) \in Handlers \cup {None}
  <2> DEFINE s  == c.table[i].sock
             by == IF ngx_lua_select_get_socket_type(s) = "TCP_DOWNSTREAM"
                   THEN Reads(c, s) ELSE Reads(c, s) \cap {i}
  <2>1. n \in Nat /\ by \in SUBSET (1 .. n)
    BY TableType DEF Reads
  <2>2. by # {} => Last(by) \in 1 .. n
    <3> HIDE DEF by, n
    <3> QED BY <2>1, LastIn
  <2>3. Saved(c, i) = IF by = {} THEN None ELSE SavedBy(c, Last(by))
    BY DEF Saved
  <2> HIDE DEF by
  <2> QED BY <1>2, <2>2, <2>3
<1>4. \A i \in 1 .. n :
        [sock |-> c.table[i].sock, rw |-> Readwrite(c.table[i]), prev |-> Saved(c, i)]
          \in SocketEntry
  BY <1>1, <1>3, TableType DEF SocketEntry
<1>5. n \in Nat
  BY TableType
<1> QED BY <1>4, <1>5 DEF NewSockets

\* Installing select's handlers keeps their type.
LEMMA InstalledType ==
  ASSUME TypeOK, NEW c
  PROVE  Installed(c) \in [Ends -> Handlers]
BY DEF Installed, TypeOK, CosocketsTypeOK, Handlers

\* The clean-up puts a handler back wherever it puts one.
LEMMA RestoredType ==
  ASSUME TypeOK, Discardable
  PROVE  Restored \in [Ends -> Handlers]
<1>1. /\ socket[slot] \in Seq(SocketEntry)
      /\ Len(socket[slot]) \in Nat
      /\ DOMAIN socket[slot] = 1 .. Len(socket[slot])
  BY DEF TypeOK, Discardable
<1>2. \A i \in DOMAIN socket[slot] : socket[slot][i].prev \in Handlers
  <2>1. \A e \in SocketEntry : e.prev \in Handlers \cup {None}
    BY DEF SocketEntry
  <2>2. \A i \in DOMAIN socket[slot] : socket[slot][i] \in SocketEntry
    BY <1>1
  <2> QED BY <2>1, <2>2 DEF Discardable, PrevSaved
<1>3. ASSUME NEW s, Entries(s) # {} PROVE Last(Entries(s)) \in DOMAIN socket[slot]
  <2>1. Entries(s) \in SUBSET (1 .. Len(socket[slot]))
    BY <1>1 DEF Entries
  <2> QED BY <1>1, <1>3, <2>1, LastIn
<1> QED BY <1>2, <1>3 DEF Restored, TypeOK, CosocketsTypeOK

---------------------------------------------------------------------------
(***************************************************************************)
(* Type correctness.                                                       *)
(***************************************************************************)
\* The Lua code, the kernel and the event loop keep the cosockets well typed.
LEMMA CosocketsType ==
  ASSUME TypeOK, CosocketsNext
  PROVE  CosocketsTypeOK' /\ worker' = worker
<1> USE DEF TypeOK, CosocketsTypeOK, conn, kernel
<1>1. ASSUME NEW t \in Threads, CosocketLua(t)
      PROVE  CosocketsTypeOK' /\ worker' = worker
  <2>1. ASSUME NEW s \in Socks, Receive(t, s) \/ ReceiveBuffered(t, s)
        PROVE  CosocketsTypeOK' /\ worker' = worker
    <3>1. CASE ReceiveBuffered(t, s)
      BY <3>1 DEF ReceiveBuffered
    <3>2. CASE Receive(t, s)
      <4>1. /\ UNCHANGED <<pc, waits, eof, active, unsent, hdlr, worker>>
            /\ data' = data \/ data' = [data EXCEPT ![s] = FALSE]
        BY <3>2 DEF Receive
      <4>2. buf' = buf \/ \E b \in BOOLEAN : buf' = [buf EXCEPT ![s] = b]
        BY <3>2 DEF Receive
      <4>3. ready' = ready \/ \E b \in BOOLEAN : ready' = [ready EXCEPT ![<<s, "r">>] = b]
        BY <3>2 DEF Receive
      <4>4. sstate' = sstate \/ sstate' = [sstate EXCEPT ![s] = "closed"]
        BY <3>2 DEF Receive
      <4>5. buf' \in [Socks -> BOOLEAN] /\ ready' \in [Ends -> BOOLEAN]
        BY <4>2, <4>3
      <4>6. sstate' \in [Socks -> SockStates]
        BY <4>4 DEF SockStates
      <4>7. edge' \in [Ends -> BOOLEAN]
        BY <3>2 DEF Receive
      <4> QED BY <4>1, <4>5, <4>6, <4>7
    <3> QED BY <2>1, <3>1, <3>2
  <2>2. ASSUME NEW s \in Socks, Send(t, s) PROVE CosocketsTypeOK' /\ worker' = worker
    BY <2>2 DEF Send
  <2>3. ASSUME NEW s \in Socks, Close(t, s) PROVE CosocketsTypeOK' /\ worker' = worker
    BY <2>3 DEF Close, SockStates
  <2>4. ASSUME NEW e \in Ends, Block(t, e) PROVE CosocketsTypeOK' /\ worker' = worker
    BY <2>4 DEF Block, Handlers
  <2>5. ASSUME NEW u \in Threads, KillBlocked(t, u) PROVE CosocketsTypeOK' /\ worker' = worker
    BY <2>5 DEF KillBlocked, Handlers
  <2>6. CASE Sleep(t)
    BY <2>6 DEF Sleep
  <2> QED BY <1>1, <2>1, <2>2, <2>3, <2>4, <2>5, <2>6 DEF CosocketLua
<1>2. ASSUME NEW t \in Threads, Wake(t) PROVE CosocketsTypeOK' /\ worker' = worker
  BY <1>2 DEF Wake
<1>3. ASSUME NEW e \in Ends, CosocketEvent(e) PROVE CosocketsTypeOK' /\ worker' = worker
  BY <1>3 DEF CosocketEvent, Report, Handlers
<1>4. ASSUME NEW s \in Socks, PeerSends(s) \/ PeerCloses(s) \/ Writable(s) \/ Connected(s)
      PROVE  CosocketsTypeOK' /\ worker' = worker
  BY <1>4 DEF PeerSends, PeerCloses, Writable, Connected, SockStates
<1> QED BY <1>1, <1>2, <1>3, <1>4 DEF CosocketsNext

\* A step that kills the worker leaves the rest of the state as it was.
LEMMA DieType ==
  ASSUME TypeOK, NEW how \in Crashes, Die(how)
  PROVE  TypeOK'
BY DEF TypeOK, CosocketsTypeOK, Die, conn, kernel, context, event, Crashes

\* Discarding the context in the slot.
LEMMA DiscardType ==
  ASSUME TypeOK, Discardable, NEW leaked \in Nat, ctx_cleanup_and_discard(leaked)
  PROVE  /\ armed' \in [Threads -> BOOLEAN]
         /\ hdlr' \in [Ends -> Handlers]
         /\ refs' \in Int
         /\ slot' \in Threads \cup {None}
         /\ socket' = socket /\ timedout' = timedout
         /\ referenced' \subseteq Threads
<1>1. Len(socket[slot]) \in Nat
  BY DEF TypeOK, Discardable
<1>2. hdlr' \in [Ends -> Handlers]
  BY RestoredType DEF ctx_cleanup_and_discard
<1>3. refs' \in Int
  BY <1>1 DEF TypeOK, ctx_cleanup_and_discard
<1> QED BY <1>2, <1>3 DEF TypeOK, ctx_cleanup_and_discard

\* A clean-up that crashes changes the worker only.
LEMMA DiscardDiesType ==
  ASSUME TypeOK, NEW how \in Crashes, DiscardDies(how)
  PROVE  TypeOK'
BY DieType DEF DiscardDies, Crashes

\* The end of the request keeps the types.
LEMMA FinalizeType ==
  ASSUME TypeOK, Finalize
  PROVE  /\ pc' \in [Threads -> {"lua", "select", "io", "dead"}]
         /\ waits' \in [Threads -> Ends \cup {None}]
         /\ active' \in [Ends -> BOOLEAN]
BY DEF Finalize

\* lua_select_module_select on each of its ways out.
LEMMA SelectType ==
  ASSUME TypeOK, NEW t \in Threads, NEW c \in Calls, Select(t, c)
  PROVE  TypeOK'
<1> USE DEF TypeOK, CosocketsTypeOK, conn, kernel
<1>0. [kind |-> "error", mode |-> Nothing] \in Results /\ [kind |-> "none", mode |-> Nothing] \in Results
  BY DEF Results, Nothing
<1>1. CASE SelectBadArgs(t, c)
  BY <1>0, <1>1 DEF SelectBadArgs, Raise, cosockets, context, event
<1>2. ASSUME NEW n \in Nat, select_fail_cleanup(c, n)
      PROVE  refs' \in Int /\ active' \in [Ends -> BOOLEAN]
  BY <1>2 DEF select_fail_cleanup
<1>3. CASE SelectBadEntry(t, c)
  <2>1. PICK i \in Bad(c) : select_fail_cleanup(c, i - 1)
    BY <1>3 DEF SelectBadEntry
  <2>2. i - 1 \in Nat
    BY TableType DEF Bad
  <2> QED BY <1>0, <1>2, <1>3, <2>1, <2>2 DEF SelectBadEntry, Raise, event
<1>4. CASE SelectIoctlError(t, c)
  <2>1. Len(c.table) \in Nat /\ select_fail_cleanup(c, Len(c.table))
    BY <1>4, TableType DEF SelectIoctlError
  <2> QED BY <1>0, <1>2, <1>4, <2>1 DEF SelectIoctlError, Raise, event
<1>5. CASE SelectAlreadyReady(t, c)
  <2>1. CASE DiscardDies("segv_select")
    BY <2>1, DiscardDiesType DEF Crashes
  <2>2. CASE ~DiscardDies("segv_select")
    <3>1. /\ Discardable
          /\ ctx_cleanup_and_discard(Len(c.table) + 1)
          /\ UNCHANGED <<pc, waits, conn, kernel, worker, event>>
      BY <1>5, <2>2 DEF SelectAlreadyReady
    <3>2. PICK up \in [DOMAIN c.table -> SUBSET Dirs] :
            result' = [result EXCEPT ![t] = ngx_lua_select_push_result(c.table, up, FALSE)]
      BY <1>5, <2>2 DEF SelectAlreadyReady
    <3>3. ngx_lua_select_push_result(c.table, up, FALSE) \in Results
      BY TableType, PushResultType
    <3>4. result' \in [Threads -> Results]
      BY <3>2, <3>3
    <3>5. Len(c.table) + 1 \in Nat
      BY TableType
    <3>6. /\ armed' \in [Threads -> BOOLEAN]
          /\ hdlr' \in [Ends -> Handlers]
          /\ refs' \in Int
          /\ slot' \in Threads \cup {None}
          /\ socket' = socket /\ timedout' = timedout
          /\ referenced' \subseteq Threads
      BY <3>1, <3>5, DiscardType
    <3> QED BY <3>1, <3>4, <3>6 DEF event
  <2> QED BY <2>1, <2>2
<1>6. CASE SelectYield(t, c)
  <2>1. Bad(c) = {}
    BY <1>6 DEF SelectYield, Valid
  <2>2. socket' \in [Threads -> Seq(SocketEntry)]
    BY <1>6, <2>1, NewSocketsType DEF SelectYield
  <2>3. hdlr' \in [Ends -> Handlers]
    BY <1>6, InstalledType DEF SelectYield
  <2>4. refs' \in Int
    BY <1>6, TableType DEF SelectYield
  <2>5. armed' \in [Threads -> BOOLEAN]
    BY <1>6 DEF SelectYield
  <2> QED BY <1>0, <1>6, <2>2, <2>3, <2>4, <2>5 DEF SelectYield, set_ctx
<1> QED BY <1>1, <1>3, <1>4, <1>5, <1>6 DEF Select

\* The completion of a call.
LEMMA CompletionType ==
  ASSUME TypeOK, post_completion_handler
  PROVE  TypeOK'
<1> USE DEF TypeOK, CosocketsTypeOK, conn, kernel
<1>1. CASE DiscardDies("segv_posted")
  BY <1>1, DiscardDiesType DEF Crashes
<1>2. CASE Discardable /\ Dequeue /\ ngx_stream_lua_select_resume
  <2>1. slot \in Threads
    BY <1>2 DEF Discardable
  <2>2. PICK up \in [DOMAIN socket[slot] -> SUBSET Dirs] :
          result' = [result EXCEPT ![slot] =
                       ngx_lua_select_push_result(socket[slot], up, timedout[slot])]
    BY <1>2 DEF ngx_stream_lua_select_resume
  <2>3. Len(socket[slot]) \in Nat /\ DOMAIN socket[slot] = 1 .. Len(socket[slot])
    BY <2>1
  <2>4. ngx_lua_select_push_result(socket[slot], up, timedout[slot]) \in Results
    BY <2>1, <2>3, PushResultType
  <2>5. result' \in [Threads -> Results]
    BY <2>2, <2>4
  <2>6. /\ armed' \in [Threads -> BOOLEAN]
        /\ hdlr' \in [Ends -> Handlers]
        /\ refs' \in Int
        /\ slot' \in Threads \cup {None}
        /\ socket' = socket /\ timedout' = timedout
        /\ referenced' \subseteq Threads
    BY <1>2, DiscardType DEF ngx_stream_lua_select_resume
  <2>7. posted' \in [Threads -> BOOLEAN] /\ stray' \in Nat
    <3>1. CASE \E t \in Threads : posted' = [posted EXCEPT ![t] = FALSE] /\ UNCHANGED stray
      BY <3>1
    <3>2. CASE stray > 0 /\ stray' = stray - 1 /\ UNCHANGED posted
      BY <3>2
    <3> QED BY <1>2, <3>1, <3>2 DEF Dequeue
  <2>8. pc' \in [Threads -> {"lua", "select", "io", "dead"}]
    BY <1>2 DEF ngx_stream_lua_select_resume
  <2> QED BY <1>2, <2>5, <2>6, <2>7, <2>8 DEF ngx_stream_lua_select_resume
<1> QED BY <1>1, <1>2 DEF post_completion_handler

\* The clean-up of a thread that is killed, and the end of the request.
LEMMA CleanupType ==
  ASSUME TypeOK,
         \/ \E t, u \in Threads : KillSelecting(t, u)
         \/ Abort
         \/ \E t \in Threads : Exit(t)
  PROVE  TypeOK'
<1> USE DEF TypeOK, CosocketsTypeOK, conn, kernel, event
<1>1. ASSUME NEW t \in Threads, NEW u \in Threads, KillSelecting(t, u) PROVE TypeOK'
  <2>1. CASE DiscardDies("segv_cleanup")
    BY <2>1, DiscardDiesType DEF Crashes
  <2>2. CASE Discardable /\ ctx_cleanup_and_discard(0)
    <3>1. /\ armed' \in [Threads -> BOOLEAN]
          /\ hdlr' \in [Ends -> Handlers]
          /\ refs' \in Int
          /\ slot' \in Threads \cup {None}
          /\ socket' = socket /\ timedout' = timedout
          /\ referenced' \subseteq Threads
      BY <2>2, DiscardType
    <3>2. CASE DiscardDies("segv_cleanup")
      BY <2>1, <3>2
    <3>3. CASE ~DiscardDies("segv_cleanup")
      BY <1>1, <3>1, <3>3 DEF KillSelecting
    <3> QED BY <3>2, <3>3
  <2> QED BY <1>1, <2>1, <2>2 DEF KillSelecting
<1>2. ASSUME FinalizeIdle PROVE TypeOK'
  <2>1. /\ pc' \in [Threads -> {"lua", "select", "io", "dead"}]
        /\ waits' \in [Threads -> Ends \cup {None}]
        /\ active' \in [Ends -> BOOLEAN]
    BY <1>2, FinalizeType DEF FinalizeIdle
  <2> QED BY <1>2, <2>1 DEF FinalizeIdle, Finalize, context
<1>3. CASE Abort
  <2>1. CASE FinalizeIdle
    BY <1>2, <2>1
  <2>2. CASE DiscardDies("segv_cleanup") \/ Die("segv_cleanup")
    BY <2>2, DieType, DiscardDiesType DEF Crashes
  <2>3. CASE /\ Discardable
             /\ ctx_cleanup_and_discard(0)
             /\ Finalize
             /\ UNCHANGED <<worker, result, event>>
    <3>1. /\ armed' \in [Threads -> BOOLEAN]
          /\ hdlr' \in [Ends -> Handlers]
          /\ refs' \in Int
          /\ slot' \in Threads \cup {None}
          /\ socket' = socket /\ timedout' = timedout
          /\ referenced' \subseteq Threads
      BY <2>3, DiscardType
    <3>2. /\ pc' \in [Threads -> {"lua", "select", "io", "dead"}]
          /\ waits' \in [Threads -> Ends \cup {None}]
          /\ active' \in [Ends -> BOOLEAN]
      BY <2>3, FinalizeType
    <3> QED BY <2>3, <3>1, <3>2 DEF Finalize
  <2> QED BY <1>3, <2>1, <2>2, <2>3 DEF Abort
<1>4. ASSUME NEW t \in Threads, Exit(t) PROVE TypeOK'
  <2>1. CASE FinalizeIdle
    BY <1>2, <2>1
  <2>2. CASE /\ pc' = [pc EXCEPT ![t] = "dead"]
             /\ UNCHANGED <<waits, conn, kernel, hdlr, worker, result, context>>
    BY <2>2 DEF context
  <2> QED BY <1>4, <2>1, <2>2 DEF Exit
<1> QED BY <1>1, <1>3, <1>4

\* The initial state is well typed.
LEMMA TypeInit == Init => TypeOK
<1> SUFFICES ASSUME Init PROVE TypeOK
  OBVIOUS
<1>1. CosocketsTypeOK /\ worker \in Crashes \cup {"up"}
  BY CosocketConstants DEF Init, CosocketsInit, CosocketsTypeOK, Handlers
<1>2. result \in [Threads -> Results]
  BY DEF Init, Results, Nothing
<1>3. socket \in [Threads -> Seq(SocketEntry)]
  BY DEF Init
<1> QED BY <1>1, <1>2, <1>3 DEF Init, TypeOK

\* What the five event handlers do to the queue.
LEMMA ActivatedType ==
  ASSUME TypeOK, socket_event_activated
  PROVE  /\ posted' \in [Threads -> BOOLEAN] /\ stray' \in Nat
         /\ worker' \in Crashes \cup {"up"}
BY DEF TypeOK, socket_event_activated, event, Crashes

\* Every step keeps the types.
LEMMA TypeNext == TypeOK /\ [Next]_vars => TypeOK'
<1> SUFFICES ASSUME TypeOK, [Next]_vars PROVE TypeOK'
  OBVIOUS
<1>1. CASE \E t \in Threads, c \in Calls : Select(t, c)
  BY <1>1, SelectType
<1>2. CASE \E e \in Ends : SelectEvent(e)
  <2>1. PICK e \in Ends : SelectEvent(e)
    BY <1>2
  <2>2. /\ edge' = [edge EXCEPT ![e] = FALSE] /\ ready' = [ready EXCEPT ![e] = TRUE]
        /\ UNCHANGED <<pc, waits, sstate, active, data, buf, eof, unsent, hdlr,
                       result, slot, socket, armed, timedout, refs, referenced>>
        /\ socket_event_activated
    BY <2>1 DEF SelectEvent, Report
  <2>3. CosocketsTypeOK'
    BY <2>2 DEF TypeOK, CosocketsTypeOK
  <2> QED BY <2>2, <2>3, ActivatedType DEF TypeOK
<1>3. CASE \E t \in Threads : timeout_handler(t)
  <2>1. PICK t \in Threads : timeout_handler(t)
    BY <1>3
  <2>2. /\ armed' = [armed EXCEPT ![t] = FALSE] /\ timedout' = [timedout EXCEPT ![t] = TRUE]
        /\ UNCHANGED <<pc, waits, conn, kernel, hdlr, result, slot, socket, refs,
                       referenced>>
        /\ socket_event_activated
    BY <2>1 DEF timeout_handler
  <2>3. CosocketsTypeOK'
    BY <2>2 DEF TypeOK, CosocketsTypeOK, conn, kernel
  <2> QED BY <2>2, <2>3, ActivatedType DEF TypeOK
<1>4. CASE post_completion_handler
  BY <1>4, CompletionType
<1>5. CASE FreedEvent
  BY <1>5, DieType DEF FreedEvent, Crashes
<1>6. CASE \/ \E t, u \in Threads : KillSelecting(t, u)
           \/ Abort
           \/ \E t \in Threads : Exit(t)
  BY <1>6, CleanupType
<1>7. CASE CosocketsNext /\ UNCHANGED <<result, context>>
  BY <1>7, CosocketsType DEF TypeOK, context, event
<1>8. CASE UNCHANGED vars
  BY <1>8 DEF TypeOK, CosocketsTypeOK, vars
<1> QED BY <1>1, <1>2, <1>3, <1>4, <1>5, <1>6, <1>7, <1>8 DEF Next

\* Every variable keeps its type; in particular the clean-up, whose assertion on the
\* saved handlers stands, never leaves a NULL event handler behind.
THEOREM TypeCorrect == Spec => []TypeOK
<1>1. Init => TypeOK
  BY TypeInit
<1>2. TypeOK /\ [Next]_vars => TypeOK'
  BY TypeNext
<1> QED BY <1>1, <1>2, PTL DEF Spec

---------------------------------------------------------------------------
(***************************************************************************)
(* The context in the slot belongs to a yielded thread, and the registry   *)
(* holds the references that discarding it gives back. The first needs to  *)
(* know that the wake-up of a blocked receive or send never touches a      *)
(* thread in select: such a thread waits for no cosocket operation.        *)
(***************************************************************************)
Blocked == \A t \in Threads : waits[t] # None => pc[t] = "io"

SlotInv == TypeOK /\ Blocked /\ SlotWaits /\ NoDoubleUnref

\* The rest of the system moves no thread into select or out of it.
LEMMA CosocketsKeepSelecting ==
  ASSUME TypeOK, Blocked, CosocketsNext
  PROVE  /\ Blocked'
         /\ \A u \in Threads : pc[u] = "select" <=> pc'[u] = "select"
<1> DEFINE Keeps == /\ Blocked'
                    /\ \A u \in Threads : pc[u] = "select" <=> pc'[u] = "select"
<1> USE DEF TypeOK, CosocketsTypeOK, Blocked
<1>1. ASSUME NEW t \in Threads, CosocketLua(t) PROVE Keeps
  <2>1. ASSUME NEW s \in Socks,
               ReceiveBuffered(t, s) \/ Receive(t, s) \/ Send(t, s) \/ Close(t, s)
        PROVE  Keeps
    BY <2>1 DEF ReceiveBuffered, Receive, Send, Close
  <2>2. ASSUME NEW e \in Ends, Block(t, e) PROVE Keeps
    BY <2>2 DEF Block, MayUse, Running
  <2>3. ASSUME NEW u \in Threads, KillBlocked(t, u) PROVE Keeps
    BY <2>3 DEF KillBlocked
  <2>4. CASE Sleep(t)
    BY <2>4 DEF Sleep, Running
  <2> QED BY <1>1, <2>1, <2>2, <2>3, <2>4 DEF CosocketLua
<1>2. ASSUME NEW t \in Threads, Wake(t) PROVE Keeps
  BY <1>2 DEF Wake
<1>3. ASSUME NEW e \in Ends, CosocketEvent(e) PROVE Keeps
  <2>1. e # None
    BY CosocketConstants
  <2> QED BY <1>3, <2>1 DEF CosocketEvent
<1>4. ASSUME NEW s \in Socks, PeerSends(s) \/ PeerCloses(s) \/ Writable(s) \/ Connected(s)
      PROVE  Keeps
  BY <1>4 DEF PeerSends, PeerCloses, Writable, Connected
<1> QED BY <1>1, <1>2, <1>3, <1>4 DEF CosocketsNext

\* A discarded context gives back no more than the registry holds.
LEMMA DiscardKeepsRefs ==
  ASSUME TypeOK, NoDoubleUnref, Discardable, NEW leaked \in Nat,
         ctx_cleanup_and_discard(leaked)
  PROVE  slot' = None /\ refs' >= leaked /\ NoDoubleUnref'
<1>1. PICK n \in Nat : n = Len(socket[slot])
  BY DEF TypeOK, Discardable
<1>2. refs \in Int /\ refs >= n + 1
  BY <1>1 DEF TypeOK, Discardable, NoDoubleUnref
<1>3. slot' = None /\ refs' = (refs + leaked) - (n + 1)
  BY <1>1 DEF ctx_cleanup_and_discard
<1>4. refs' >= leaked /\ refs' >= 0
  BY <1>2, <1>3
<1> QED BY <1>3, <1>4 DEF NoDoubleUnref

\* Dying changes nothing that the invariant speaks of.
LEMMA DieKeepsSlotInv ==
  ASSUME SlotInv, NEW how \in Crashes, Die(how)
  PROVE  SlotInv'
BY DieType DEF SlotInv, Die, Blocked, SlotWaits, NoDoubleUnref, context

\* A call keeps SlotInv, whichever way it leaves lua_select_module_select.
LEMMA SelectKeepsSlotInv ==
  ASSUME SlotInv, NEW t \in Threads, NEW c \in Calls, Select(t, c)
  PROVE  SlotInv'
<1>0. TypeOK /\ TypeOK'
  BY SelectType DEF SlotInv
<1>1. refs \in Int /\ refs >= 0
  BY <1>0 DEF SlotInv, NoDoubleUnref, TypeOK
<1>2. ASSUME NEW n \in Nat, refs' = refs + n, UNCHANGED <<pc, waits, slot, socket>>
      PROVE  Blocked' /\ SlotWaits' /\ NoDoubleUnref'
  <2>1. \A x \in Threads : Len(socket[x]) \in Nat
    BY <1>0 DEF TypeOK
  <2> QED BY <1>0, <1>1, <1>2, <2>1 DEF SlotInv, Blocked, SlotWaits, NoDoubleUnref, TypeOK
<1>3. CASE SelectBadArgs(t, c)
  <2>1. refs' = refs + 0 /\ UNCHANGED <<pc, waits, slot, socket>>
    BY <1>1, <1>3 DEF SelectBadArgs, cosockets, context
  <2> QED BY <1>0, <1>2, <2>1 DEF SlotInv
<1>4. CASE SelectBadEntry(t, c)
  <2>1. PICK i \in Bad(c) : select_fail_cleanup(c, i - 1)
    BY <1>4 DEF SelectBadEntry
  <2>2. i - 1 \in Nat
    BY TableType DEF Bad
  <2>3. refs' = refs + (i - 1) /\ UNCHANGED <<pc, waits, slot, socket>>
    BY <1>4, <2>1 DEF SelectBadEntry, select_fail_cleanup
  <2> QED BY <1>0, <1>2, <2>2, <2>3 DEF SlotInv
<1>5. CASE SelectIoctlError(t, c)
  <2>1. refs' = refs + Len(c.table) /\ UNCHANGED <<pc, waits, slot, socket>>
    BY <1>5 DEF SelectIoctlError, select_fail_cleanup
  <2> QED BY <1>0, <1>2, <2>1, TableType DEF SlotInv
<1>6. CASE SelectAlreadyReady(t, c)
  <2>1. CASE DiscardDies("segv_select")
    BY <2>1, DieKeepsSlotInv DEF DiscardDies, Crashes
  <2>2. CASE /\ Discardable
             /\ ctx_cleanup_and_discard(Len(c.table) + 1)
             /\ UNCHANGED <<pc, waits>>
    <3>1. slot' = None /\ NoDoubleUnref'
      BY <1>0, <2>2, TableType, DiscardKeepsRefs DEF SlotInv
    <3> QED BY <1>0, <2>2, <3>1 DEF SlotInv, Blocked, SlotWaits
  <2> QED BY <1>6, <2>1, <2>2 DEF SelectAlreadyReady
<1>7. CASE SelectYield(t, c)
  <2>1. NewSockets(c) \in Seq(SocketEntry) /\ Len(NewSockets(c)) = Len(c.table)
    BY <1>0, <1>7, NewSocketsType DEF SelectYield, Valid
  <2>2. slot' = t /\ pc'[t] = "select" /\ socket'[t] = NewSockets(c)
    BY <1>0, <1>7 DEF SelectYield, set_ctx, TypeOK, CosocketsTypeOK
  <2>3. NoDoubleUnref'
    BY <1>1, <1>7, <2>1, <2>2, TableType DEF SelectYield, NoDoubleUnref
  <2>4. Blocked'
    BY <1>0, <1>7 DEF SelectYield, Valid, Calling, Running, Blocked, SlotInv,
                      TypeOK, CosocketsTypeOK
  <2> QED BY <1>0, <2>2, <2>3, <2>4 DEF SlotInv, SlotWaits
<1> QED BY <1>3, <1>4, <1>5, <1>6, <1>7 DEF Select

\* A kill, an abort and the end of a Lua function keep SlotInv.
LEMMA CleanupKeepsSlotInv ==
  ASSUME SlotInv,
         \/ \E t, u \in Threads : KillSelecting(t, u)
         \/ Abort
         \/ \E t \in Threads : Exit(t)
  PROVE  SlotInv'
<1>0. TypeOK /\ TypeOK'
  BY CleanupType DEF SlotInv
<1>1. ASSUME Discardable, ctx_cleanup_and_discard(0) PROVE slot' = None /\ NoDoubleUnref'
  BY <1>0, <1>1, DiscardKeepsRefs DEF SlotInv
<1>2. ASSUME NEW t \in Threads, NEW u \in Threads, KillSelecting(t, u) PROVE SlotInv'
  <2>1. CASE DiscardDies("segv_cleanup")
    BY <2>1, DieKeepsSlotInv DEF DiscardDies, Crashes
  <2>2. CASE /\ Discardable /\ ctx_cleanup_and_discard(0)
             /\ pc' = [pc EXCEPT ![u] = "dead"] /\ UNCHANGED waits
    <3>1. pc[u] = "select"
      BY <1>2 DEF KillSelecting, Selecting
    <3>2. Blocked'
      BY <1>0, <2>2, <3>1 DEF SlotInv, Blocked, TypeOK, CosocketsTypeOK
    <3> QED BY <1>0, <1>1, <2>2, <3>2 DEF SlotInv, SlotWaits
  <2> QED BY <1>2, <2>1, <2>2 DEF KillSelecting
<1>3. ASSUME FinalizeIdle PROVE SlotInv'
  <2>1. slot = None
    BY <1>0, <1>3 DEF FinalizeIdle, Selecting, SlotInv, SlotWaits, TypeOK
  <2> QED BY <1>0, <1>3, <2>1
        DEF FinalizeIdle, Finalize, SlotInv, SlotWaits, Blocked, NoDoubleUnref, context
<1>4. CASE Abort
  <2>1. CASE FinalizeIdle
    BY <1>3, <2>1
  <2>2. CASE DiscardDies("segv_cleanup") \/ Die("segv_cleanup")
    BY <2>2, DieKeepsSlotInv DEF DiscardDies, Crashes
  <2>3. CASE Discardable /\ ctx_cleanup_and_discard(0) /\ Finalize
    BY <1>0, <1>1, <2>3 DEF Finalize, SlotInv, SlotWaits, Blocked
  <2> QED BY <1>4, <2>1, <2>2, <2>3 DEF Abort
<1>5. ASSUME NEW t \in Threads, Exit(t) PROVE SlotInv'
  <2>1. CASE FinalizeIdle
    BY <1>3, <2>1
  <2>2. CASE /\ pc' = [pc EXCEPT ![t] = "dead"]
             /\ UNCHANGED <<waits, context>>
    <3>1. pc[t] = "lua"
      BY <1>5 DEF Exit, Running
    <3> QED BY <1>0, <2>2, <3>1 DEF SlotInv, SlotWaits, Blocked, NoDoubleUnref, context,
                                    TypeOK, CosocketsTypeOK
  <2> QED BY <1>5, <2>1, <2>2 DEF Exit
<1> QED BY <1>2, <1>4, <1>5

\* Every step keeps SlotInv.
LEMMA SlotInvNext == SlotInv /\ [Next]_vars => SlotInv'
<1> SUFFICES ASSUME SlotInv, [Next]_vars PROVE SlotInv'
  OBVIOUS
<1>0. TypeOK /\ TypeOK'
  BY TypeNext DEF SlotInv
<1>1. CASE \E t \in Threads, c \in Calls : Select(t, c)
  BY <1>1, SelectKeepsSlotInv
<1>2. CASE UNCHANGED <<pc, waits, slot, socket, refs>>
  BY <1>0, <1>2 DEF SlotInv, Blocked, SlotWaits, NoDoubleUnref
<1>3. CASE \/ \E e \in Ends : SelectEvent(e)
           \/ \E t \in Threads : timeout_handler(t)
           \/ UNCHANGED vars
  BY <1>2, <1>3 DEF SelectEvent, timeout_handler, vars
<1>4. CASE post_completion_handler
  <2>1. CASE DiscardDies("segv_posted")
    BY <2>1, DieKeepsSlotInv DEF DiscardDies, Crashes
  <2>2. CASE Discardable /\ ngx_stream_lua_select_resume
    <3>1. slot' = None /\ NoDoubleUnref'
      BY <1>0, <2>2, DiscardKeepsRefs DEF SlotInv, ngx_stream_lua_select_resume
    <3>2. slot \in Threads /\ pc[slot] = "select" /\ waits[slot] = None
      BY <1>0, <2>2 DEF Discardable, SlotInv, SlotWaits, Blocked, TypeOK
    <3>3. pc' = [pc EXCEPT ![slot] = "lua"] /\ waits' = waits
      BY <2>2 DEF ngx_stream_lua_select_resume
    <3> QED BY <1>0, <3>1, <3>2, <3>3 DEF SlotInv, SlotWaits, Blocked, TypeOK, CosocketsTypeOK
  <2> QED BY <1>4, <2>1, <2>2 DEF post_completion_handler
<1>5. CASE FreedEvent
  BY <1>5, DieKeepsSlotInv DEF FreedEvent, Crashes
<1>6. CASE \/ \E t, u \in Threads : KillSelecting(t, u)
           \/ Abort
           \/ \E t \in Threads : Exit(t)
  BY <1>6, CleanupKeepsSlotInv
<1>7. CASE CosocketsNext /\ UNCHANGED <<result, context>>
  <2>1. Blocked' /\ \A u \in Threads : pc[u] = "select" <=> pc'[u] = "select"
    BY <1>0, <1>7, CosocketsKeepSelecting DEF SlotInv
  <2>2. UNCHANGED <<slot, socket, refs>>
    BY <1>7 DEF context
  <2> QED BY <1>0, <2>1, <2>2 DEF SlotInv, SlotWaits, NoDoubleUnref, TypeOK
<1> QED BY <1>1, <1>3, <1>4, <1>5, <1>6, <1>7 DEF Next

\* SlotInv holds throughout.
LEMMA SlotInvHolds == Spec => []SlotInv
<1>1. Init => SlotInv
  BY TypeInit DEF Init, CosocketsInit, SlotInv, Blocked, SlotWaits, NoDoubleUnref
<1>2. SlotInv /\ [Next]_vars => SlotInv'
  BY SlotInvNext
<1> QED BY <1>1, <1>2, PTL DEF Spec

\* However many threads select, whatever is killed or finalised: the completion resumes
\* only a thread that is yielded in select.
THEOREM ResumesYieldedThread == Spec => []SlotWaits
<1>1. SlotInv => SlotWaits
  BY DEF SlotInv
<1> QED BY <1>1, SlotInvHolds, PTL

\* No clean-up releases a registry reference twice, with overlapping selects, refused
\* calls, and the early return for bytes that already wait included.
THEOREM RegistryNeverOverdrawn == Spec => []NoDoubleUnref
<1>1. SlotInv => NoDoubleUnref
  BY DEF SlotInv
<1> QED BY <1>1, SlotInvHolds, PTL
===========================================================================
