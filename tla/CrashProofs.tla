---------------------------- MODULE CrashProofs ----------------------------
(***************************************************************************)
(* What the worker dies of. Each crash of the model has a discipline of    *)
(* the Lua code that rules it out; together they leave one, the early      *)
(* return of a call whose bytes already wait.                              *)
(***************************************************************************)
EXTENDS RefinementProofs

\* Every table entry that names a direction names reading: "r" or "rw", never "w".
EntriesRead ==
  \A c \in Calls : \A i \in DOMAIN c.table :
    Readwrite(c.table[i]) # {} => "r" \in Readwrite(c.table[i])

\* An entry that reads its socket has a saved handler.
LEMMA ReadEntrySaves ==
  ASSUME TypeOK, NEW c \in Calls, NEW i \in DOMAIN c.table, c.table[i].sock \in Socks,
         "r" \in Readwrite(c.table[i])
  PROVE  Saved(c, i) # None
<1> DEFINE s == c.table[i].sock
           by == IF ngx_lua_select_get_socket_type(s) = "TCP_DOWNSTREAM"
                 THEN Reads(c, s) ELSE Reads(c, s) \cap {i}
<1>1. i \in by /\ by \subseteq Reads(c, s)
  BY DEF Reads
<1>2. PICK n \in Nat : DOMAIN c.table = 1 .. n
  BY TableType
<1>3. Reads(c, s) \subseteq 1 .. n
  BY <1>2 DEF Reads
<1>4. Last(by) \in Reads(c, s)
  BY <1>1, <1>3, LastIn
<1>5. c.table[Last(by)].sock = s
  BY <1>4 DEF Reads
<1>6. hdlr[<<s, "r">>] \in Handlers
  BY EndOf DEF TypeOK, CosocketsTypeOK, Dirs
<1>7. SavedBy(c, Last(by)) \in Handlers
  BY <1>5, <1>6 DEF SavedBy, Handlers
<1>8. SavedBy(c, Last(by)) # None
  BY <1>7, CosocketConstants
<1> QED BY <1>1, <1>8 DEF Saved

SavedInv == TypeOK /\ (slot # None => PrevSaved) /\ PrevHandlerSaved

\* Every step keeps SavedInv: the yield saves a handler for each entry, and nobody drops one.
LEMMA SavedInvNext ==
  ASSUME EntriesRead, SavedInv, [Next]_vars
  PROVE  SavedInv'
<1>0. TypeOK /\ TypeOK' /\ (slot # None => PrevSaved) /\ PrevHandlerSaved
  BY TypeNext DEF SavedInv
<1>1. CASE UNCHANGED <<slot, socket>> /\ worker' # "assert_prev_read"
  BY <1>0, <1>1 DEF SavedInv, PrevSaved, PrevHandlerSaved
<1>2. CASE slot' = None /\ worker' = worker
  BY <1>0, <1>2 DEF SavedInv, PrevHandlerSaved
<1>3. ASSUME NEW how, how # "assert_prev_read", Die(how) \/ DiscardDies(how)
      PROVE  SavedInv'
  BY <1>0, <1>1, <1>3 DEF Die, DiscardDies, context
<1>4. ASSUME NEW t \in Threads, NEW c \in Calls, Select(t, c) PROVE SavedInv'
  <2>1. CASE SelectBadArgs(t, c) \/ SelectBadEntry(t, c) \/ SelectIoctlError(t, c)
    BY <1>0, <1>1, <2>1 DEF SelectBadArgs, SelectBadEntry, SelectIoctlError, cosockets,
                            context, PrevHandlerSaved
  <2>2. CASE SelectAlreadyReady(t, c)
    BY <1>2, <1>3, <2>2 DEF SelectAlreadyReady, ctx_cleanup_and_discard
  <2>3. CASE SelectYield(t, c)
    <3>1. slot' = t /\ socket'[t] = NewSockets(c) /\ worker' = worker /\ Bad(c) = {}
      BY <1>0, <2>3 DEF SelectYield, set_ctx, TypeOK, Valid
    <3>2. ASSUME NEW i \in DOMAIN c.table PROVE Saved(c, i) # None
      <4>1. c.table[i].sock \in Socks /\ Readwrite(c.table[i]) # {}
        BY <3>1, TableType DEF Bad, BadEntry
      <4> QED BY <1>0, <4>1, ReadEntrySaves DEF EntriesRead
    <3>3. /\ DOMAIN NewSockets(c) = DOMAIN c.table
          /\ \A i \in DOMAIN c.table : NewSockets(c)[i].prev = Saved(c, i)
      BY AskedByCall
    <3>4. PrevSaved'
      BY <3>1, <3>2, <3>3 DEF PrevSaved
    <3> QED BY <1>0, <3>1, <3>4 DEF SavedInv, PrevHandlerSaved
  <2> QED BY <1>4, <2>1, <2>2, <2>3 DEF Select
<1>5. CASE \/ \E e \in Ends : SelectEvent(e)
           \/ \E t \in Threads : timeout_handler(t)
  BY <1>0, <1>1, <1>5 DEF SelectEvent, timeout_handler, socket_event_activated,
                          PrevHandlerSaved
<1>6. CASE post_completion_handler
  BY <1>2, <1>3, <1>6 DEF post_completion_handler, ngx_stream_lua_select_resume,
                          ctx_cleanup_and_discard
<1>7. CASE FreedEvent
  BY <1>3, <1>7 DEF FreedEvent
<1>8. ASSUME NEW t \in Threads, NEW u \in Threads, KillSelecting(t, u) PROVE SavedInv'
  BY <1>2, <1>3, <1>8 DEF KillSelecting, ctx_cleanup_and_discard
<1>9. CASE FinalizeIdle
  BY <1>0, <1>1, <1>9 DEF FinalizeIdle, context, PrevHandlerSaved
<1>10. CASE Abort
  BY <1>2, <1>3, <1>9, <1>10 DEF Abort, ctx_cleanup_and_discard
<1>11. ASSUME NEW t \in Threads, Exit(t) PROVE SavedInv'
  BY <1>0, <1>1, <1>9, <1>11 DEF Exit, context, PrevHandlerSaved
<1>12. CASE CosocketsNext /\ UNCHANGED <<result, context>>
  BY <1>0, <1>1, <1>12, CosocketsType DEF context, PrevHandlerSaved
<1>13. CASE UNCHANGED vars
  BY <1>0, <1>1, <1>13 DEF vars, PrevHandlerSaved
<1> QED BY <1>4, <1>5, <1>6, <1>7, <1>8, <1>10, <1>11, <1>12, <1>13 DEF Next

\* For any number of selecting threads, overlapping calls, kills and shared sockets, the
\* assertion on the saved read handler in ngx_stream_lua_select_ctx_cleanup_and_discard
\* holds if every entry reads its socket; the write_only run shows the remaining case.
THEOREM AssertionHoldsForReaders ==
  ASSUME EntriesRead
  PROVE  Spec => []PrevHandlerSaved
<1>1. Init => SavedInv
  BY TypeInit DEF Init, CosocketsInit, SavedInv, PrevHandlerSaved
<1>2. SavedInv /\ [Next]_vars => SavedInv'
  BY SavedInvNext
<1>3. SavedInv => PrevHandlerSaved
  BY DEF SavedInv
<1> QED BY <1>1, <1>2, <1>3, PTL DEF Spec

---------------------------------------------------------------------------
\* No write handler is one of select's.
NoWriteHandlers == \A s \in Socks : hdlr[<<s, "w">>] # "select"

QuietInv == LiveInv /\ NoWriteHandlers /\ EventFindsContext

\* Every step keeps QuietInv: an event of select's handler finds the context in the slot.
LEMMA QuietInvNext ==
  ASSUME AtMostOneSelector, NoRepeats, ReadsOnly, QuietInv, [Next]_vars
  PROVE  QuietInv'
<1>0. /\ TypeOK /\ SoloInv /\ HandlersLive /\ TimersLive /\ NoWriteHandlers
      /\ EventFindsContext /\ LiveInv'
  BY LiveInvNext DEF QuietInv, LiveInv, SoloInv, SlotInv
<1>1. CASE UNCHANGED hdlr /\ worker' # "segv_event"
  BY <1>0, <1>1 DEF QuietInv, NoWriteHandlers, EventFindsContext
<1>2. CASE hdlr' = Restored /\ worker' = worker
  <2>1. \A s \in Socks : hdlr'[<<s, "w">>] = hdlr[<<s, "w">>]
    BY <1>2, EndOf DEF Restored, Dirs
  <2> QED BY <1>0, <1>2, <2>1 DEF QuietInv, NoWriteHandlers, EventFindsContext
<1>3. ASSUME NEW how, how # "segv_event", Die(how) \/ DiscardDies(how) PROVE QuietInv'
  BY <1>1, <1>3 DEF Die, DiscardDies
<1>4. ASSUME NEW t \in Threads, NEW c \in Calls, Select(t, c) PROVE QuietInv'
  <2>1. CASE SelectBadArgs(t, c) \/ SelectBadEntry(t, c) \/ SelectIoctlError(t, c)
    BY <1>0, <1>1, <2>1 DEF SelectBadArgs, SelectBadEntry, SelectIoctlError, cosockets,
                            EventFindsContext
  <2>2. CASE SelectAlreadyReady(t, c)
    BY <1>2, <1>3, <2>2 DEF SelectAlreadyReady, ctx_cleanup_and_discard
  <2>3. CASE SelectYield(t, c)
    <3>1. hdlr' = Installed(c) /\ worker' = worker
      BY <2>3 DEF SelectYield
    <3>2. \A s \in Socks : ~Asks(NewSockets(c), <<s, "w">>)
      BY AskedByCall DEF ReadsOnly
    <3>3. \A s \in Socks : hdlr'[<<s, "w">>] = hdlr[<<s, "w">>]
      BY <3>1, <3>2, EndOf DEF Installed, Dirs
    <3> QED BY <1>0, <3>1, <3>3 DEF QuietInv, NoWriteHandlers, EventFindsContext
  <2> QED BY <1>4, <2>1, <2>2, <2>3 DEF Select
<1>5. ASSUME slot # None, socket_event_activated, UNCHANGED hdlr PROVE QuietInv'
  BY <1>0, <1>1, <1>5 DEF socket_event_activated, EventFindsContext
<1>6. ASSUME NEW e \in Ends, SelectEvent(e) PROVE QuietInv'
  <2>1. hdlr[e] = "select" /\ UNCHANGED hdlr /\ socket_event_activated
    BY <1>6 DEF SelectEvent
  <2>2. PICK s \in Socks : e = <<s, "r">>
    BY <1>0, <2>1, PartsOfEnd DEF NoWriteHandlers, Dirs
  <2>3. slot # None
    BY <1>0, <2>1, <2>2 DEF HandlersLive
  <2> QED BY <1>5, <2>1, <2>3
<1>7. ASSUME NEW t \in Threads, timeout_handler(t) PROVE QuietInv'
  <2>1. slot = t /\ t # None
    BY <1>0, <1>7, CosocketConstants DEF timeout_handler, TimersLive
  <2> QED BY <1>5, <1>7, <2>1 DEF timeout_handler
<1>8. CASE post_completion_handler
  BY <1>2, <1>3, <1>8 DEF post_completion_handler, ngx_stream_lua_select_resume,
                          ctx_cleanup_and_discard
<1>9. CASE FreedEvent
  BY <1>3, <1>9 DEF FreedEvent
<1>10. ASSUME NEW t \in Threads, NEW u \in Threads, KillSelecting(t, u) PROVE QuietInv'
  BY <1>2, <1>3, <1>10 DEF KillSelecting, ctx_cleanup_and_discard
<1>11. CASE FinalizeIdle
  BY <1>0, <1>1, <1>11 DEF FinalizeIdle, EventFindsContext
<1>12. CASE Abort
  BY <1>2, <1>3, <1>11, <1>12 DEF Abort, ctx_cleanup_and_discard
<1>13. ASSUME NEW t \in Threads, Exit(t) PROVE QuietInv'
  BY <1>0, <1>1, <1>11, <1>13 DEF Exit, EventFindsContext
<1>14. CASE CosocketsNext /\ UNCHANGED <<result, context>>
  <2>1. \A s \in Socks : hdlr'[<<s, "w">>] = "select" => hdlr[<<s, "w">>] = "select"
    BY <1>0, <1>14, CosocketsInstallNone, EndOf DEF Dirs
  <2>2. worker' = worker
    BY <1>0, <1>14, CosocketsType
  <2> QED BY <1>0, <2>1, <2>2 DEF QuietInv, NoWriteHandlers, EventFindsContext
<1>15. CASE UNCHANGED vars
  BY <1>0, <1>1, <1>15 DEF vars, EventFindsContext
<1> QED BY <1>4, <1>6, <1>7, <1>8, <1>9, <1>10, <1>12, <1>13, <1>14, <1>15 DEF Next

\* With one selecting thread that only reads and lists a socket once, an event handler
\* or timer of select never runs without a context, even if the sockets under select are
\* shared, threads killed and requests cut short. The write_handler run shows that the
\* restriction to reading is needed.
THEOREM EventsFindContext ==
  ASSUME AtMostOneSelector, NoRepeats, ReadsOnly
  PROVE  Spec => []EventFindsContext
<1>1. Init => NoWriteHandlers /\ EventFindsContext
  BY EndOf DEF Init, CosocketsInit, NoWriteHandlers, EventFindsContext, Dirs
<1>2. QuietInv /\ [Next]_vars => QuietInv'
  BY QuietInvNext
<1>3. QuietInv <=> LiveInv /\ NoWriteHandlers /\ EventFindsContext
  BY DEF QuietInv
<1> QED BY <1>1, <1>2, <1>3, LiveInvHolds, PTL DEF Spec

---------------------------------------------------------------------------
\* Only ngx.thread.kill and the end of a request run the clean-up callback.
LEMMA NoCleanupCrash ==
  ASSUME NoCutShort
  PROVE  Spec => [](TypeOK /\ worker # "segv_cleanup")
<1> DEFINE I == TypeOK /\ worker # "segv_cleanup"
<1>1. Init => I
  BY TypeInit DEF Init, CosocketsInit
<1>2. I /\ [Next]_vars => I'
  <2> SUFFICES ASSUME I, [Next]_vars PROVE worker' # "segv_cleanup"
    BY TypeNext
  <2>1. CASE worker' = worker
    BY <2>1
  <2>2. ASSUME NEW how, how # "segv_cleanup", Die(how) \/ DiscardDies(how)
        PROVE  worker' # "segv_cleanup"
    BY <2>2 DEF Die, DiscardDies
  <2>3. ASSUME NEW t \in Threads, NEW c \in Calls, Select(t, c)
        PROVE  worker' # "segv_cleanup"
    BY <2>1, <2>2, <2>3 DEF Select, SelectBadArgs, SelectBadEntry, SelectIoctlError,
                            SelectAlreadyReady, SelectYield, cosockets
  <2>4. ASSUME \/ \E e \in Ends : SelectEvent(e)
               \/ \E t \in Threads : timeout_handler(t)
        PROVE  worker' # "segv_cleanup"
    BY <2>1, <2>4 DEF SelectEvent, timeout_handler, socket_event_activated
  <2>5. ASSUME post_completion_handler \/ FreedEvent PROVE worker' # "segv_cleanup"
    BY <2>1, <2>2, <2>5 DEF post_completion_handler, FreedEvent,
                            ngx_stream_lua_select_resume
  <2>6. ~Abort /\ \A t, u \in Threads : ~KillSelecting(t, u)
    BY DEF Abort, KillSelecting, NoCutShort
  <2>7. ASSUME NEW t \in Threads, Exit(t) PROVE worker' # "segv_cleanup"
    BY <2>1, <2>7 DEF Exit, FinalizeIdle
  <2>8. CASE CosocketsNext
    BY <2>1, <2>8, CosocketsType
  <2>9. CASE UNCHANGED vars
    BY <2>1, <2>9 DEF vars
  <2> QED BY <2>3, <2>4, <2>5, <2>6, <2>7, <2>8, <2>9 DEF Next
<1> QED BY <1>1, <1>2, PTL DEF Spec

\* One selecting thread that only reads, lists a socket once and is neither killed nor
\* cut short can crash the worker in one way only, the early return for bytes that
\* already wait (the already_ready run): every event, timer, completion and clean-up
\* finds its context and the handlers it restores.
THEOREM OnlyWaitingBytesKill ==
  ASSUME AtMostOneSelector, NoCutShort, NoRepeats, ReadsOnly
  PROVE  Spec => []DiesOnlyOnWaitingBytes
<1>1. EntriesRead
  BY TableType DEF EntriesRead, ReadsOnly, Dirs
<1>2. Spec => []PrevHandlerSaved
  BY <1>1, AssertionHoldsForReaders
<1>3. Spec => []EventFindsContext
  BY EventsFindContext
<1>4. Spec => [](PostedFindsContext /\ worker # "use_after_free")
  BY CompletionFindsContext
<1>5. Spec => [](TypeOK /\ worker # "segv_cleanup")
  BY NoCleanupCrash
<1>6. /\ TypeOK /\ worker # "segv_cleanup" /\ worker # "use_after_free"
      /\ PrevHandlerSaved /\ EventFindsContext /\ PostedFindsContext
      => DiesOnlyOnWaitingBytes
  BY DEF TypeOK, Crashes, PrevHandlerSaved, EventFindsContext, PostedFindsContext,
         DiesOnlyOnWaitingBytes
<1> QED BY <1>2, <1>3, <1>4, <1>5, <1>6, PTL
===========================================================================
