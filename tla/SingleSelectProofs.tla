------------------------ MODULE SingleSelectProofs ------------------------
(***************************************************************************)
(* What holds when the Lua code keeps to one selecting thread per request: *)
(* the request's only slot is then enough. The sockets, the modes they are *)
(* selected for, the refused calls and the other threads remain arbitrary. *)
(***************************************************************************)
EXTENDS StreamSelectProofs

AtMostOneSelector == \A t, u \in Selectors : t = u

\* Only select puts a thread to wait in select.
SelectorsSelect == \A t \in Threads : pc[t] = "select" => t \in Selectors

SoloInv == SlotInv /\ SelectorsSelect /\ NobodyStranded /\ TimersLive

\* When the selector runs, no context is alive.
LEMMA CallerIsAlone ==
  ASSUME AtMostOneSelector, SoloInv, NEW t \in Threads, NEW c, Calling(t, c)
  PROVE  /\ slot = None
         /\ \A u \in Threads : pc[u] # "select" /\ armed[u] = FALSE
<1>1. t \in Selectors /\ pc[t] = "lua"
  BY DEF Calling, Running
<1>2. \A u \in Threads : pc[u] # "select"
  BY <1>1 DEF SoloInv, SelectorsSelect, AtMostOneSelector
<1>3. slot = None
  BY <1>2 DEF SoloInv, SlotInv, SlotWaits, TypeOK
<1>4. ASSUME NEW u \in Threads PROVE armed[u] = FALSE
  BY <1>3, CosocketConstants DEF SoloInv, SlotInv, TimersLive, TypeOK
<1> QED BY <1>2, <1>3, <1>4

\* Discarding the context in the slot stops the only timer.
LEMMA DiscardStopsTimers ==
  ASSUME SoloInv, Discardable, ctx_cleanup_and_discard(0)
  PROVE  slot' = None /\ TimersLive'
<1>1. slot' = None /\ armed' = [armed EXCEPT ![slot] = FALSE]
  BY DEF ctx_cleanup_and_discard
<1>2. \A u \in Threads : armed'[u] = FALSE
  BY <1>1 DEF SoloInv, SlotInv, TimersLive, TypeOK, Discardable
<1> QED BY <1>1, <1>2 DEF TimersLive

\* Every step keeps SoloInv: a selector that runs meets an empty slot.
LEMMA SoloInvNext ==
  ASSUME AtMostOneSelector, SoloInv, [Next]_vars
  PROVE  SoloInv'
<1>0. SlotInv /\ SlotInv' /\ TypeOK
  BY SlotInvNext DEF SoloInv, SlotInv
<1>1. CASE UNCHANGED <<pc, slot, armed>>
  BY <1>0, <1>1 DEF SoloInv, SelectorsSelect, NobodyStranded, TimersLive
<1>2. ASSUME NEW how, Die(how) PROVE SoloInv'
  BY <1>1, <1>2 DEF Die, context
<1>3. ASSUME NEW how, DiscardDies(how) PROVE SoloInv'
  BY <1>2, <1>3 DEF DiscardDies
<1>4. ASSUME NEW t \in Threads, NEW c \in Calls, Select(t, c) PROVE SoloInv'
  <2>1. Calling(t, c)
    BY <1>4 DEF Select, SelectBadArgs, SelectBadEntry, SelectIoctlError,
                SelectAlreadyReady, SelectYield, Valid
  <2>2. slot = None /\ \A u \in Threads : pc[u] # "select" /\ armed[u] = FALSE
    BY <2>1, CallerIsAlone
  <2>3. CASE SelectBadArgs(t, c) \/ SelectBadEntry(t, c) \/ SelectIoctlError(t, c)
    BY <1>1, <2>3 DEF SelectBadArgs, SelectBadEntry, SelectIoctlError, cosockets, context
  <2>4. CASE SelectAlreadyReady(t, c)
    BY <1>3, <2>2, <2>4 DEF SelectAlreadyReady, Discardable
  <2>5. CASE SelectYield(t, c)
    <3>1. /\ slot' = t
          /\ pc' = [pc EXCEPT ![t] = "select"]
          /\ \A u \in Threads : u # t => armed'[u] = armed[u]
      BY <1>0, <2>5 DEF SelectYield, set_ctx, TypeOK
    <3>2. t \in Selectors
      BY <2>1 DEF Calling
    <3> QED BY <1>0, <2>2, <3>1, <3>2
          DEF SoloInv, SelectorsSelect, NobodyStranded, TimersLive, TypeOK, CosocketsTypeOK
  <2> QED BY <1>4, <2>3, <2>4, <2>5 DEF Select
<1>5. ASSUME NEW e \in Ends, SelectEvent(e) PROVE SoloInv'
  BY <1>1, <1>5 DEF SelectEvent
<1>6. ASSUME NEW t \in Threads, timeout_handler(t) PROVE SoloInv'
  <2>1. UNCHANGED <<pc, slot>> /\ armed' = [armed EXCEPT ![t] = FALSE]
    BY <1>6 DEF timeout_handler
  <2> QED BY <1>0, <2>1 DEF SoloInv, SelectorsSelect, NobodyStranded, TimersLive, TypeOK
<1>7. CASE post_completion_handler
  <2>1. CASE DiscardDies("segv_posted")
    BY <1>3, <2>1
  <2>2. CASE Discardable /\ ngx_stream_lua_select_resume
    <3>1. slot' = None /\ TimersLive' /\ pc' = [pc EXCEPT ![slot] = "lua"]
      BY <2>2, DiscardStopsTimers DEF ngx_stream_lua_select_resume, SoloInv
    <3>2. \A u \in Threads : pc'[u] # "select"
      BY <1>0, <2>2, <3>1 DEF SoloInv, NobodyStranded, TypeOK, CosocketsTypeOK, Discardable
    <3> QED BY <1>0, <3>1, <3>2 DEF SoloInv, SelectorsSelect, NobodyStranded
  <2> QED BY <1>7, <2>1, <2>2 DEF post_completion_handler
<1>8. CASE FreedEvent
  BY <1>2, <1>8 DEF FreedEvent
<1>9. ASSUME NEW t \in Threads, NEW u \in Threads, KillSelecting(t, u) PROVE SoloInv'
  <2>1. CASE DiscardDies("segv_cleanup")
    BY <1>3, <2>1
  <2>2. CASE Discardable /\ ctx_cleanup_and_discard(0) /\ pc' = [pc EXCEPT ![u] = "dead"]
    <3>1. slot' = None /\ TimersLive'
      BY <2>2, DiscardStopsTimers
    <3>2. pc[u] = "select"
      BY <1>9 DEF KillSelecting, Selecting
    <3>3. \A v \in Threads : pc'[v] # "select"
      BY <1>0, <2>2, <3>2 DEF SoloInv, NobodyStranded, TypeOK, CosocketsTypeOK
    <3> QED BY <1>0, <3>1, <3>3 DEF SoloInv, SelectorsSelect, NobodyStranded
  <2> QED BY <1>9, <2>1, <2>2 DEF KillSelecting
<1>10. ASSUME FinalizeIdle PROVE SoloInv'
  <2>1. \A u \in Threads : pc[u] # "select" /\ pc'[u] # "select"
    BY <1>10 DEF FinalizeIdle, Finalize, Selecting
  <2>2. UNCHANGED <<slot, armed>>
    BY <1>10 DEF FinalizeIdle, context
  <2> QED BY <1>0, <2>1, <2>2 DEF SoloInv, SelectorsSelect, NobodyStranded, TimersLive
<1>11. CASE Abort
  <2>1. CASE FinalizeIdle
    BY <1>10, <2>1
  <2>2. CASE DiscardDies("segv_cleanup") \/ Die("segv_cleanup")
    BY <1>2, <1>3, <2>2
  <2>3. CASE Discardable /\ ctx_cleanup_and_discard(0) /\ Finalize
    <3>1. slot' = None /\ TimersLive'
      BY <2>3, DiscardStopsTimers
    <3>2. \A u \in Threads : pc'[u] # "select"
      BY <2>3 DEF Finalize
    <3> QED BY <1>0, <3>1, <3>2 DEF SoloInv, SelectorsSelect, NobodyStranded
  <2> QED BY <1>11, <2>1, <2>2, <2>3 DEF Abort
<1>12. ASSUME NEW t \in Threads, Exit(t) PROVE SoloInv'
  <2>1. CASE FinalizeIdle
    BY <1>10, <2>1
  <2>2. CASE pc' = [pc EXCEPT ![t] = "dead"] /\ UNCHANGED context
    BY <1>0, <2>2 DEF SoloInv, SelectorsSelect, NobodyStranded, TimersLive, context,
                      TypeOK, CosocketsTypeOK
  <2> QED BY <1>12, <2>1, <2>2 DEF Exit
<1>13. CASE CosocketsNext /\ UNCHANGED <<result, context>>
  <2>1. \A u \in Threads : pc[u] = "select" <=> pc'[u] = "select"
    BY <1>0, <1>13, CosocketsKeepSelecting DEF SlotInv
  <2>2. UNCHANGED <<slot, armed>>
    BY <1>13 DEF context
  <2> QED BY <1>0, <2>1, <2>2 DEF SoloInv, SelectorsSelect, NobodyStranded, TimersLive
<1>14. CASE UNCHANGED vars
  BY <1>1, <1>14 DEF vars
<1> QED BY <1>4, <1>5, <1>6, <1>7, <1>8, <1>9, <1>11, <1>12, <1>13, <1>14 DEF Next

\* SoloInv holds throughout.
LEMMA SoloInvHolds ==
  ASSUME AtMostOneSelector
  PROVE  Spec => []SoloInv
<1>1. Init => SlotInv
  BY TypeInit DEF Init, CosocketsInit, SlotInv, Blocked, SlotWaits, NoDoubleUnref
<1>2. Init => SelectorsSelect /\ NobodyStranded /\ TimersLive
  BY DEF Init, CosocketsInit, SelectorsSelect, NobodyStranded, TimersLive
<1>3. SoloInv /\ [Next]_vars => SoloInv'
  BY SoloInvNext
<1> QED BY <1>1, <1>2, <1>3, PTL DEF Spec, SoloInv

\* With one selecting thread, a thread that waits in select owns the slot: the next
\* completion resumes it, whatever was killed or refused before.
THEOREM OneSelectorIsResumed ==
  ASSUME AtMostOneSelector
  PROVE  Spec => []NobodyStranded
<1>1. SoloInv => NobodyStranded
  BY DEF SoloInv
<1> QED BY <1>1, SoloInvHolds, PTL

\* With one selecting thread, ngx_stream_lua_select_timeout_handler finds the context
\* whose timer expired.
THEOREM OneSelectorTimersLive ==
  ASSUME AtMostOneSelector
  PROVE  Spec => []TimersLive
<1>1. SoloInv => TimersLive
  BY DEF SoloInv
<1> QED BY <1>1, SoloInvHolds, PTL

---------------------------------------------------------------------------
(***************************************************************************)
(* If besides no thread is killed and the request is not cut short, every  *)
(* queued completion event is that of the live context.                    *)
(***************************************************************************)
NoCutShort == "kill" \notin Does /\ "abort" \notin Does

\* The collector does not take the live context.
SlotReferenced == slot # None => slot \in referenced

EventInv ==
  /\ SoloInv
  /\ EventsLive
  /\ SlotReferenced
  /\ PostedFindsContext
  /\ worker # "use_after_free"

\* Every step keeps EventInv: a queued event is run before its context goes.
LEMMA EventInvNext ==
  ASSUME AtMostOneSelector, NoCutShort, EventInv, [Next]_vars
  PROVE  EventInv'
<1> DEFINE Safe == worker' # "segv_posted" /\ worker' # "use_after_free"
<1>0. SoloInv /\ SoloInv' /\ SlotInv /\ TypeOK
  BY SoloInvNext DEF EventInv, SoloInv, SlotInv
<1>1. CASE UNCHANGED <<slot, posted, stray, referenced>> /\ Safe
  BY <1>0, <1>1 DEF EventInv, EventsLive, PostedFindsContext, SlotReferenced
<1>2. CASE UNCHANGED <<slot, posted, stray, referenced, worker>>
  BY <1>1, <1>2 DEF EventInv, PostedFindsContext
<1>3. slot = None => ~Queued
  BY <1>0, CosocketConstants DEF EventInv, EventsLive, Queued, SoloInv, SlotInv, TypeOK
<1>4. ASSUME NEW how, how \notin {"segv_posted", "use_after_free"},
             Die(how) \/ DiscardDies(how)
      PROVE  EventInv'
  BY <1>1, <1>4 DEF Die, DiscardDies, context, event
<1>5. ASSUME NEW t \in Threads, NEW c \in Calls, Select(t, c) PROVE EventInv'
  <2>1. Calling(t, c)
    BY <1>5 DEF Select, SelectBadArgs, SelectBadEntry, SelectIoctlError,
                SelectAlreadyReady, SelectYield, Valid
  <2>2. slot = None
    BY <1>0, <2>1, CallerIsAlone
  <2>3. CASE SelectBadArgs(t, c) \/ SelectBadEntry(t, c) \/ SelectIoctlError(t, c)
    BY <1>2, <2>3 DEF SelectBadArgs, SelectBadEntry, SelectIoctlError, cosockets, context, event
  <2>4. CASE SelectAlreadyReady(t, c)
    BY <1>4, <2>2, <2>4 DEF SelectAlreadyReady, Discardable
  <2>5. CASE SelectYield(t, c)
    <3>1. \A u \in Threads : ~posted[u]
      BY <1>3, <2>2 DEF Queued
    <3>2. \A u \in Threads : ~posted'[u]
      BY <1>0, <2>5, <3>1 DEF SelectYield, TypeOK
    <3>3. stray' = stray /\ worker' = worker
      BY <2>5, <3>1 DEF SelectYield
    <3>4. SlotReferenced'
      BY <2>5 DEF SelectYield, set_ctx, SlotReferenced
    <3> QED BY <1>0, <3>2, <3>3, <3>4 DEF EventInv, EventsLive, PostedFindsContext
  <2> QED BY <1>5, <2>3, <2>4, <2>5 DEF Select
<1>6. ASSUME UNCHANGED <<slot, referenced>>, socket_event_activated PROVE EventInv'
  <2>1. CASE slot # None /\ posted' = [posted EXCEPT ![slot] = TRUE]
                         /\ UNCHANGED <<stray, worker>>
    BY <1>0, <1>6, <2>1 DEF EventInv, EventsLive, PostedFindsContext, SlotReferenced, TypeOK
  <2>2. CASE worker' = "segv_event" /\ UNCHANGED event
    BY <1>1, <1>6, <2>2 DEF event
  <2> QED BY <1>6, <2>1, <2>2 DEF socket_event_activated
<1>7. CASE \/ \E e \in Ends : SelectEvent(e)
           \/ \E t \in Threads : timeout_handler(t)
  BY <1>6, <1>7 DEF SelectEvent, timeout_handler
<1>8. CASE post_completion_handler
  <2>1. slot # None
    BY <1>3, <1>8 DEF post_completion_handler
  <2>2. CASE DiscardDies("segv_posted")
    <3>1. Die("assert_prev_read")
      BY <2>1, <2>2 DEF DiscardDies
    <3> QED BY <1>4, <3>1
  <2>3. CASE Discardable /\ Dequeue /\ ngx_stream_lua_select_resume
    <3>1. stray = 0 /\ \A u \in Threads : posted[u] => slot = u
      BY DEF EventInv, EventsLive
    <3>2. PICK t \in Threads : posted[t] /\ posted' = [posted EXCEPT ![t] = FALSE]
                                         /\ UNCHANGED stray
      BY <2>3, <3>1 DEF Dequeue
    <3>3. \A u \in Threads : ~posted'[u]
      BY <1>0, <3>1, <3>2 DEF TypeOK
    <3>4. worker' = worker
      BY <2>3 DEF ngx_stream_lua_select_resume
    <3>5. SlotReferenced'
      BY <2>3 DEF ngx_stream_lua_select_resume, ctx_cleanup_and_discard, SlotReferenced
    <3> QED BY <1>0, <3>1, <3>2, <3>3, <3>4, <3>5 DEF EventInv, EventsLive, PostedFindsContext
  <2> QED BY <1>8, <2>2, <2>3 DEF post_completion_handler
<1>9. ~FreedEvent
  <2>1. \A t \in Threads : posted[t] => t \in referenced
    BY CosocketConstants DEF EventInv, EventsLive, SlotReferenced
  <2> QED BY <2>1 DEF FreedEvent, EventInv, EventsLive
<1>10. ~Abort /\ \A t, u \in Threads : ~KillSelecting(t, u)
  BY DEF Abort, KillSelecting, NoCutShort
<1>11. ASSUME NEW t \in Threads, Exit(t) PROVE EventInv'
  BY <1>2, <1>11 DEF Exit, FinalizeIdle, context, event
<1>12. CASE CosocketsNext /\ UNCHANGED <<result, context>>
  BY <1>0, <1>2, <1>12, CosocketsType DEF context, event
<1>13. CASE UNCHANGED vars
  BY <1>2, <1>13 DEF vars
<1> QED BY <1>5, <1>7, <1>8, <1>9, <1>10, <1>11, <1>12, <1>13 DEF Next

\* EventInv holds throughout.
LEMMA EventInvHolds ==
  ASSUME AtMostOneSelector, NoCutShort
  PROVE  Spec => []EventInv
<1>1. Init => SlotInv
  BY TypeInit DEF Init, CosocketsInit, SlotInv, Blocked, SlotWaits, NoDoubleUnref
<1>2. Init => /\ SelectorsSelect /\ NobodyStranded /\ TimersLive
              /\ EventsLive /\ PostedFindsContext /\ worker # "use_after_free"
              /\ SlotReferenced
  BY DEF Init, CosocketsInit, SelectorsSelect, NobodyStranded, TimersLive, EventsLive,
         PostedFindsContext, SlotReferenced
<1>3. EventInv /\ [Next]_vars => EventInv'
  BY EventInvNext
<1>4. Init => EventInv
  BY <1>1, <1>2 DEF EventInv, SoloInv
<1> QED BY <1>3, <1>4, PTL DEF Spec

\* With one selecting thread that is neither killed nor cut short, a queued completion
\* event is that of the context in the slot, for all modes, tables and interleavings.
THEOREM OneSelectorEventsLive ==
  ASSUME AtMostOneSelector, NoCutShort
  PROVE  Spec => []EventsLive
<1>1. EventInv => EventsLive
  BY DEF EventInv
<1> QED BY <1>1, EventInvHolds, PTL

\* Under the same discipline the assertion of ngx_stream_lua_select_post_completion_handler
\* holds: the worker dies neither there nor on an event the collector has freed. The
\* kill_posted run shows that the discipline is needed.
THEOREM CompletionFindsContext ==
  ASSUME AtMostOneSelector, NoCutShort
  PROVE  Spec => [](PostedFindsContext /\ worker # "use_after_free")
<1>1. EventInv => PostedFindsContext /\ worker # "use_after_free"
  BY DEF EventInv
<1> QED BY <1>1, EventInvHolds, PTL
===========================================================================
