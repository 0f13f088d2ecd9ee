------------------------------ MODULE VpnControl ------------------------------
(***************************************************************************)
(* The application: the main page (pages/Index.ets, with the stores        *)
(* service/ConfigManager.ets and TunnelRuntimeService.ets) controls the    *)
(* extension process of VpnExtension through the system's start and stop   *)
(* calls, the persisted id, and the status events that come back.          *)
(*                                                                         *)
(* The page's code also runs from await to await: what follows a start or  *)
(* stop call runs when the call returns, over whatever the page has become *)
(* by then.  The system is external: it handles the calls in the order     *)
(* they were made, may ask the user for authorisation before it launches   *)
(* an ability, and ignores a start while one is there.                     *)
(***************************************************************************)
EXTENDS VpnExtension, SequencesExt

CONSTANTS
  InOrder,      (* Whether calls return in the order they were made: the    *)
                (* system does not say.                                    *)
  MaxClicks     (* What the user does, and how often a process dies, all   *)
                (* in all.  Bounds the model.                              *)

ASSUME ClickAssumption == MaxClicks \in Nat /\ InOrder \in BOOLEAN

VARIABLES
  ui,         (* the main page                                             *)
  calls,      (* start and stop calls made and not returned, oldest first  *)
  launching,  (* the start the system has accepted and not yet carried out *)
  clicks      (* what the user has done so far                             *)

vars == <<extVars, ui, calls, launching, clicks>>

(***************************************************************************)
(* The page.  up: "dead" without a UI process, "shown" until the event     *)
(* subscriber is created, "ready" after.  active, connecting, status:      *)
(* activeConfigId, connectingId, activeStatus.  states: the status of each *)
(* configuration in TunnelRuntimeService, "none" if it has none.  timer:   *)
(* the id restoreValidationTimer will validate; fresh: its state was       *)
(* updated since the timer was set.                                        *)
(***************************************************************************)
Statuses == {"disconnected", "connecting", "connected", "failed"}

NoUi ==
  [ up |-> "dead", active |-> NoId, connecting |-> NoId, status |-> "disconnected",
    states |-> [c \in Configs |-> "none"], timer |-> NoId, fresh |-> FALSE ]

\* clearActiveUiState.
Cleared(u) ==
  [u EXCEPT !.timer = NoId, !.active = NoId, !.connecting = NoId, !.status = "disconnected"]

\* scheduleRestoreValidation(c).
Scheduled(u, c) == [u EXCEPT !.timer = c, !.fresh = FALSE]

\* Mutant: the listener does not expect a configuration without a status.
ListenBlindly(u) ==
  IF u.active # NoId THEN [u EXCEPT !.status = u.states[u.active]] ELSE u

\* The page's listener to TunnelRuntimeService.
Listen(u) ==
  IF u.active # NoId /\ u.states[u.active] # "none"
    THEN [u EXCEPT !.status = u.states[u.active]] ELSE u

\* setStatus and applyStatus.
WithStatus(u, c, status) ==
  Listen([u EXCEPT !.states[c] = status, !.fresh = @ \/ u.timer = c])

\* A call: the operation, the configuration it is made for, whether the
\* configuration is deleted after it, what has become of it, and whether the
\* page that made it is still there.
Calls ==
  [ op : {"start", "stop"}, id : Configs, delete : BOOLEAN,
    result : {"sent", "ok", "error"}, awaited : BOOLEAN ]

Call(op, c, delete) ==
  [op |-> op, id |-> c, delete |-> delete, result |-> "sent", awaited |-> TRUE]

Click == clicks < MaxClicks /\ clicks' = clicks + 1

(***************************************************************************)
(* The user.                                                               *)
(***************************************************************************)

Busy(u) == u.status \in {"connected", "connecting"}

\* shouldApplyToggle(c, true).
ShouldStart(c) == ui.connecting = NoId /\ ~(ui.active # NoId /\ Busy(ui))

\* toggleVpn(c, true), up to its await.
ToggleOn(c) ==
  /\ ui.up # "dead" /\ c \in saved
  /\ ShouldStart(c)
  /\ Click
  /\ ui' = WithStatus([ui EXCEPT !.connecting = c, !.active = c, !.status = "connecting"],
                      c, "connecting")
  /\ active' = c
  /\ calls' = Append(calls, Call("start", c, FALSE))
  /\ UNCHANGED <<inst, native, saved, events, launching>>

\* shouldApplyToggle(c, false).
ShouldStop(c) == ui.active = c \/ ui.connecting = c

\* toggleVpn(c, false), up to its await.
ToggleOff(c, delete) ==
  /\ ui.up # "dead" /\ c \in saved
  /\ ShouldStop(c)
  /\ calls' = Append(calls, Call("stop", c, delete))
  /\ UNCHANGED <<extVars, ui, launching>>

\* Mutant: the restored id is not validated.
RestoredForGood(u, persisted, remaining) ==
  IF persisted = NoId THEN IF u.active # NoId THEN Cleared(u) ELSE u
  ELSE IF persisted \notin remaining
    THEN Cleared([u EXCEPT !.states[persisted] = "none"])
  ELSE [u EXCEPT !.active = persisted,
          !.status = IF u.states[persisted] = "none" THEN "connecting"
                     ELSE u.states[persisted]]

\* restoreActiveConfig, with persisted as the persisted id and remaining as
\* the saved configurations.
Restored(u, persisted, remaining) ==
  IF persisted = NoId THEN IF u.active # NoId THEN Cleared(u) ELSE u
  ELSE IF persisted \notin remaining
    THEN Cleared([u EXCEPT !.states[persisted] = "none"])
  ELSE Scheduled([u EXCEPT !.active = persisted,
                   !.status = IF u.states[persisted] = "none" THEN "connecting"
                              ELSE u.states[persisted]], persisted)

\* loadConfigs, after the preferences have become persisted and remaining.
LoadConfigs(u, persisted, remaining) ==
  /\ ui' = Restored(u, persisted, remaining)
  /\ active' = IF persisted \in remaining THEN persisted ELSE NoId
  /\ saved' = remaining

\* Mutant: the active configuration can be deleted too.
DeleteAnything(u, c, persisted) ==
  ui' = u /\ active' = persisted /\ saved' = saved \ {c}

\* configManager.deleteConfig refuses the active configuration; the list is
\* loaded again if it did not.
DeleteConfig(u, c, persisted) ==
  IF persisted = c
    THEN ui' = u /\ active' = persisted /\ UNCHANGED saved
    ELSE LoadConfigs(u, persisted, saved \ {c})

\* deleteConfigAfterStop, for a configuration that need not be stopped first.
DeleteIdle(c) ==
  /\ ui.up # "dead" /\ c \in saved
  /\ IF ui.active = c
       THEN DeleteConfig(Cleared(ui), c, IF active = c THEN NoId ELSE active)
       ELSE DeleteConfig(ui, c, active)
  /\ UNCHANGED <<inst, native, events, calls, launching>>

\* deleteConfigAfterStop.
DeleteConfigAfterStop(c) ==
  /\ Click
  /\ IF ui.active = c /\ Busy(ui) THEN ToggleOff(c, TRUE) ELSE DeleteIdle(c)

\* deleteConfig of ConfigEditPage, which returns to the main page.
DeleteFromEditPage(c) ==
  /\ Click
  /\ ui.up # "dead" /\ c \in saved
  /\ DeleteConfig(ui, c, active)
  /\ UNCHANGED <<inst, native, events, calls, launching>>

\* onPageShow, or a return from another page.
PageShow ==
  /\ Click
  /\ ui.up # "dead"
  /\ LoadConfigs(ui, active, saved)
  /\ UNCHANGED <<inst, native, events, calls, launching>>

\* The UI process starts: aboutToAppear.
UiStarts ==
  /\ ui.up = "dead"
  /\ LoadConfigs([NoUi EXCEPT !.up = "shown"], active, saved)
  /\ UNCHANGED <<inst, native, events, calls, launching, clicks>>

\* How many calls the system has handled: it handles them in order, so they
\* are the first ones.
HandledCount == Cardinality({i \in DOMAIN calls : calls[i].result # "sent"})

\* The UI process is ended or crashes; the calls it has made are carried out
\* all the same.
UiDies ==
  /\ Click
  /\ ui.up # "dead"
  /\ ui' = NoUi
  /\ calls' = [i \in 1 .. Len(calls) - HandledCount |->
                [calls[i + HandledCount] EXCEPT !.awaited = FALSE]]
  /\ UNCHANGED <<extVars, launching>>

(***************************************************************************)
(* What the page does when a call returns.                                 *)
(***************************************************************************)

Returned(i, op, result) ==
  /\ i \in DOMAIN calls
  /\ calls[i].op = op /\ calls[i].result = result /\ calls[i].awaited
  /\ InOrder => i = 1
  /\ calls' = RemoveAt(calls, i)
  /\ UNCHANGED <<inst, native, events, launching, clicks>>

\* Mutant: connectingId is reset on success only.
StartRefusedKeepsConnecting(i) ==
  LET c == calls[i].id
  IN  /\ Returned(i, "start", "error")
      /\ ui' = WithStatus([ui EXCEPT !.status = "failed"], c, "failed")
      /\ ClearActive(c)
      /\ UNCHANGED saved

StartAccepted(i) ==
  /\ Returned(i, "start", "ok")
  /\ ui' = [Scheduled(ui, calls[i].id) EXCEPT !.connecting = NoId]
  /\ UNCHANGED <<active, saved>>

StartRefused(i) ==
  LET c == calls[i].id
  IN  /\ Returned(i, "start", "error")
      /\ ui' = [WithStatus([ui EXCEPT !.status = "failed"], c, "failed") EXCEPT !.connecting = NoId]
      /\ ClearActive(c)
      /\ UNCHANGED saved

\* The rest of toggleVpn(c, false), then that of deleteConfigAfterStop.
StopAccepted(i) ==
  LET c == calls[i].id
      u == WithStatus([ui EXCEPT !.status = "disconnected"], c, "disconnected")
      v == IF u.active = c THEN Cleared(u) ELSE u
  IN  /\ Returned(i, "stop", "ok")
      /\ IF calls[i].delete
           THEN DeleteConfig(v, c, IF active = c THEN NoId ELSE active)
           ELSE /\ ui' = v
                /\ ClearActive(c)
                /\ UNCHANGED saved

StopRefused(i) ==
  /\ Returned(i, "stop", "error")
  /\ UNCHANGED <<ui, active, saved>>

(***************************************************************************)
(* Timers and events of the page.                                          *)
(***************************************************************************)

\* The callback of scheduleRestoreValidation.
RestoreTimeout ==
  LET c == ui.timer
      u == [ui EXCEPT !.timer = NoId]
  IN  /\ ui.up # "dead" /\ c # NoId
      /\ IF ui.active # c \/ ui.fresh
           THEN ui' = u /\ UNCHANGED active
           ELSE /\ ui' = Cleared([u EXCEPT !.states[c] = "none"])
                /\ ClearActive(c)
      /\ UNCHANGED <<inst, native, saved, events, calls, launching, clicks>>

\* The status subscriber has been created.
Subscribe ==
  /\ ui.up = "shown"
  /\ ui' = [ui EXCEPT !.up = "ready"]
  /\ UNCHANGED <<extVars, calls, launching, clicks>>

\* Mutant: any configuration an event names is taken over.
AdoptsAny(e) == ui.active = NoId /\ e.state # "disconnected"

\* An event of a tunnel the page does not know of: it takes it over.
Adopts(e) == ui.active = NoId /\ e.state # "disconnected" /\ e.id \in saved

\* onStatusEvent, up to applyStatus.
Noted(u, e) ==
  IF e.state = "disconnected" /\ e.id \in {u.active, u.connecting} THEN Cleared(u)
  ELSE IF e.state = "failed" /\ u.connecting = e.id THEN [u EXCEPT !.connecting = NoId]
  ELSE u

StatusEvent ==
  LET e == Head(events)
      u == [ui EXCEPT !.timer = IF ui.active = e.id THEN NoId ELSE @,
                      !.active = IF Adopts(e) THEN e.id ELSE @]
  IN  /\ events # <<>>
      /\ events' = Tail(events)
      /\ IF ui.up # "ready"
           THEN UNCHANGED <<ui, active>>
           ELSE /\ ui' = WithStatus(Noted(u, e), e.id, e.state)
                /\ IF e.state \in {"disconnected", "failed"} THEN ClearActive(e.id)
                   ELSE active' = IF Adopts(e) THEN e.id ELSE active
      /\ UNCHANGED <<inst, native, saved, calls, launching, clicks>>

(***************************************************************************)
(* The system.                                                             *)
(***************************************************************************)

Oldest(i) ==
  /\ i \in DOMAIN calls /\ calls[i].result = "sent"
  /\ \A j \in 1 .. i - 1 : calls[j].result # "sent"

\* A call that nobody awaits is forgotten once it has been handled.
Answer(i, result) ==
  calls' = IF calls[i].awaited THEN [calls EXCEPT ![i].result = result]
           ELSE RemoveAt(calls, i)

Refuse(i) ==
  /\ Oldest(i)
  /\ Answer(i, "error")
  /\ UNCHANGED <<extVars, ui, launching, clicks>>

HandleStart(i) ==
  /\ Oldest(i) /\ calls[i].op = "start" /\ launching = NoId
  /\ Answer(i, "ok")
  /\ launching' = IF \E n \in Insts : inst[n].live THEN NoId ELSE calls[i].id
  /\ UNCHANGED <<extVars, ui, clicks>>

HandleStop(i) ==
  /\ Oldest(i) /\ calls[i].op = "stop" /\ launching = NoId
  /\ Answer(i, "ok")
  /\ IF \E n \in Insts : inst[n].live
       THEN \E n \in Insts : OnDestroy(n)
       ELSE UNCHANGED extVars
  /\ UNCHANGED <<ui, launching, clicks>>

\* The ability is created, with the start call's want or, after the
\* authorisation dialog, without.
CreateAbility ==
  /\ launching # NoId
  /\ \E n \in Insts, want \in {launching, NoId} : Launch(n, want)
  /\ launching' = NoId
  /\ UNCHANGED <<ui, calls, clicks>>

\* The user does not authorise it.
Unauthorised ==
  /\ launching # NoId
  /\ launching' = NoId
  /\ UNCHANGED <<extVars, ui, calls, clicks>>

-----------------------------------------------------------------------------

User ==
  \/ \E c \in Configs :
       \/ ToggleOn(c)
       \/ ToggleOff(c, FALSE) /\ Click
       \/ DeleteConfigAfterStop(c)
       \/ DeleteFromEditPage(c)
  \/ PageShow
  \/ UiDies

CallReturns ==
  \E i \in DOMAIN calls : StartAccepted(i) \/ StartRefused(i) \/ StopAccepted(i) \/ StopRefused(i)

Page == UiStarts \/ Subscribe \/ StatusEvent \/ RestoreTimeout \/ CallReturns

System ==
  \/ \E i \in DOMAIN calls : Refuse(i) \/ HandleStart(i) \/ HandleStop(i)
  \/ CreateAbility \/ Unauthorised

Extension ==
  /\ Ability \/ (\E n \in Insts : Heartbeat(n)) \/ HandshakeDone
  /\ UNCHANGED <<ui, calls, launching, clicks>>

\* The extension's process goes without a word.
ExtensionDies ==
  /\ Click
  /\ ProcessDies
  /\ UNCHANGED <<ui, calls, launching>>

Init ==
  /\ ExtensionInit
  /\ ui = NoUi
  /\ calls = <<>>
  /\ launching = NoId
  /\ clicks = 0

Next == User \/ Page \/ System \/ Extension \/ ExtensionDies

Spec == Init /\ [][Next]_vars

(***************************************************************************)
(* Fairness.  Awaited work of the page and of the abilities comes to an    *)
(* end, well or not; timers fire, events arrive and the system handles its *)
(* calls and answers the dialog.  Nothing is assumed of the user, nor that *)
(* a handshake succeeds.  FairSpec leaves out the death of the extension.  *)
(***************************************************************************)
Fairness ==
  /\ WF_vars(Subscribe) /\ WF_vars(StatusEvent) /\ WF_vars(RestoreTimeout)
  /\ WF_vars(CallReturns)
  /\ WF_vars(System)
  /\ \A n \in Insts :
       /\ WF_vars((Resolved(n) \/ Protected(n) \/ Created(n)) /\ UNCHANGED <<ui, calls, launching, clicks>>)
       /\ WF_vars(Heartbeat(n) /\ UNCHANGED <<ui, calls, launching, clicks>>)

FairSpec == Init /\ [][User \/ Page \/ System \/ Extension]_vars /\ Fairness

(***************************************************************************)
(* Properties.                                                             *)
(***************************************************************************)

TypeOK ==
  /\ ExtensionTypeOK
  /\ ui \in [up : {"dead", "shown", "ready"}, active : Ids, connecting : Ids,
             status : Statuses, states : [Configs -> Statuses \union {"none"}],
             timer : Ids, fresh : BOOLEAN]
  /\ calls \in Seq(Calls)
  /\ launching \in Ids
  /\ clicks \in 0 .. MaxClicks

\* While connectingId is set every start is refused, so it must not outlive the
\* call that set it, whatever events and other calls came in between.
ConnectingHasCall ==
  ui.connecting # NoId =>
    \E i \in DOMAIN calls : calls[i].op = "start" /\ calls[i].id = ui.connecting /\ calls[i].awaited

\* The extension finds the configuration the persisted id names: no event,
\* deletion or restart leaves the id of a deleted configuration behind.
ActiveIsSaved == active = NoId \/ active \in saved

\* ConfigManager.ets:142: the late terminal state of an old connection does not
\* clear the persisted id a new connection is being launched with.
OldTerminalHarmless ==
  [][events # <<>> /\ events' = Tail(events) /\ active # NoId /\ launching = active
       => active' = active]_vars

\* Once the user has stopped and the page stays open, it comes to show no tunnel
\* that does not run, and to show the one that does unless it shows a failure,
\* however calls, events, timers and restarts of the page interleaved before.
Running(c) == \E n \in Insts : inst[n].beating /\ inst[n].id = c
Shown(c)   == ui.active = c /\ Busy(ui)

PageAgrees ==
  <>[](ui.up = "ready") =>
    <>[](\A c \in saved :
           /\ Shown(c) => Running(c)
           /\ Running(c) => Shown(c) \/ ui.status = "failed")
==============================================================================
