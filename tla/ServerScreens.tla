--------------------------- MODULE ServerScreens ---------------------------
(***************************************************************************)
(* The part of Server (lib/server/Server.cpp) that decides which screen    *)
(* has the cursor: the registry of connected clients, the active screen,   *)
(* the pending (delayed or double-tapped) switch, the lock, the screen     *)
(* saver and configuration reloads.  Every action is one event handler,    *)
(* run to completion by the single thread of the event queue.              *)
(*                                                                         *)
(* Cursor coordinates are abstracted: an input says which neighbour, if    *)
(* any, lies behind the edge that the cursor reached.                      *)
(***************************************************************************)
EXTENDS Naturals, FiniteSets

CONSTANTS
  Proxies,      \* ClientProxy objects, one per accepted connection
  Primary,      \* the PrimaryClient object
  NoScreen,     \* nullptr
  Names,        \* screen names, ordered like the keys of a std::map
  PrimaryName,  \* the name of the primary screen
  NoName,       \* the name of a proxy that is not allocated
  Configs,      \* the configurations that can be loaded
  Horizontal,   \* kLeft, kRight
  Vertical,     \* kTop, kBottom
  NoDirection   \* kNoDirection

Screens == Proxies \cup {Primary}
Directions == Horizontal \cup Vertical

\* A boolean option of a configuration may also be missing.
OptionValues == {"unset", "off", "on"}

\* What the server reads of a Config: the map from the names and aliases of
\* the screens to canonical names, and the switching options.
ConfigRecords ==
  [ canon       : UNION {[D -> Names] : D \in SUBSET Names},
    switchDelay : OptionValues,
    twoTap      : OptionValues,
    relative    : OptionValues,
    needsMods   : BOOLEAN,
    corners     : BOOLEAN ]

ASSUME ScreensAssumption ==
  /\ Primary \notin Proxies
  /\ NoScreen \notin Screens

ASSUME NamesAssumption ==
  /\ Names \subseteq Nat
  /\ PrimaryName \in Names
  /\ NoName \notin Names

ASSUME ConfigsAssumption == Configs \subseteq ConfigRecords

ASSUME DirectionsAssumption == NoDirection \notin Directions

VARIABLES
  config,               \* *m_config
  m_switchWaitDelay,    \* m_switchWaitDelay > 0
  m_switchTwoTapDelay,  \* m_switchTwoTapDelay > 0
  m_switchNeedsMods,    \* m_switchNeedsShift, ...Control or ...Alt
  m_relativeMoves,
  name,                 \* the name each allocated proxy connected with
  hungUp,               \* proxies whose disconnected event is in the queue
  m_clients,            \* canonical name -> screen, NoScreen if absent
  m_clientSet,
  m_oldClients,         \* closed proxies, each with its 5 s timer
  m_active,
  m_activeSaver,
  entered,              \* screens entered and not left since
  saverOn,              \* the primary's screen saver runs
  saving,               \* clients last told that the screen saver runs
  sw,                   \* the pending switch, see SwitchStates
  m_lockedToScreen,
  buttonDown            \* PrimaryClient::isLockedToScreen()

optionVars == <<m_switchWaitDelay, m_switchTwoTapDelay, m_switchNeedsMods,
                m_relativeMoves>>
registryVars == <<name, hungUp, m_clients, m_clientSet, m_oldClients>>
saverVars == <<m_activeSaver, saverOn, saving>>
lockVars == <<m_lockedToScreen, buttonDown>>
focusVars == <<m_active, entered, sw>>
vars == <<config, optionVars, registryVars, saverVars, lockVars, focusVars>>

\* m_switchScreen, m_switchDir, m_switchWaitTimer != nullptr,
\* m_switchTwoTapEngaged, m_switchTwoTapArmed, and whether the two-tap
\* stopwatch still reads at most the delay.
SwitchStates ==
  [ screen  : Screens \cup {NoScreen},
    dir     : Directions \cup {NoDirection},
    waiting : BOOLEAN,
    engaged : BOOLEAN,
    armed   : BOOLEAN,
    inTime  : BOOLEAN ]

NoPendingSwitch ==
  [ screen |-> NoScreen, dir |-> NoDirection, waiting |-> FALSE,
    engaged |-> FALSE, armed |-> FALSE, inTime |-> FALSE ]

TypeOK ==
  /\ config \in Configs
  /\ m_switchWaitDelay \in BOOLEAN
  /\ m_switchTwoTapDelay \in BOOLEAN
  /\ m_switchNeedsMods \in BOOLEAN
  /\ m_relativeMoves \in BOOLEAN
  /\ name \in [Proxies -> Names \cup {NoName}]
  /\ hungUp \subseteq Proxies
  /\ m_clients \in [Names -> Screens \cup {NoScreen}]
  /\ m_clientSet \subseteq Screens
  /\ m_oldClients \subseteq Proxies
  /\ m_active \in Screens
  /\ m_activeSaver \in Screens \cup {NoScreen}
  /\ entered \subseteq Screens
  /\ saverOn \in BOOLEAN
  /\ saving \subseteq Proxies
  /\ sw \in SwitchStates
  /\ m_lockedToScreen \in BOOLEAN
  /\ buttonDown \in BOOLEAN

-----------------------------------------------------------------------------
(* Names and configurations *)

IsScreen(cfg, n) == n \in DOMAIN cfg.canon

IsCanonicalName(cfg, n) == n \in DOMAIN cfg.canon /\ cfg.canon[n] = n

NameOf(s) == IF s = Primary THEN PrimaryName ELSE name[s]

\* Server::getName: the canonical name, or the client's own if it has none.
GetName(cfg, s) ==
  IF NameOf(s) \in DOMAIN cfg.canon THEN cfg.canon[NameOf(s)] ELSE NameOf(s)

\* The names under which a screen is connected, and those screens.
Keys == {n \in Names : m_clients[n] # NoScreen}
Connected == {m_clients[n] : n \in Keys}

\* The value of an option after processOptions: a missing one is not reset.
OptionValue(option, old) == IF option = "unset" THEN old ELSE option = "on"

-----------------------------------------------------------------------------
(* The pending switch *)

StopSwitchWait(w) == [w EXCEPT !.waiting = FALSE]

\* Fault for SwitchSound: the second tap stays armed.
Fault_StopSwitchTwoTap(w) == [w EXCEPT !.engaged = FALSE]

StopSwitchTwoTap(w) == [w EXCEPT !.engaged = FALSE, !.armed = FALSE]

StopSwitch(w) == IF w.screen = NoScreen THEN w ELSE NoPendingSwitch

StartSwitchTwoTap(w) ==
  [w EXCEPT !.engaged = TRUE, !.armed = FALSE, !.inTime = TRUE]

\* inward: the last two motions left the tap zone away from the edge.
ArmSwitchTwoTap(w, inward) ==
  IF ~w.engaged THEN w
  ELSE IF ~w.inTime THEN StopSwitchTwoTap(w)
  ELSE [w EXCEPT !.armed = w.armed \/ inward]

NoSwitch(w, inward) == StopSwitchWait(ArmSwitchTwoTap(w, inward))

IsLockedToScreen == m_lockedToScreen \/ buttonDown

\* isSwitchOkay for the neighbour s behind the edge dir.  corner: the cursor
\* is in a locked corner; mods: the needed modifiers are held.  The result
\* is the new pending switch and the value returned.
IsSwitchOkay(w, s, dir, corner, mods) ==
  LET isNew     == dir # w.dir
      aimed     == IF isNew \/ w.screen = NoScreen
                   THEN [w EXCEPT !.dir = dir, !.screen = s] ELSE w
      secondTap == /\ m_switchTwoTapDelay
                   /\ ~isNew
                   /\ w.engaged /\ w.armed /\ w.inTime
      firstTap  == m_switchTwoTapDelay /\ ~secondTap
      tapped    == IF firstTap THEN StartSwitchTwoTap(aimed) ELSE aimed
      delayed   == m_switchWaitDelay /\ ~secondTap
      timed     == IF delayed THEN [tapped EXCEPT !.waiting = TRUE] ELSE tapped
      stopped   == \/ corner
                   \/ /\ ~firstTap /\ ~delayed
                      /\ IsLockedToScreen \/ (m_switchNeedsMods /\ ~mods)
  IN  [ sw |-> IF stopped THEN StopSwitch(timed) ELSE timed,
        ok |-> ~firstTap /\ ~delayed /\ ~stopped ]

\* The caller's test: there is a connected neighbour and the switch is okay.
TrySwitch(w, s, dir, corner, mods) ==
  IF s = NoScreen THEN [sw |-> w, ok |-> FALSE]
  ELSE IsSwitchOkay(w, s, dir, corner, mods)

\* Fault for FocusKept: the old screen is not left.
Fault_SwitchScreen(dst, w) ==
  /\ sw' = StopSwitch(w)
  /\ m_active' = dst
  /\ entered' = entered \cup {dst}

\* switchScreen.  Only the primary screen can refuse to be left.
SwitchScreen(dst, w) ==
  /\ sw' = StopSwitch(w)
  /\ \/ /\ m_active = dst \/ m_active = Primary
        /\ UNCHANGED <<m_active, entered>>
     \/ /\ m_active # dst
        /\ m_active' = dst
        /\ entered' = (entered \ {m_active}) \cup {dst}

-----------------------------------------------------------------------------
(* Mouse motion, timers, hot keys, lock *)

\* The inputs of isSwitchOkay that the handlers read from the platform.
CornerInputs == {c \in BOOLEAN : c => config.corners}
ModifierInputs == {m \in BOOLEAN : ~m => m_switchNeedsMods}

\* onMouseMovePrimary inside the primary screen: no edge is near.
MovePrimaryInside(inward) ==
  /\ m_active = Primary
  /\ sw' = NoSwitch(sw, inward)
  /\ UNCHANGED <<config, optionVars, registryVars, saverVars, lockVars,
                 m_active, entered>>

\* onMouseMovePrimary at an edge, or in a corner where the horizontal
\* neighbour is tried first.  NoScreen: no edge or no neighbour there.
OnMouseMovePrimary(dirh, sh, dirv, sv, corner, mods) ==
  LET h == TrySwitch(sw, sh, dirh, corner, mods)
      v == TrySwitch(h.sw, sv, dirv, corner, mods)
  IN  /\ m_active = Primary
      /\ \/ h.ok /\ SwitchScreen(sh, h.sw)
         \/ ~h.ok /\ v.ok /\ SwitchScreen(sv, v.sw)
         \/ /\ ~h.ok /\ ~v.ok
            /\ sw' = v.sw
            /\ UNCHANGED <<m_active, entered>>
      /\ UNCHANGED <<config, optionVars, registryVars, saverVars, lockVars>>

\* With relative moves the cursor is taken not to move while it is locked.
MovesOnSecondary ==
  m_active # Primary /\ ~(m_relativeMoves /\ m_lockedToScreen)

\* onMouseMoveSecondary within a monitor, away from the edge of m_switchDir.
MoveSecondaryInside(inward) ==
  /\ MovesOnSecondary
  /\ sw.screen # NoScreen
  /\ sw' = NoSwitch(sw, inward)
  /\ UNCHANGED <<config, optionVars, registryVars, saverVars, lockVars,
                 m_active, entered>>

\* onMouseMoveSecondary across the edge dir, behind which s lies.
OnMouseMoveSecondary(dir, s, corner, mods) ==
  LET r == TrySwitch(sw, s, dir, corner, mods)
  IN  /\ MovesOnSecondary
      /\ \/ r.ok /\ SwitchScreen(s, r.sw)
         \/ ~r.ok /\ sw' = r.sw /\ UNCHANGED <<m_active, entered>>
      /\ UNCHANGED <<config, optionVars, registryVars, saverVars, lockVars>>

\* The two-tap stopwatch passes the delay.
TwoTapTimePasses ==
  /\ sw.inTime
  /\ sw' = [sw EXCEPT !.inTime = FALSE]
  /\ UNCHANGED <<config, optionVars, registryVars, saverVars, lockVars,
                 m_active, entered>>

\* Fault for LockHolds: the lock is not tested when the delay runs out.
Fault_TimeoutIgnoresLock ==
  /\ sw.waiting
  /\ SwitchScreen(sw.screen, sw)
  /\ UNCHANGED <<config, optionVars, registryVars, saverVars, lockVars>>

\* Fault for WaitEnds: a locked cursor leaves the switch pending.
Fault_TimeoutKeepsWaiting ==
  /\ sw.waiting
  /\ ~IsLockedToScreen
  /\ SwitchScreen(sw.screen, sw)
  /\ UNCHANGED <<config, optionVars, registryVars, saverVars, lockVars>>

HandleSwitchWaitTimeout ==
  /\ sw.waiting
  /\ \/ /\ IsLockedToScreen
        /\ sw' = StopSwitch(sw)
        /\ UNCHANGED <<m_active, entered>>
     \/ ~IsLockedToScreen /\ SwitchScreen(sw.screen, sw)
  /\ UNCHANGED <<config, optionVars, registryVars, saverVars, lockVars>>

JumpToScreen(s) ==
  /\ SwitchScreen(s, sw)
  /\ UNCHANGED <<config, optionVars, registryVars, saverVars, lockVars>>

HandleSwitchToScreen(n) ==
  LET canon == IF IsScreen(config, n) THEN config.canon[n] ELSE n
  IN  \/ n \in Keys /\ JumpToScreen(m_clients[n])
      \/ n \notin Keys /\ canon \in Keys /\ JumpToScreen(m_clients[canon])

\* n comes after k in m_clients, or first if k is the last.
IsNextKey(k, n) ==
  /\ n \in Keys
  /\ LET later == {j \in Keys : j > k}
     IN  IF later = {} THEN \A j \in Keys : n <= j
                       ELSE n \in later /\ \A j \in later : n <= j

HandleToggleScreen ==
  /\ GetName(config, m_active) \in Keys
  /\ \E n \in Keys : /\ IsNextKey(GetName(config, m_active), n)
                     /\ JumpToScreen(m_clients[n])

\* s: the connected neighbour found in the direction of the hot key.
HandleSwitchInDirection(s) == s \in Connected /\ JumpToScreen(s)

HandleLockCursorToScreen ==
  /\ m_lockedToScreen' = ~m_lockedToScreen
  /\ UNCHANGED <<config, optionVars, registryVars, saverVars, focusVars,
                 buttonDown>>

\* A mouse button of the primary screen is pressed or released.
PressOrRelease ==
  /\ buttonDown' = ~buttonDown
  /\ UNCHANGED <<config, optionVars, registryVars, saverVars, focusVars,
                 m_lockedToScreen>>

-----------------------------------------------------------------------------
(* Screen saver *)

\* onScreensaver(true): remember the active screen, go to the primary.
ScreensaverActivated ==
  /\ ~saverOn
  /\ saverOn' = TRUE
  /\ m_activeSaver' = m_active
  /\ saving' = saving \cup (Connected \ {Primary})
  /\ \/ m_active = Primary /\ UNCHANGED focusVars
     \/ m_active # Primary /\ SwitchScreen(Primary, sw)
  /\ UNCHANGED <<config, optionVars, registryVars, lockVars>>

\* onScreensaver(false): go back to the screen that was active.
ScreensaverDeactivated ==
  /\ saverOn
  /\ saverOn' = FALSE
  /\ m_activeSaver' = NoScreen
  /\ saving' = saving \ Connected
  /\ \/ m_activeSaver \in {NoScreen, Primary} /\ UNCHANGED focusVars
     \/ m_activeSaver \notin {NoScreen, Primary} /\ SwitchScreen(m_activeSaver, sw)
  /\ UNCHANGED <<config, optionVars, registryVars, lockVars>>

-----------------------------------------------------------------------------
(* Clients come and go *)

\* The screen that forceLeaveClient takes to have the cursor.
FocusHolder == IF m_activeSaver # NoScreen THEN m_activeSaver ELSE m_active

\* What forceLeaveClient leaves of the pending switch when R leaves.
SwitchAfterLeave(R) ==
  IF FocusHolder \in R /\ FocusHolder = sw.screen THEN StopSwitch(sw) ELSE sw

\* forceLeaveClient for each client of R; sw is left to the caller.
ForceLeaveClients(R) ==
  /\ m_active' = IF FocusHolder \in R THEN Primary ELSE m_active
  /\ entered' = IF FocusHolder \in R /\ m_activeSaver = NoScreen
                THEN (entered \ R) \cup {Primary} ELSE entered \ R
  /\ m_activeSaver' = IF m_activeSaver \in R THEN NoScreen ELSE m_activeSaver

\* removeClient for each client of R that is in m_clientSet: the entry of
\* m_clients is found by the name that cfg gives the client now.
RemoveClients(R, cfg) ==
  /\ m_clients' = [n \in Names |->
                     IF \E s \in R \cap m_clientSet : GetName(cfg, s) = n
                     THEN NoScreen ELSE m_clients[n]]
  /\ m_clientSet' = m_clientSet \ R

\* closeClient for each client of R.
CloseClients(R, cfg) ==
  /\ RemoveClients(R, cfg)
  /\ m_oldClients' = m_oldClients \cup R
  /\ ForceLeaveClients(R)
  /\ saving' = saving \ R

\* Fault for SaverInStep: a new client is not told.
Fault_SavingAfterAdopt(p) == saving

\* A client adopted while the screen saver runs is told so.
SavingAfterAdopt(p) == IF m_activeSaver # NoScreen THEN saving \cup {p} ELSE saving

\* adoptClient for a proxy that finished the handshake under the name n.
AdoptClient(p, n) ==
  LET key == IF IsScreen(config, n) THEN config.canon[n] ELSE n
      accepted == IsScreen(config, n) /\ m_clients[key] = NoScreen
  IN  /\ name[p] = NoName
      /\ name' = [name EXCEPT ![p] = n]
      /\ \/ /\ accepted
            /\ m_clients' = [m_clients EXCEPT ![key] = p]
            /\ m_clientSet' = m_clientSet \cup {p}
            /\ saving' = SavingAfterAdopt(p)
            /\ entered' = entered \ {p}
            /\ UNCHANGED <<m_oldClients, m_activeSaver, m_active, sw>>
         \/ /\ ~accepted
            /\ CloseClients({p}, config)
            /\ sw' = SwitchAfterLeave({p})
      /\ UNCHANGED <<config, optionVars, hungUp, saverOn, lockVars>>

\* ClientProxy1_0::disconnect: the stream failed, hung up or fell silent.
ProxyDisconnect(p) ==
  /\ name[p] # NoName
  /\ p \notin hungUp
  /\ hungUp' = hungUp \cup {p}
  /\ UNCHANGED <<config, optionVars, name, m_clients, m_clientSet,
                 m_oldClients, saverVars, lockVars, focusVars>>

\* Fault for RegistryOK: the closing list keeps the deleted client.
Fault_DeleteProxy(p) ==
  /\ name' = [name EXCEPT ![p] = NoName]
  /\ hungUp' = hungUp \ {p}
  /\ UNCHANGED m_oldClients

\* The proxy object is deleted.
DeleteProxy(p) ==
  /\ name' = [name EXCEPT ![p] = NoName]
  /\ hungUp' = hungUp \ {p}
  /\ m_oldClients' = m_oldClients \ {p}

HandleClientDisconnected(p) ==
  /\ p \in hungUp
  /\ \/ /\ p \in m_clientSet
        /\ RemoveClients({p}, config)
        /\ ForceLeaveClients({p})
        /\ sw' = SwitchAfterLeave({p})
        /\ saving' = saving \ {p}
     \/ /\ p \notin m_clientSet
        /\ UNCHANGED <<m_clients, m_clientSet, m_activeSaver, saving, focusVars>>
  /\ DeleteProxy(p)
  /\ UNCHANGED <<config, optionVars, saverOn, lockVars>>

HandleClientCloseTimeout(p) ==
  /\ p \in m_oldClients
  /\ DeleteProxy(p)
  /\ UNCHANGED <<config, optionVars, m_clients, m_clientSet, saverVars,
                 lockVars, focusVars>>

\* Fault for ClientsConfigured: the old configuration is consulted.
Fault_Dropped(cfg) ==
  {m_clients[n] : n \in {k \in Keys : ~IsCanonicalName(config, k)}} \ {Primary}

\* closeClients: the connected clients whose key is not canonical in cfg.
Dropped(cfg) == {m_clients[n] : n \in {k \in Keys : ~IsCanonicalName(cfg, k)}}
                \ {Primary}

\* processOptions on the pending switch: a given option stops its wait.
SwitchAfterOptions(w, cfg) ==
  LET a == IF cfg.switchDelay = "unset" THEN w ELSE StopSwitchWait(w)
  IN  IF cfg.twoTap = "unset" THEN a ELSE StopSwitchTwoTap(a)

ProcessOptions(cfg) ==
  /\ m_switchWaitDelay' = OptionValue(cfg.switchDelay, m_switchWaitDelay)
  /\ m_switchTwoTapDelay' = OptionValue(cfg.twoTap, m_switchTwoTapDelay)
  /\ m_relativeMoves' = OptionValue(cfg.relative, m_relativeMoves)
  /\ m_switchNeedsMods' = cfg.needsMods

\* ServerApp::reloadConfig: *m_config is overwritten, then setConfig is
\* called, which may refuse it.
ReloadConfig(cfg) ==
  /\ config' = cfg
  /\ \/ /\ IsScreen(cfg, PrimaryName)
        /\ CloseClients(Dropped(cfg), cfg)
        /\ ProcessOptions(cfg)
        /\ sw' = SwitchAfterOptions(SwitchAfterLeave(Dropped(cfg)), cfg)
     \/ /\ ~IsScreen(cfg, PrimaryName)
        /\ UNCHANGED <<optionVars, m_clients, m_clientSet, m_oldClients,
                       m_activeSaver, saving, focusVars>>
  /\ UNCHANGED <<name, hungUp, saverOn, lockVars>>

\* Server::disconnect: close every client but the primary.
Disconnect ==
  /\ CloseClients(Connected \ {Primary}, config)
  /\ sw' = SwitchAfterLeave(Connected \ {Primary})
  /\ UNCHANGED <<config, optionVars, name, hungUp, saverOn, lockVars>>

-----------------------------------------------------------------------------
Init ==
  /\ config \in {cfg \in Configs : IsScreen(cfg, PrimaryName)}
  /\ m_switchWaitDelay = (config.switchDelay = "on")
  /\ m_switchTwoTapDelay = (config.twoTap = "on")
  /\ m_relativeMoves = (config.relative = "on")
  /\ m_switchNeedsMods = config.needsMods
  /\ name = [p \in Proxies |-> NoName]
  /\ hungUp = {}
  /\ m_clients = [n \in Names |->
                    IF n = config.canon[PrimaryName] THEN Primary ELSE NoScreen]
  /\ m_clientSet = {Primary}
  /\ m_oldClients = {}
  /\ m_active = Primary
  /\ m_activeSaver = NoScreen
  /\ entered = {Primary}
  /\ saverOn = FALSE
  /\ saving = {}
  /\ sw = NoPendingSwitch
  /\ m_lockedToScreen \in BOOLEAN
  /\ buttonDown = FALSE

MouseMotion ==
  \/ \E inward \in BOOLEAN : MovePrimaryInside(inward) \/ MoveSecondaryInside(inward)
  \/ \E mods \in ModifierInputs, corner \in CornerInputs :
       \/ \E dirh \in Horizontal, dirv \in Vertical,
             sh, sv \in Connected \cup {NoScreen} :
            OnMouseMovePrimary(dirh, sh, dirv, sv, corner, mods)
       \/ \E dir \in Directions, s \in Connected \cup {NoScreen} :
            OnMouseMoveSecondary(dir, s, corner, mods)

HotKey ==
  \/ \E n \in Names : HandleSwitchToScreen(n)
  \/ HandleToggleScreen
  \/ \E s \in Connected : HandleSwitchInDirection(s)

ClientChange ==
  \/ \E p \in Proxies, n \in Names : AdoptClient(p, n)
  \/ \E p \in Proxies : \/ ProxyDisconnect(p)
                        \/ HandleClientDisconnected(p)
                        \/ HandleClientCloseTimeout(p)

Next ==
  \/ MouseMotion
  \/ TwoTapTimePasses
  \/ HandleSwitchWaitTimeout
  \/ HotKey
  \/ HandleLockCursorToScreen
  \/ PressOrRelease
  \/ ScreensaverActivated
  \/ ScreensaverDeactivated
  \/ ClientChange
  \/ \E cfg \in Configs : ReloadConfig(cfg)
  \/ Disconnect

\* The event queue fires an expired timer and delivers a queued event in
\* time: timers are served whenever the queue runs empty.
Fairness ==
  /\ WF_vars(HandleSwitchWaitTimeout)
  /\ \A p \in Proxies : /\ WF_vars(HandleClientCloseTimeout(p))
                        /\ WF_vars(HandleClientDisconnected(p))

Spec == Init /\ [][Next]_vars

FairSpec == Spec /\ Fairness

-----------------------------------------------------------------------------
(* Properties *)

\* No name is an alias: every configuration maps the names it has to
\* themselves.
AliasFree == \A cfg \in Configs : \A n \in DOMAIN cfg.canon : cfg.canon[n] = n

\* Every configuration has the primary screen, so setConfig refuses none.
PrimaryConfigured == \A cfg \in Configs : IsScreen(cfg, PrimaryName)

\* addClient, removeClient, closeClient and the two handlers that delete a
\* client keep the three collections in step: m_clients lists exactly the
\* members of m_clientSet, each once and under its current name; a proxy
\* object is allocated iff it is registered or waiting to be closed, never
\* both, so that no collection keeps a deleted client and none is leaked.
RegistryOK ==
  /\ Primary \in m_clientSet
  /\ \A s \in m_clientSet : /\ GetName(config, s) \in Names
                            /\ m_clients[GetName(config, s)] = s
  /\ \A n \in Keys : m_clients[n] \in m_clientSet /\ GetName(config, m_clients[n]) = n
  /\ m_clientSet \cap m_oldClients = {}
  /\ \A p \in Proxies : name[p] # NoName <=> p \in m_clientSet \cup m_oldClients
  /\ \A p \in hungUp : name[p] # NoName

\* setConfig closes the clients that a new configuration drops: every
\* connected client is a canonical screen of the configuration in force.
ClientsConfigured == \A n \in Keys : IsCanonicalName(config, n)

\* The tests of isSwitchOkay share one pending switch: a direction is
\* recorded iff a screen is, and neither the switch timer nor the two-tap
\* state outlives them.  So handleSwitchWaitTimeout never hands a null screen
\* to switchScreen.
PendingSwitchOK ==
  /\ sw.screen = NoScreen <=> sw.dir = NoDirection
  /\ sw.waiting => sw.screen # NoScreen
  /\ sw.engaged => sw.screen # NoScreen
  /\ sw.armed => sw.engaged

\* The pending switch is coherent, and every variable has its type: the two
\* hold together, because the timeout makes m_active what sw.screen was.
SwitchSound == TypeOK /\ PendingSwitchOK

\* closeClient: "if this client is the active screen then we have to jump
\* off of it".
ActiveConnected == m_active \in m_clientSet

\* The cursor is on a connected screen, of the connected screens exactly that
\* one has been entered (what Screen::enter and leave assert), and the screen
\* to go back to when the screen saver stops is connected too.
FocusOK ==
  /\ ActiveConnected
  /\ m_activeSaver \in m_clientSet \cup {NoScreen}
  /\ entered \cap m_clientSet = {m_active}

\* The two situations forceLeaveClient does not foresee: the cursor is off
\* the primary screen while a screen saver target is remembered, or a switch
\* is timed to a screen that is no longer connected.
Stray ==
  \/ m_activeSaver # NoScreen /\ m_active # Primary
  \/ sw.waiting /\ sw.screen \notin m_clientSet

\* No handler loses the cursor, except from a stray state: switchScreen,
\* forceLeaveClient and onScreensaver together keep exactly one connected
\* screen entered, the active one.
FocusKept == [][FocusOK /\ ~Stray => FocusOK']_vars

\* While the cursor is locked (by the user or by a held button) to a connected
\* screen, it changes screens only on a hot key, for the screen saver, or because the active
\* client leaves: a delay that runs out or a second tap does not move it.
LockHolds ==
  [][IsLockedToScreen /\ FocusOK /\ m_active' # m_active
       => \/ HotKey
          \/ saverOn' # saverOn
          \/ m_clientSet' # m_clientSet]_vars

\* As long as onScreensaver's target is remembered every client knows that
\* the screen saver runs, those adopted since included; once it stops none
\* is left believing it runs.
SaverInStep ==
  /\ m_activeSaver # NoScreen => m_clientSet \ {Primary} \subseteq saving
  /\ ~saverOn => saving = {}

\* A delayed switch does not stay pending: the timer fires or is stopped.
WaitEnds == sw.waiting ~> ~sw.waiting

(* What a comment says, and the code does not always do *)

\* forceLeaveClient: "stop waiting to switch to this client".
SwitchTargetConnected == sw.waiting => sw.screen \in m_clientSet

=============================================================================
