--------------------------- MODULE LangMode_proofs ---------------------------
(***************************************************************************)
(* Proofs about LangMode: its types, what may change the language mode,    *)
(* and what an activation leaves behind, for every set of settings and of  *)
(* applications and for any number of refusals.                            *)
(***************************************************************************)
EXTENDS LangMode, TLAPS

\* Once a handler has ended well the flag is down, where the compartment is not
\* synchronised.
SettledFlag == ~cfg.sync_lang_mode_openclose /\ ~unsettled => ~pending

\* A Shift that is down and recent was followed by no other key.
RecentIsAlone == recent /\ "shift" \in held => alone

\* A cookie stands for a sink, and where TSF has refused nothing a service that is on
\* keeps those of all of its sinks.
CookiesAreKept ==
    /\ \A s \in cookies : sinks[s] > 0
    /\ failures = 0 /\ service = "on" => cookies = SinkNames \ SingleSinks

\* The mode, if it is open, is what CapsLock says.
Synced(mode) == cfg.enable_caps_lock /\ ~mode.disabled => mode.lang = ByCapsLock

IInv ==
    /\ TypeOK /\ CapsLockDecides /\ SettledFlag /\ RecentIsAlone
    /\ LeavesNothingBehind /\ CookiesAreKept

USE DEF keyboardVars, focusVars, shiftVars, modeVars, serviceVars, vars
-----------------------------------------------------------------------------
\* sync_lang_mode leaves the mode open or closed, and what it makes of an open one
\* is what CapsLock says.
LEMMA SyncLangModeFacts ==
    ASSUME NEW mode \in LangModes, cfg \in Settings
    PROVE  /\ SyncLangMode(mode) \in LangModes
           /\ SyncLangMode(mode).disabled = mode.disabled
           /\ Synced(SyncLangMode(mode))
BY DEF SyncLangMode, ByCapsLock, LangModes, Synced

LEMMA ToggledFacts ==
    ASSUME NEW mode \in LangModes
    PROVE  /\ [mode EXCEPT !.disabled = ~@] \in LangModes
           /\ [mode EXCEPT !.disabled = ~@].disabled = ~mode.disabled
BY DEF LangModes

LEMMA ModeTypes ==
    ASSUME TypeOK
    PROVE  /\ cfg \in Settings
           /\ OtherLang \in LangModes /\ OtherLang.disabled = lang_mode.disabled
           /\ SyncLangMode(OtherLang) \in LangModes
           /\ SyncLangMode(lang_mode) \in LangModes
BY ConfigsAssumption, SyncLangModeFacts DEF TypeOK, OtherLang, LangModes

\* A call of OnChange keeps a mode that is what CapsLock says so.
LEMMA FollowedFacts ==
    ASSUME NEW mode \in LangModes, cfg \in Settings
    PROVE  /\ Followed(mode) \in LangModes
           /\ Synced(mode) => Synced(Followed(mode))
           /\ has_focus => Followed(mode).disabled = ~mode.disabled
<1> DEFINE toggled == [mode EXCEPT !.disabled = ~@]
<1>1. toggled \in LangModes /\ toggled.disabled = ~mode.disabled
  BY ToggledFacts
<1>2. /\ SyncLangMode(toggled) \in LangModes
      /\ SyncLangMode(toggled).disabled = ~mode.disabled
      /\ Synced(SyncLangMode(toggled))
  BY <1>1, SyncLangModeFacts
<1> QED
  BY <1>2 DEF Followed

\* However often the sink is registered.
LEMMA HeardFacts ==
    ASSUME NEW mode \in LangModes, NEW flag \in BOOLEAN, TypeOK
    PROVE  /\ Heard(mode, flag) \in LangModes
           /\ Synced(mode) => Synced(Heard(mode, flag))
           /\ HearsOnce /\ flag => Heard(mode, flag) = mode
           /\ HearsOnce /\ ~flag => Heard(mode, flag) = Followed(mode)
<1>1. cfg \in Settings
  BY ModeTypes
<1>2. Followed(mode) \in LangModes /\ Followed(Followed(mode)) \in LangModes
  BY <1>1, FollowedFacts
<1>3. Synced(mode) => Synced(Followed(mode)) /\ Synced(Followed(Followed(mode)))
  BY <1>1, <1>2, FollowedFacts
<1>4. Heard(mode, flag) \in {mode, Followed(mode), Followed(Followed(mode))}
  BY DEF Heard
<1>5. /\ HearsOnce /\ flag => Heard(mode, flag) = mode
      /\ HearsOnce /\ ~flag => Heard(mode, flag) = Followed(mode)
  BY DEF Heard, HearsOnce
<1> QED
  BY <1>2, <1>3, <1>4, <1>5

\* The end of a handler: the mode, the flag and the compartment.
LEMMA EndOfHandler ==
    ASSUME NEW mode \in LangModes, NEW flag \in BOOLEAN, TypeOK,
           UNCHANGED <<cfg, caps>>,
           EndHandler(mode, flag) \/ FailHandler(mode, flag)
    PROVE  /\ lang_mode' \in LangModes
           /\ pending' \in BOOLEAN /\ openclose' \in BOOLEAN /\ unsettled' \in BOOLEAN
           /\ SettledFlag'
           /\ ~cfg.sync_lang_mode_openclose => openclose' = openclose
           /\ Synced(mode) => Synced(lang_mode')
           /\ HearsOnce => lang_mode' = mode
<1>1. Open(mode) \in BOOLEAN
  BY DEF Open
<1>2. openclose' \in BOOLEAN /\ unsettled' \in BOOLEAN
  BY <1>1, Zenon DEF TypeOK, EndHandler, FailHandler, SyncKeyboardOpenclose
<1>3. pending' \in BOOLEAN
  BY DEF TypeOK, EndHandler, FailHandler, SyncKeyboardOpenclose
<1>4. SettledFlag' /\ (~cfg.sync_lang_mode_openclose => openclose' = openclose)
  BY Zenon DEF EndHandler, FailHandler, SyncKeyboardOpenclose, SettledFlag
<1>5. lang_mode' = mode \/ (flag /\ lang_mode' = Heard(mode, flag))
  BY Zenon DEF EndHandler, FailHandler, SyncKeyboardOpenclose
<1>6. lang_mode' \in LangModes /\ (Synced(mode) => Synced(lang_mode'))
      /\ (HearsOnce => lang_mode' = mode)
  BY <1>5, HeardFacts
<1> QED
  BY <1>2, <1>3, <1>4, <1>6

LEMMA InitInvariant == Init => IInv
<1> SUFFICES ASSUME Init
             PROVE  IInv
  OBVIOUS
<1>1. lang_mode \in LangModes
  BY DEF Init, NewMode, LangModes
<1>2. failures \in 0 .. Refusals[cfg]
  BY RefusalsAssumption DEF Init
<1>3. sinks \in [SinkNames -> 0 .. MaxSinks]
  BY DEF Init, MaxSinks
<1>4. TypeOK
  BY <1>1, <1>2, <1>3 DEF Init, TypeOK
<1> QED
  BY <1>4 DEF Init, IInv, CapsLockDecides, SettledFlag, RecentIsAlone, LeavesNothingBehind,
              CookiesAreKept
-----------------------------------------------------------------------------
\* A key goes down: the mode is nobody's business, the light may turn.
LEMMA KeyDownKeepsInvariant ==
    ASSUME IInv, NEW k \in Keys, KeyDown(k)
    PROVE  IInv'
<1>1. TypeOK /\ UNCHANGED <<cfg, app, serviceVars, modeVars, has_focus, focus, active, unseen>>
  BY DEF IInv, KeyDown
<1>2. held' \in SUBSET Keys /\ caps' \in BOOLEAN /\ alone' \in BOOLEAN
  BY <1>1 DEF TypeOK, KeyDown
<1>3. /\ shift_key_state' \in {"Up", "Down", "Consumed"} /\ recent' \in BOOLEAN
      /\ recent' => shift_key_state' = "Down"
  BY <1>1 DEF TypeOK, KeyDown, TestKeyDown
<1>4. key_busy' \in BOOLEAN
  <2>1. PICK wanted \in BOOLEAN :
           key_busy' = (key_busy \/ wanted \/ app = "does not ask")
    BY Zenon DEF KeyDown
  <2> QED
    BY <1>1, <2>1 DEF TypeOK
<1>5. TypeOK'
  BY <1>1, <1>2, <1>3, <1>4 DEF TypeOK
<1>6. CapsLockDecides'
  <2>1. CASE k = "caps"
    BY <2>1 DEF KeyDown, CapsLockDecides
  <2>2. CASE k # "caps"
    <3>1. caps' = caps /\ ("caps" \in held' => "caps" \in held)
      BY <1>1, <2>2 DEF KeyDown, TypeOK
    <3>2. held \subseteq held'
      BY DEF KeyDown
    <3> QED
      BY <1>1, <3>1, <3>2 DEF IInv, CapsLockDecides, ByCapsLock
  <2> QED
    BY <2>1, <2>2
<1>7. RecentIsAlone'
  BY DEF IInv, KeyDown, TestKeyDown, RecentIsAlone
<1> QED
  BY <1>1, <1>5, <1>6, <1>7 DEF IInv, SettledFlag, LeavesNothingBehind, CookiesAreKept

\* What on_keyup does, in either kind of application.
LEMMA OnKeyUpFacts ==
    ASSUME IInv, NEW k \in Keys, OnKeyUp(k), UNCHANGED <<cfg, caps>>
    PROVE  /\ lang_mode' \in LangModes
           /\ pending' \in BOOLEAN /\ openclose' \in BOOLEAN /\ unsettled' \in BOOLEAN
           /\ SettledFlag'
           /\ ~cfg.sync_lang_mode_openclose => openclose' = openclose
           /\ shift_key_state' \in {"Up", "Down", "Consumed"} /\ recent' \in BOOLEAN
           /\ recent' => shift_key_state' = "Down"
           /\ recent' => recent
           /\ Synced(lang_mode) \/ k = "caps" => Synced(lang_mode')
           /\ HearsOnce /\ k = "shift" /\ ~Tapped(k) => lang_mode' = lang_mode
<1>1. TypeOK /\ cfg \in Settings /\ lang_mode \in LangModes
  BY ModeTypes DEF IInv, TypeOK
<1>2. PICK mode \in LangModes, flag \in BOOLEAN :
         /\ EndHandler(mode, flag) \/ FailHandler(mode, flag)
         /\ Synced(lang_mode) \/ k = "caps" => Synced(mode)
         /\ k = "shift" /\ ~Tapped(k) => mode = lang_mode
  <2>1. CASE /\ Tapped(k) /\ ~cfg.enable_caps_lock
             /\ EndHandler(SyncLangMode(OtherLang), TRUE) \/ FailHandler(SyncLangMode(OtherLang), TRUE)
    BY <1>1, <2>1, ModeTypes DEF Synced
  <2>2. CASE /\ Tapped(k) /\ cfg.enable_caps_lock
             /\ EndHandler(lang_mode, pending) \/ FailHandler(lang_mode, pending)
    BY <1>1, <2>2 DEF TypeOK, Tapped
  <2>3. CASE /\ k = "caps" /\ cfg.enable_caps_lock
             /\ EndHandler(SyncLangMode(lang_mode), TRUE) \/ FailHandler(SyncLangMode(lang_mode), TRUE)
    BY <1>1, <2>3, ModeTypes, SyncLangModeFacts
  <2>4. CASE /\ ~Tapped(k) /\ ~(k = "caps" /\ cfg.enable_caps_lock)
             /\ EndHandler(lang_mode, pending)
    BY <1>1, <2>4 DEF TypeOK, Synced
  <2> QED
    BY <2>1, <2>2, <2>3, <2>4 DEF OnKeyUp
<1>3. /\ shift_key_state' \in {"Up", "Down", "Consumed"} /\ recent' \in BOOLEAN
      /\ recent' => shift_key_state' = "Down"
      /\ recent' => recent
  BY <1>1 DEF TypeOK, OnKeyUp
<1> QED
  BY <1>1, <1>2, <1>3, EndOfHandler

LEMMA KeyUpKeepsInvariant ==
    ASSUME IInv, NEW k \in Keys, KeyUp(k)
    PROVE  IInv'
<1>1. /\ TypeOK /\ held' = held \ {k} /\ lang_mode \in LangModes
      /\ UNCHANGED <<cfg, app, serviceVars, has_focus, focus, active, caps, alone, unseen>>
  BY DEF IInv, TypeOK, KeyUp
<1>2. key_busy' \in BOOLEAN
  BY <1>1 DEF TypeOK, KeyUp
<1>3. ByCapsLock' = ByCapsLock
  BY <1>1 DEF ByCapsLock
<1>4. /\ lang_mode' \in LangModes
      /\ pending' \in BOOLEAN /\ openclose' \in BOOLEAN /\ unsettled' \in BOOLEAN
      /\ SettledFlag'
      /\ shift_key_state' \in {"Up", "Down", "Consumed"} /\ recent' \in BOOLEAN
      /\ recent' => shift_key_state' = "Down"
      /\ recent' => recent
      /\ Synced(lang_mode) \/ (k = "caps" /\ ~lang_mode.disabled) => Synced(lang_mode')
  <2>1. CASE OnKeyUp(k)
    BY <1>1, <2>1, OnKeyUpFacts
  <2>2. CASE lang_mode.disabled /\ UNCHANGED shiftVars /\ EndHandler(lang_mode, pending)
    <3>1. pending \in BOOLEAN
      BY <1>1 DEF TypeOK
    <3> QED
      BY <1>1, <2>2, <3>1, EndOfHandler DEF TypeOK
  <2> QED
    BY <2>1, <2>2 DEF KeyUp, OnTestKeyUp
<1>5. TypeOK'
  BY <1>1, <1>2, <1>4 DEF TypeOK
<1>6. CapsLockDecides'
  <2>1. ASSUME ~unseen, "caps" \notin held' PROVE Synced(lang_mode')
    <3>1. CASE lang_mode.disabled
      <4>1. Synced(lang_mode)
        BY <3>1, Zenon DEF Synced
      <4> QED
        BY <1>4, <4>1
    <3>2. CASE ~lang_mode.disabled
      <4>1. k = "caps" \/ "caps" \notin held
        BY <1>1, <2>1
      <4>2. "caps" \notin held => Synced(lang_mode)
        BY <1>1, <2>1, Zenon DEF IInv, CapsLockDecides, Synced
      <4> QED
        BY <1>4, <3>2, <4>1, <4>2
    <3> QED
      BY <3>1, <3>2
  <2> QED
    BY <1>1, <1>3, <2>1, Zenon DEF CapsLockDecides, Synced
<1>7. RecentIsAlone'
  BY <1>1, <1>4 DEF IInv, RecentIsAlone
<1> QED
  BY <1>1, <1>4, <1>5, <1>6, <1>7 DEF IInv, LeavesNothingBehind, CookiesAreKept

\* Where the mode is what CapsLock says, or the light is not known, and the flag is
\* right, and no sink is touched, the invariant follows from the types.
LEMMA ModeChanged ==
    ASSUME IInv, UNCHANGED <<cfg, app, serviceVars, shiftVars, has_focus, key_busy, held, caps, alone>>,
           lang_mode' \in LangModes, pending' \in BOOLEAN, openclose' \in BOOLEAN,
           unsettled' \in BOOLEAN, active' \in BOOLEAN, focus' \in BOOLEAN, unseen' \in BOOLEAN,
           SettledFlag',
           ~unseen' /\ "caps" \notin held => Synced(lang_mode')
    PROVE  IInv'
<1>1. ByCapsLock' = ByCapsLock
  BY DEF ByCapsLock
<1>2. TypeOK'
  BY DEF IInv, TypeOK
<1>3. CapsLockDecides'
  BY <1>1 DEF CapsLockDecides, Synced
<1> QED
  BY <1>2, <1>3 DEF IInv, RecentIsAlone, LeavesNothingBehind, CookiesAreKept

\* The menu command and the thread's focus: the mode is read from CapsLock again.
LEMMA HandlerKeepsInvariant ==
    ASSUME IInv, OnCommand \/ OnSetThreadFocus
    PROVE  IInv'
<1>1. /\ TypeOK /\ cfg \in Settings /\ lang_mode \in LangModes /\ pending \in BOOLEAN
      /\ UNCHANGED <<cfg, app, serviceVars, shiftVars, has_focus, key_busy, focus, held, caps, alone>>
      /\ active' \in BOOLEAN /\ unseen' \in BOOLEAN /\ focus' \in BOOLEAN
  <2>1. TypeOK /\ cfg \in Settings /\ lang_mode \in LangModes /\ pending \in BOOLEAN
    BY ModeTypes DEF IInv, TypeOK
  <2>2. /\ UNCHANGED <<cfg, app, serviceVars, shiftVars, has_focus, key_busy, focus, held, caps,
                       alone>>
        /\ active' = active \/ active' = TRUE
        /\ unseen' = unseen \/ unseen' = FALSE
    BY Zenon DEF OnCommand, OnSetThreadFocus
  <2> QED
    BY <2>1, <2>2 DEF TypeOK
<1>2. ~unseen /\ "caps" \notin held => Synced(lang_mode)
  BY DEF IInv, CapsLockDecides, Synced
<1>3. CASE OnSetThreadFocus /\ UNCHANGED <<modeVars, unseen>>
  BY <1>1, <1>2, <1>3, ModeChanged DEF IInv, TypeOK, SettledFlag, Synced, ByCapsLock
<1>4. CASE \E mode \in LangModes, flag \in BOOLEAN :
             /\ EndHandler(mode, flag) \/ FailHandler(mode, flag)
             /\ Synced(mode) \/ (mode = lang_mode /\ UNCHANGED unseen)
  <2>1. PICK mode \in LangModes, flag \in BOOLEAN :
             /\ EndHandler(mode, flag) \/ FailHandler(mode, flag)
             /\ Synced(mode) \/ (mode = lang_mode /\ UNCHANGED unseen)
    BY <1>4
  <2>2. /\ lang_mode' \in LangModes
        /\ pending' \in BOOLEAN /\ openclose' \in BOOLEAN /\ unsettled' \in BOOLEAN
        /\ SettledFlag'
        /\ Synced(mode) => Synced(lang_mode')
    BY <1>1, <2>1, EndOfHandler
  <2>3. ~unseen' /\ "caps" \notin held => Synced(lang_mode')
    BY <1>2, <2>1, <2>2
  <2> QED
    BY <1>1, <2>2, <2>3, ModeChanged
<1>5. CASE OnCommand
  <2>1. SyncLangMode(OtherLang) \in LangModes /\ Synced(SyncLangMode(OtherLang))
    BY <1>1, ModeTypes, SyncLangModeFacts
  <2> QED
    BY <1>4, <1>5, <2>1 DEF OnCommand
<1>6. CASE OnSetThreadFocus
  <2>1. SyncLangMode(lang_mode) \in LangModes /\ Synced(SyncLangMode(lang_mode))
    BY <1>1, SyncLangModeFacts
  <2>2. CASE EndHandler(SyncLangMode(lang_mode), TRUE) \/ FailHandler(SyncLangMode(lang_mode), TRUE)
    <3>1. \E mode \in LangModes, flag \in BOOLEAN :
             /\ EndHandler(mode, flag) \/ FailHandler(mode, flag)
             /\ Synced(mode) \/ (mode = lang_mode /\ UNCHANGED unseen)
      BY <2>1, <2>2, Zenon
    <3> QED
      BY <1>4, <3>1
  <2>3. CASE FailHandler(lang_mode, pending) /\ UNCHANGED unseen
    BY <1>1, <1>4, <2>3
  <2> QED
    BY <1>3, <1>6, <2>2, <2>3 DEF OnSetThreadFocus
<1> QED
  BY <1>5, <1>6

LEMMA CompartmentKeepsInvariant ==
    ASSUME IInv, OnCompartmentChange
    PROVE  IInv'
<1>1. /\ TypeOK /\ lang_mode \in LangModes /\ pending \in BOOLEAN
      /\ openclose' \in BOOLEAN /\ unsettled' \in BOOLEAN
      /\ active' \in BOOLEAN /\ unseen' \in BOOLEAN /\ focus' \in BOOLEAN
      /\ UNCHANGED <<cfg, app, serviceVars, unsettled, shiftVars, focusVars, keyboardVars>>
  BY DEF IInv, TypeOK, OnCompartmentChange
<1>2. \/ lang_mode' = Heard(lang_mode, pending) /\ pending' = FALSE
      \/ UNCHANGED <<lang_mode, pending>>
  BY DEF OnCompartmentChange
<1>3. lang_mode' \in LangModes /\ (Synced(lang_mode) => Synced(lang_mode'))
  BY <1>1, <1>2, HeardFacts
<1>4. ~unseen /\ "caps" \notin held => Synced(lang_mode)
  BY DEF IInv, CapsLockDecides, Synced
<1>5. pending' \in BOOLEAN /\ SettledFlag'
  <2>1. pending' = FALSE \/ pending' = pending
    BY <1>2
  <2>2. cfg' = cfg /\ unsettled' = unsettled /\ SettledFlag
    BY <1>1 DEF IInv
  <2>3. pending' \in BOOLEAN
    BY <1>1, <2>1
  <2>4. SettledFlag'
    BY <2>1, <2>2, Zenon DEF SettledFlag
  <2> QED
    BY <2>3, <2>4
<1> QED
  BY <1>1, <1>3, <1>4, <1>5, ModeChanged

\* What happens outside of the documents, and to the focus.
LEMMA ElsewhereKeepsInvariant ==
    ASSUME IInv, KeysElsewhere \/ ShiftIsHeld \/ OnSetFocus \/ OnKillThreadFocus
    PROVE  IInv'
<1>1. TypeOK
  BY DEF IInv
<1>2. CASE KeysElsewhere
  <2>1. /\ UNCHANGED <<cfg, app, serviceVars, modeVars, shiftVars, has_focus, focus, active, alone>>
        /\ unseen' = TRUE /\ held' \subseteq held /\ caps' \in BOOLEAN /\ key_busy' \in BOOLEAN
    BY <1>1, <1>2 DEF TypeOK, KeysElsewhere
  <2>2. TypeOK'
    BY <1>1, <2>1 DEF TypeOK
  <2> QED
    BY <2>1, <2>2 DEF IInv, CapsLockDecides, SettledFlag, RecentIsAlone, LeavesNothingBehind,
                      CookiesAreKept
<1>3. CASE ShiftIsHeld
  <2>1. /\ UNCHANGED <<cfg, app, serviceVars, modeVars, shift_key_state, focusVars, keyboardVars>>
        /\ recent' \in BOOLEAN /\ (recent' => shift_key_state' = "Down") /\ ~recent'
    <3>1. ShiftIsHeld => recent' = FALSE
      BY DEF ShiftIsHeld
    <3>2. recent' \in BOOLEAN /\ (recent' => shift_key_state' = "Down") /\ ~recent'
      BY <1>3, <3>1
    <3> QED
      BY <1>3, <3>2 DEF ShiftIsHeld
  <2>2. UNCHANGED <<cfg, app, service, sinks, cookies, failures, lang_mode, pending, openclose,
                    unsettled, shift_key_state, has_focus, key_busy, focus, active, held, caps,
                    alone, unseen>>
    BY <2>1
  <2>3. TypeOK'
    BY <1>1, <2>1, <2>2 DEF TypeOK
  <2> QED
    BY <2>1, <2>3 DEF IInv, CapsLockDecides, ByCapsLock, SettledFlag, RecentIsAlone,
                      LeavesNothingBehind, CookiesAreKept
<1>4. CASE OnSetFocus \/ OnKillThreadFocus
  <2>1. UNCHANGED <<cfg, app, serviceVars, modeVars, shiftVars, key_busy, keyboardVars>>
    BY <1>4 DEF OnSetFocus, OnKillThreadFocus
  <2>2. has_focus' \in BOOLEAN /\ focus' \in BOOLEAN /\ active' \in BOOLEAN
    BY <1>1, <1>4 DEF TypeOK, OnSetFocus, OnKillThreadFocus
  <2>3. TypeOK'
    BY <1>1, <2>1, <2>2 DEF TypeOK
  <2> QED
    BY <2>1, <2>3 DEF IInv, CapsLockDecides, ByCapsLock, SettledFlag, RecentIsAlone,
                      LeavesNothingBehind, CookiesAreKept
<1> QED
  BY <1>2, <1>3, <1>4
-----------------------------------------------------------------------------
LEMMA PlacesBefore ==
    /\ SinkNames = {"focus", "thread", "function", "keys", "openclose"}
    /\ Before(6) = SinkNames
    /\ \A place \in 1 .. 6 : Before(place) \subseteq SinkNames
    /\ \A place \in 1 .. 5 : SinkOrder[place] \in SinkNames
<1>1. /\ DOMAIN SinkOrder = 1 .. 5
      /\ SinkOrder[1] = "focus" /\ SinkOrder[2] = "thread" /\ SinkOrder[3] = "function"
      /\ SinkOrder[4] = "keys" /\ SinkOrder[5] = "openclose"
  BY DEF SinkOrder
<1>2. 1 .. 5 = {1, 2, 3, 4, 5}
  OBVIOUS
<1>3. SinkNames = {"focus", "thread", "function", "keys", "openclose"}
  BY <1>1, <1>2 DEF SinkNames
<1>4. Before(6) = SinkNames
  BY <1>1 DEF SinkNames, Before
<1>5. \A place \in 1 .. 6 : Before(place) \subseteq SinkNames
  BY <1>1 DEF SinkNames, Before
<1> QED
  BY <1>1, <1>2, <1>3, <1>4, <1>5

LEMMA CountsFacts ==
    ASSUME NEW failed \in BOOLEAN, failures \in Nat, Counts(failed), cfg \in Configs, cfg' = cfg
    PROVE  /\ failures' \in 0 .. Refusals[cfg]'
           /\ failures' = 0 => failures = 0 /\ ~failed
BY RefusalsAssumption DEF Counts

\* A new service: its mode, and what of its sinks could be registered.
LEMMA ActivateKeepsInvariant ==
    ASSUME IInv, Activate
    PROVE  IInv'
<1>1. /\ TypeOK /\ cfg \in Settings /\ cfg \in Configs /\ failures \in Nat
      /\ service = "off" /\ service' = "on"
      /\ UNCHANGED <<cfg, app, key_busy, focus, active, held, caps, alone>>
  BY ModeTypes, RefusalsAssumption DEF IInv, TypeOK, Activate, NewService
<1>2. PICK place \in {1, 2, 5, 6}, missing \in SUBSET SingleSinks : Register(place, missing)
  BY DEF Activate
<1> DEFINE new == {s \in Before(place) \ missing : s \in SingleSinks => sinks[s] = 0}
<1>3. /\ sinks' = [s \in SinkNames |-> IF s \in new THEN sinks[s] + 1 ELSE sinks[s]]
      /\ cookies' = (cookies \cup new) \ SingleSinks
      /\ Counts(place # 6 \/ missing # {})
  BY <1>2 DEF Register
<1>4. new \subseteq SinkNames
  BY PlacesBefore
<1>5. /\ failures' \in 0 .. Refusals[cfg]'
      /\ failures' = 0 => failures = 0 /\ place = 6 /\ missing = {}
  BY <1>1, <1>3, CountsFacts
<1>6. sinks' \in [SinkNames -> 0 .. MaxSinks]
  <2>1. \A s \in SinkNames : sinks[s] \in 0 .. 1
    BY <1>1 DEF TypeOK, Activate, MaxSinks
  <2> QED
    BY <1>3, <2>1 DEF MaxSinks
<1>7. cookies' \subseteq SinkNames \ SingleSinks
  BY <1>1, <1>3, <1>4 DEF TypeOK
<1>8. PICK default \in {"Chinese", "English"} :
         \/ /\ lang_mode' = SyncLangMode([lang |-> default, disabled |-> FALSE])
            /\ pending' = TRUE /\ unseen' = FALSE
         \/ lang_mode' = [lang |-> default, disabled |-> FALSE] /\ pending' = FALSE /\ unseen' = TRUE
  BY DEF Activate, NewService
<1>9. /\ lang_mode' \in LangModes /\ pending' \in BOOLEAN /\ unseen' \in BOOLEAN
      /\ ~unseen' => Synced(lang_mode')
  <2>1. [lang |-> default, disabled |-> FALSE] \in LangModes
    BY DEF LangModes
  <2> QED
    BY <1>1, <1>8, <2>1, SyncLangModeFacts
<1>10. openclose' = TRUE /\ shift_key_state' = "Up" /\ recent' = FALSE /\ has_focus' = TRUE
       /\ unsettled' = TRUE
  BY DEF Activate, NewService
<1>11. TypeOK'
  BY <1>1, <1>5, <1>6, <1>7, <1>9, <1>10 DEF TypeOK
<1>12. CapsLockDecides'
  BY <1>1, <1>9 DEF CapsLockDecides, Synced, ByCapsLock
<1>13. SettledFlag' /\ RecentIsAlone'
  BY <1>10 DEF SettledFlag, RecentIsAlone
<1>14. ASSUME failures' = 0
       PROVE  cookies' = SinkNames \ SingleSinks /\ \A s \in SinkNames : sinks'[s] = 1
  <2>1. \A s \in SinkNames : sinks[s] = 0
    BY <1>1, <1>5, <1>14 DEF IInv, LeavesNothingBehind
  <2>2. new = SinkNames
    BY <1>5, <1>14, <2>1, PlacesBefore
  <2>3. cookies \subseteq SinkNames
    BY <1>1 DEF TypeOK
  <2> QED
    BY <1>3, <2>1, <2>2, <2>3
<1>15. \A s \in cookies' : sinks'[s] > 0
  <2>1. \A s \in cookies : sinks[s] > 0
    BY DEF IInv, CookiesAreKept
  <2>2. cookies \subseteq SinkNames /\ \A s \in SinkNames : sinks[s] \in Nat
    BY <1>1 DEF TypeOK, MaxSinks
  <2> QED
    BY <1>3, <1>4, <2>1, <2>2
<1>16. LeavesNothingBehind' /\ CookiesAreKept'
  BY <1>1, <1>14, <1>15 DEF LeavesNothingBehind, CookiesAreKept
<1> QED
  BY <1>11, <1>12, <1>13, <1>16 DEF IInv

LEMMA ActivatePanicsKeepsInvariant ==
    ASSUME IInv, ActivatePanics
    PROVE  IInv'
<1>1. /\ TypeOK /\ service = "off" /\ sinks["openclose"] > 0 /\ service' = "crashed"
      /\ openclose' = TRUE
      /\ UNCHANGED <<cfg, app, sinks, cookies, failures, lang_mode, pending, unsettled, shiftVars,
                     focusVars, keyboardVars>>
  BY DEF IInv, ActivatePanics
<1>2. failures # 0
  <2>1. "openclose" \in SinkNames
    BY PlacesBefore
  <2> QED
    BY <1>1, <2>1 DEF IInv, LeavesNothingBehind
<1>3. TypeOK'
  BY <1>1 DEF TypeOK
<1> QED
  BY <1>1, <1>2, <1>3 DEF IInv, CapsLockDecides, ByCapsLock, SettledFlag, RecentIsAlone,
                         LeavesNothingBehind, CookiesAreKept

LEMMA DeactivateKeepsInvariant ==
    ASSUME IInv, Deactivate
    PROVE  IInv'
<1>1. /\ TypeOK /\ cfg \in Configs /\ failures \in Nat
      /\ service = "on" /\ service' = "off"
      /\ lang_mode' = NewMode /\ pending' = FALSE /\ shift_key_state' = "Up" /\ recent' = FALSE
      /\ has_focus' = TRUE /\ unsettled' = TRUE /\ unseen' = TRUE
      /\ UNCHANGED <<cfg, app, openclose, key_busy, focus, active, held, caps, alone>>
  BY RefusalsAssumption DEF IInv, TypeOK, Deactivate
<1>2. PICK place \in 1 .. 6 : Remove(place)
  BY DEF Deactivate
<1> DEFINE gone == {s \in Before(place) : Removable(s)}
<1>3. /\ \A s \in Before(place) \ ThreadSinks : Removable(s)
      /\ sinks' = [s \in SinkNames |-> IF s \in gone THEN sinks[s] - 1 ELSE sinks[s]]
      /\ cookies' = cookies \ (gone \cup ThreadSinks)
      /\ Counts(place # 6 /\ Removable(SinkOrder[place]))
  BY <1>2 DEF Remove
<1>4. /\ failures' \in 0 .. Refusals[cfg]'
      /\ failures' = 0 => failures = 0 /\ ~(place # 6 /\ Removable(SinkOrder[place]))
  BY <1>1, <1>3, CountsFacts
<1>5. \A s \in gone : sinks[s] > 0
  BY DEF Removable, IInv, CookiesAreKept
<1>6. sinks' \in [SinkNames -> 0 .. MaxSinks]
  BY <1>1, <1>3, <1>5 DEF TypeOK, MaxSinks
<1>7. TypeOK'
  BY <1>1, <1>3, <1>4, <1>6 DEF TypeOK, NewMode, LangModes
<1>8. ASSUME failures' = 0 PROVE \A s \in SinkNames : sinks'[s] = 0
  <2>1. \A s \in SinkNames : sinks[s] = 1 /\ Removable(s)
    BY <1>1, <1>4, <1>8 DEF IInv, LeavesNothingBehind, CookiesAreKept, Removable
  <2>2. place = 6
    BY <1>4, <1>8, <2>1, PlacesBefore
  <2> QED
    BY <1>3, <2>1, <2>2, PlacesBefore
<1>9. \A s \in cookies' : sinks'[s] > 0
  <2>1. \A s \in cookies' : s \in cookies /\ s \in SinkNames /\ s \notin gone
    BY <1>1, <1>3 DEF TypeOK
  <2> QED
    BY <1>3, <2>1 DEF IInv, CookiesAreKept
<1> QED
  BY <1>1, <1>7, <1>8, <1>9 DEF IInv, CapsLockDecides, SettledFlag, RecentIsAlone,
                                LeavesNothingBehind, CookiesAreKept

LEMMA StepKeepsInvariant == IInv /\ [Next]_vars => IInv'
<1> SUFFICES ASSUME IInv, [Next]_vars
             PROVE  IInv'
  OBVIOUS
<1>1. CASE Next
  BY <1>1, KeyDownKeepsInvariant, KeyUpKeepsInvariant, HandlerKeepsInvariant,
     CompartmentKeepsInvariant, ElsewhereKeepsInvariant, ActivateKeepsInvariant,
     ActivatePanicsKeepsInvariant, DeactivateKeepsInvariant DEF Next
<1>2. CASE UNCHANGED vars
  BY <1>2 DEF IInv, TypeOK, CapsLockDecides, ByCapsLock, SettledFlag, RecentIsAlone,
              LeavesNothingBehind, CookiesAreKept
<1> QED
  BY <1>1, <1>2

\* The inductive invariant.
THEOREM Invariance == Spec => []IInv
BY InitInvariant, StepKeepsInvariant, PTL DEF Spec

\* Every variable has its type.
THEOREM TypeCorrect == Spec => []TypeOK
<1>1. IInv => TypeOK
  BY DEF IInv
<1> QED
  BY <1>1, Invariance, PTL

\* With the lock enabled the CapsLock light decides the mode of an open input method,
\* whatever happened while it was closed or in the background (sync_lang_mode).
THEOREM LockIsObeyed == Spec => []CapsLockDecides
<1>1. IInv => CapsLockDecides
  BY DEF IInv
<1> QED
  BY <1>1, Invariance, PTL

\* Where TSF has refused nothing a service that is on has every sink once, one that is
\* off has none, and no activation panics (Activate, Deactivate).
THEOREM NothingIsLeft == Spec => []LeavesNothingBehind
<1>1. IInv => LeavesNothingBehind
  BY DEF IInv
<1> QED
  BY <1>1, Invariance, PTL
-----------------------------------------------------------------------------
\* Shift changes the language only when it was tapped alone and for a short time
\* (on_keyup).
THEOREM OnlyTapsToggle == Spec => OnlyATapToggles
<1>1. ASSUME IInv, Next, Released("shift"), HearsOnce, Hears, lang_mode'.lang # lang_mode.lang
      PROVE  alone /\ recent
  <2>1. PICK k \in Keys : KeyUp(k) /\ k = "shift"
    <3>1. UNCHANGED lang_mode \/ ~(Released("shift")) \/ ~Hears
             \/ \E k \in Keys : KeyUp(k) /\ k = "shift"
      BY <1>1 DEF Next, KeyDown, KeyUp, KeysElsewhere, ShiftIsHeld, OnCommand, OnCompartmentChange,
                  OnSetFocus, OnKillThreadFocus, OnSetThreadFocus, Activate, ActivatePanics,
                  Deactivate, Released
    <3> QED
      BY <1>1, <3>1
  <2>2. cfg' = cfg /\ caps' = caps /\ TypeOK /\ lang_mode \in LangModes /\ pending \in BOOLEAN
    BY <1>1, <2>1 DEF KeyUp, IInv, TypeOK
  <2>3. OnKeyUp(k)
    <3>1. EndHandler(lang_mode, pending) => lang_mode' = lang_mode
      BY <1>1, <2>2, EndOfHandler
    <3> QED
      BY <1>1, <2>1, <3>1 DEF KeyUp, OnTestKeyUp
  <2>4. Tapped(k)
    BY <1>1, <2>1, <2>2, <2>3, OnKeyUpFacts
  <2> QED
    BY <1>1, <2>4 DEF Tapped, IInv, RecentIsAlone, Released
<1>2. IInv /\ [Next]_vars =>
         [Released("shift") /\ HearsOnce /\ Hears /\ lang_mode'.lang # lang_mode.lang
            => alone /\ recent]_vars
  BY <1>1
<1> QED
  BY <1>2, Invariance, PTL DEF Spec, OnlyATapToggles

\* A closed input method ignores the keys of an application that asks first
\* (on_test_keydown, on_test_keyup).
THEOREM ClosedIsDeaf == Spec => ClosedIgnoresKeys
<1>1. ASSUME IInv, Next, lang_mode.disabled, held' # held, app = "asks", HearsOnce
      PROVE  UNCHANGED lang_mode
  <2>1. CASE \E k \in Keys : KeyUp(k)
    <3>1. EndHandler(lang_mode, pending) /\ UNCHANGED <<cfg, caps>>
      BY <1>1, <2>1 DEF KeyUp, OnTestKeyUp
    <3>2. TypeOK /\ lang_mode \in LangModes /\ pending \in BOOLEAN
      BY <1>1 DEF IInv, TypeOK
    <3> QED
      BY <1>1, <3>1, <3>2, EndOfHandler
  <2>2. CASE ~\E k \in Keys : KeyUp(k)
    BY <1>1, <2>2 DEF Next, KeyDown, KeysElsewhere, ShiftIsHeld, OnCommand, OnCompartmentChange,
         OnSetFocus, OnKillThreadFocus, OnSetThreadFocus, Activate, ActivatePanics, Deactivate
  <2> QED
    BY <2>1, <2>2
<1>2. IInv /\ [Next]_vars =>
         [lang_mode.disabled /\ held' # held /\ app = "asks" /\ HearsOnce => UNCHANGED lang_mode]_vars
  BY <1>1
<1> QED
  BY <1>2, Invariance, PTL DEF Spec, ClosedIgnoresKeys

\* A Ctrl+Space is missed only before the first handler has ended since the
\* activation, or since one has failed (on_compartment_change).
THEOREM SettledFollows == Spec => MissedOnlyWhenUnsettled
<1>1. ASSUME IInv, Next, ~cfg.sync_lang_mode_openclose, CompartmentChanged, has_focus,
             ~unsettled
      PROVE  lang_mode'.disabled # lang_mode.disabled
  <2>1. /\ TypeOK /\ cfg \in Settings /\ lang_mode \in LangModes /\ pending = FALSE
        /\ HearsOnce /\ service' = "on" /\ openclose' # openclose
    <3>1. TypeOK /\ SettledFlag
      BY <1>1 DEF IInv
    <3>2. HearsOnce /\ service' = "on" /\ openclose' # openclose
      BY <1>1 DEF CompartmentChanged
    <3>3. lang_mode \in LangModes /\ pending \in BOOLEAN
      BY <3>1 DEF TypeOK
    <3>4. ~pending
      BY <1>1, <3>1, Zenon DEF SettledFlag
    <3> QED
      BY <3>1, <3>2, <3>3, <3>4, ModeTypes
  <2>2. CASE OnCompartmentChange
    <3>1. On("openclose")
      BY <2>1 DEF On, HearsOnce
    <3>2. lang_mode' = Heard(lang_mode, pending)
      BY <2>2, <3>1, Zenon DEF OnCompartmentChange
    <3>3. lang_mode' = Followed(lang_mode) /\ Followed(lang_mode).disabled = ~lang_mode.disabled
      BY <1>1, <2>1, <3>2, HeardFacts, FollowedFacts
    <3> QED
      BY <2>1, <3>3 DEF LangModes
  <2>3. CASE ~OnCompartmentChange
    <3>1. openclose' = openclose
      BY <1>1, <2>1, <2>3 DEF Next, KeyDown, KeyUp, OnKeyUp, OnTestKeyUp, KeysElsewhere, ShiftIsHeld,
           OnCommand, OnSetFocus, OnKillThreadFocus, OnSetThreadFocus, EndHandler,
           FailHandler, SyncKeyboardOpenclose, Activate, ActivatePanics, Deactivate, HearsOnce
    <3> QED
      BY <2>1, <3>1
  <2> QED
    BY <2>2, <2>3
<1>2. IInv /\ [Next]_vars =>
         [ ~cfg.sync_lang_mode_openclose /\ CompartmentChanged /\ has_focus /\ ~unsettled
           => lang_mode'.disabled # lang_mode.disabled ]_vars
  BY <1>1
<1> QED
  BY <1>2, Invariance, PTL DEF Spec, MissedOnlyWhenUnsettled
=============================================================================
