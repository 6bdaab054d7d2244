# windows-chewing-tsf in TLA+

Models, model-checking runs and machine-checked proofs of
[windows-chewing-tsf](https://codeberg.org/chewing/windows-chewing-tsf), the
Chewing input method for Windows. The system has two parts:

- the **tip** (`tip/`), a COM server that the Text Services Framework (TSF) loads
  into every application. It gives keys to the conversion editor (libchewing) and
  writes what the editor answers into the document;
- **chewing_tip_host** (`crates/chewing_tip_host/`), one process per user, that
  draws the candidate list and the notifications and looks for updates. The tip
  talks to it over a named pipe.

Everything is translated from the code under `src/`; libchewing, TSF and Windows
are external, and are modelled by what the code may see of them. Line numbers below
are of the files named with them; `PROJECT.json` maps every definition to its lines.

Contents: 1. inventory, 2. modules, 3. runs, 4. fairness, 5. proofs, 6. where the
code and its documents disagree, 7. what is not modelled, 8. plan.

## 1. Inventory

| Component | State | Operations | Talks to | What makes it hard |
|---|---|---|---|---|
| TextService, `text_service/mod.rs` | `inner` (RefCell of the service), `key_busy`, `composition_terminated`, cookies | COM entry points: Activate, Deactivate, OnSetFocus, OnTestKeyDown/Up, OnKeyDown/Up, OnCompositionTerminated, OnChange, on_command | called by TSF, also *inside* its own calls to TSF | reentrancy: a callback finds the service borrowed and is deferred by a flag; early returns skip the deferred work |
| ChewingTextService, `chewing.rs`: composition | `composition` (a shared cell), `pending_edit` (a weak reference), `candidate_list`, `chewing_editor` | on_keydown, update_preedit, set_composition_string, end_composition, insert_text, on_composition_terminated, on_compartment_change, on_kill_focus, toggle_lang_mode | requests edit sessions from TSF | sessions run later, in order, while keys, focus and the application go on |
| Edit sessions, `edit_session.rs` | the cell, the pending text | DoEditSession of SetCompositionString, EndComposition, InsertText, SelectionRect | run by TSF, write to the document | three owners of one composition |
| Preedit, `chewing.rs:1040-1098` | none (computed for each key) | update_preedit | editor intervals | positions: text, cursor, bopomofo and segments must agree |
| Language mode, `chewing.rs`, `mod.rs` | `lang_mode`, `pending_lang_mode_change`, `shift_key_state`, `has_focus`, `key_busy` | on_test_keydown, on_keyup, on_command, on_compartment_change, sync_lang_mode, sync_keyboard_openclose | keyboard, CapsLock, OPENCLOSE compartment, menu | four sources for one mode; a flag that tells own changes from others'; partial views of the keyboard |
| Configuration, `config.rs`, `chewing.rs:1445-1558` | registry values, editor options | from_reg, save_reg, reload_if_needed, apply_init_config, apply_runtime_config, toggles | registry, written by the preferences (a program outside this repository that calls save_reg) and by the host | no lock and no notification: values are read while others are written, and whatever differs replaces the editor in the middle of a composition |
| Candidate list (tip), `ui_elements/candidate_list.rs` | model, current_sel, uiless | filter_key_event, set_model, show, hide | host, TSF UI elements | cursor against a page that changes |
| IPC client, `ipc/client.rs`, `named_pipe.rs`, `shell.rs` | the pipe | connect, ping, send, launch_tip_host | host | blocking calls on every key; host restarts |
| Host: connections, `ipc.rs` | one thread and TipSession per pipe | ipc_loop | clients, main thread | many clients |
| Host: main thread, `ui/event_loop.rs` | channel (130), windows | send, run, command_loop | connection threads, Windows messages | a channel and a message queue that must stay in step |
| Host: windows, `ui_elements/` | model, view, timer | show, hide, set_timer | Windows | |
| Update check, `update.rs`, `update/`, `chewing.rs:315-335` | registry: URL, time of last check | check_for_update, version_gt | network, registry | several applications at once; failures in the middle |
| Keybindings, key events, `keybind.rs` | none (tables) | parse and show a binding, match; on_test_keydown in the tip and its copy in the host | registry | texts split at separators that they may contain; two copies of one decision |
| Host: text service session, `text_service/chewing.rs` | mode, settings, composing | on_test_keydown | clients | its answer is not used yet, and nothing tells it of changes |
| Activation, `mod.rs:159-275` | sinks, cookies, `inner` | Activate, Deactivate | TSF | five registrations that may fail one by one; callbacks that come while the service is borrowed |
| Language bar (its icon and commands are in `Settings`), menus, display attributes, theme, COM server, IMM32 patch, quirks, logging, tsfreg, xtask, installer | | | | not part of the core logic |

What makes the components correct:

- composition: the characters the user types reach the document once and in order;
  compositions do not mix; what is given up ends; the document shows what the
  editor holds when everything has run;
- preedit: the text is the buffer with the bopomofo at the cursor, and the segments
  cover it;
- language mode: it changes only by a tap of Shift, the CapsLock light, a command
  or Ctrl+Space, and it follows each of them;
- link: a key never hangs; requests are served in order; none is forgotten; the
  channel never stalls the host;
- candidate list: the cursor is on an item, the list is the page the editor chooses
  from, and what is chosen is what was shown, whatever replaced the editor since;
- configuration: what is in use is the registry's once nothing is written any more,
  and all of it is in use; nothing typed is lost unless the registry was written to;
  a binding that was saved works;
- update check: the registry names the newest release after a check, however many
  checks ran at once;
- activation: a service that is off has left no sink behind;
- on_test_keydown: both copies answer alike.

## 2. Modules

| Module | Models | Extends / uses |
|---|---|---|
| `Composition` | the composition from key to document: handlers, edit sessions, TSF's queue | |
| `TextDelivery` | *abstract:* what the tip promises about committed text | |
| `MCComposition` | the refinement mapping to `TextDelivery` | `Composition` |
| `Composition_proofs` | types, session order, leaks; the text, and the refinement | `MCComposition`, `FlattenTheorems` |
| `Preedit` | the loop of update_preedit | |
| `Preedit_proofs` | the text of the composition and its segments | `Preedit`, TLAPS |
| `LangMode` | activation, language mode, Shift, CapsLock, compartment, focus | |
| `MCLangMode` | sets of settings, and where TSF refuses | `LangMode` |
| `LangMode_proofs` | types, what is left behind, and the four properties of the mode | `LangMode`, TLAPS |
| `HostLink` | clients, pipes, connection threads, channel, message loop | |
| `WindowService` | *abstract:* requests of a client take effect in order | |
| `MCHostLink` | the refinement mapping to `WindowService` | `HostLink` |
| `HostLink_proofs` | types, stranded calls, no stall, and the refinement | `MCHostLink`, `FlattenTheorems` |
| `FlattenTheorems` | what `FlattenSeq` of the community modules computes | TLAPS |
| `CandidateList` | the list, the page of the editor it shows, and the keys that choose | |
| `CandidateList_proofs` | cursor, page and choice | `CandidateList`, TLAPS |
| `UpdateCheck` | the checks for updates of several applications | |
| `UpdateCheck_proofs` | version_gt, the search, what the registry names | `UpdateCheck`, TLAPS |
| `KeyFilter` | bindings as text and as keys, and both copies of on_test_keydown (operators only) | |
| `Settings` | the registry and a text service that follows it while it is used: composes the three | `CandidateList`, `UpdateCheck`, `KeyFilter` |
| `MCSettings` | the worlds it is checked in | `Settings` |
| `Settings_proofs` | types, the two refinements, catching up, options, bindings, both copies | `Settings`, `CandidateList_proofs`, `UpdateCheck_proofs`, `FlattenTheorems` |

Definitions with a suffix (`ClearPending_KeepsEdit`) are plausible bugs of the
definition after which they are named. They are used by no specification;
`PROJECT.json` pairs each with the property that finds it.

### Composition

A character is the number of the key that made it, so that the document shows in
which order the keys were typed. The `Rc<RefCell<Option<ITfComposition>>>` that the
service shares with its edit sessions is a member of `Cells`; `cell` is the one
`self.composition` points to, `comps` has the contents of all of them: no
composition, a live one with its text, or one that the application has ended
(`"dead"`: the reference is still in the cell). `orphans` has the texts of the live
compositions that have lost their last reference: `on_composition_terminated_tail` empties
a cell without looking at what is in it (`Drop`), and the session that ends a composition
takes it out of its cell before TSF may refuse to end it (`RunEndComposition`).
`disturbed` is history: TSF has refused so, or a deferred termination has come late.
The application may end an orphan like any composition (`Endings`), and text inserted
at the caret may go into it. `queue` has the sessions TSF has
accepted; `pending` is what `pending_edit.upgrade()` finds, the place in the queue of
the session whose contents may still be replaced. A session that has run is
released, and a weak reference to its edit with it; this is why `DoEditSession`
moves `pending` down to 0.

Handlers make up to two requests; these are operators on a record `io` (cell, queue,
pending) and are composed before they are assigned, in the order of the calls in the
code. The editor is external: each kind of answer that on_keydown tells apart is an
action (`TypeBopomofo`, `PressEnter`, ...), and `OnKeyDown` is what the tip does with
it. The synchronous session that reads the selection is inside the handler; the
application may end the composition in it, the callback then finds the service
borrowed and raises `terminated`, and the tail of the handler runs
`on_composition_terminated_tail`. When the handler fails the tail does not run
(`ToggleThenMessageFails`) and the flag stays for a later one.

`TerminationFails` is a callback of TSF that returns at a failed GetRange or Clear: the
composition has ended, and editor, pending edit and cell are as if it had not.
`CommitAndEnd` (Ctrl+Space) may fail after the editor has forgotten what it committed, and
`OnKillFocus` ends nothing where the document has no context. With the event *refuse* a
call of TSF may fail in any session: a composition is not started, not drawn, drawn
without its start being moved over the commit (`HalfDrawn`), or not ended, and text is
not inserted.
`ListAfter` is what update_candidates makes of a list that cannot be created: the editor
selects, and no list keeps the composition from being started for it.

`Features` chooses which events may happen, so that each property is checked with all
the events it survives (section 3 says which it does not, and why).

### Preedit

The buffer has the characters 1..length, the bopomofo are the next ones. The
division into intervals is chosen as the loop goes: each turn ends the next interval
anywhere. `segments` and `composition_buf` are the variables of the same name.

### LangMode

Four modes are `[lang, disabled]`. `openclose` is the compartment, `caps` the light,
`held` the keys of the keyboard. Applications either ask with OnTestKeyDown/Up and
give only the keys that are wanted, or call OnKeyDown/Up at once; `app` is chosen at
the start. Handlers end with `EndHandler` (sync_keyboard_openclose has run, with the
nested OnChange that takes the flag) or `FailHandler` (an error returned before it).
`recent` abstracts the clock: the Instant in `Down(instant)` is younger than
shift_key_sensitivity. `alone`, `unsettled` and `unseen` are history variables that
only properties read.

A service is `"on"`, `"off"` or `"crashed"`. `sinks` counts how often each of the five
sinks is registered with TSF, in the order of `SinkOrder`; `cookies` has those whose
cookie the service still knows. `Activate` registers up to a place where TSF refuses,
or all of them; `Deactivate` removes up to a place where TSF refuses or where there is
nothing to remove. The sinks of key events and of the function provider are one of a
kind, so that a second registration is refused and only logged. Everything else in
the module is heard only through these sinks: a compartment sink that was left is called
inside the next `Activate`, which holds the RefCell (`ActivatePanics`), and one that
is registered twice follows each Ctrl+Space twice. That TSF may activate the object it
has deactivated is an assumption about TSF; nothing in the code forbids it. The calls
that read and write the compartments are assumed not to fail.

### HostLink

A client is what the tip does around the pipe: the ping at each key, reconnect and
relaunch, the call of on_test_keydown, and one-way requests from the handlers. A
connection thread reads a call; the requests for windows go through
`MainLoopHandle::send` in its two steps (`Post`, `Send`), between which the main thread
may take the message. A thread that has read CheckUpdate fetches the release list itself
(`Fetching`) and answers nothing else until `EndCheck`. `wakeups` counts PM_APP_COMMAND
messages. `ProcessExit` is
Stop, WM_CLOSE and the end of the session, and a crash.

### CandidateList

`ed` is the part of libchewing's editor that the list copies: whether it selects, the
candidates, the page and its size. `list` is `candidate_list`: the items, the cursor,
the rows, the selection keys it was labelled with, and whether the application draws
it itself (`uiless`), in which case the arrows go from item to item instead of by rows.
Where the editor may do several things with a key (`Proceeds`), any of its states may
follow; a page is never empty while there are candidates. A key that chooses gives the
editor a *place*: `picked` notes which candidate the editor had there and which the
list showed. `Reconfigure` is a change of the settings between two keys, with or
without a new editor. Any candidates and pages are allowed by the module; unlearning
the last candidate of the last page, which would leave libchewing at a page that is
gone, is libchewing's affair and excluded.

### UpdateCheck

One process per application, `check[c]`, follows `new` of the tip (what it read of the
registry, whether it asks) and the thread in the host that does `check_for_update`:
clear the URL, read the channel, read the version of the DLL, fetch, store the URL, store
the time. Where there is no channel it is derived from the DLL, whose file may be out of
reach, and then stored (`DeriveChannel`, `StoreChannel`), over whatever was stored in
between; that writing may fail, and the check goes on. Reading the channel or the version
and the fetch may fail; the host may stop; the user may choose another channel, a release may be
published, another version installed. `clean` and `checked` are history: a check that nothing has disturbed; a channel written over
another one disturbs those that have read that.
Versions are compared part by part with everything `parse_version` accepts (missing,
additional and unreadable parts).

### KeyFilter

Words are atoms, so that a text is a sequence of words with `"="` and `":"` among
them (`Words`, a constant of `Settings`); `Show` and `FromStr` are Display and FromStr of KeybindValue, with its split at the
last separator. `TipWants` is the tip's on_test_keydown as a condition; `HostRules` is
the host's as its list of early returns.

### Settings

`reg` is the registry as save_reg writes it. `SaveReg` and `ReadValues` go through the
values in the order of the code (`SaveOrder`, `ReadOrder`) and stop after those in
`Stops`, where another process may come. Before each key the configuration is read
again (`BeginReading` ... `UseReading`), and if it differs the editor is replaced and
its options, the bindings and the icon set (`ApplyRuntimeConfig`); if the editor cannot
be built, what has been set before stays set. `HandleKey` is on_test_keydown and
on_keydown: the keys for the list are `CandidateList`'s, the bindings and toggles
change what is `tipVars`. `CheckEvent` is a step of `UpdateCheck`, whose URL and time are
values of the same registry: this is how a background check replaces an editor.
One value stands for the switches that only on_test_keydown looks at; settings of the
looks and those that are only handed to libchewing are left out.

`CandidateList` and `UpdateCheck` are complete specifications of their own, with
`ListSpec` and `CheckSpec`; `Settings` EXTENDS them and is shown to implement both, so
that what is proved of them holds of it.

## 3. Runs

| Run | Shows | Bounds |
|---|---|---|
| `composition_core` | `InTypedOrder`: every character at most once and in the order of the keys. `Agreement`: with nothing queued the document shows the editor's preedit. `DeliversInOrder`: Composition implements TextDelivery. `GivenUpEnds` (liveness): what the service gives up ends | 3 characters, 4 waiting sessions, 5 cells; events: termination by the application, toggles, Ctrl+Space |
| `composition_all` | `TypeOK`; `SessionOrder`, seven facts on the queue and the cells; `OneInTheDocument`: until TSF refuses to end one or a deferred termination comes late, the document has one composition of ours at most, with a reference to it | 2 characters, 3 sessions, 1 composition without a reference; all events, *refuse* included |
| `lost_commit` | violation of `NoCommitLost` | section 6 |
| `toggle_bopomofo` | violation of `DroppedNotCommitted` | section 6 |
| `preedit` | `TextSoFar`, `BopomofoHasItsSegment`, `SegmentsTileAtTheEnds` | buffers up to 5, syllables up to 3, every division and cursor |
| `preedit_segments` | violation of `SegmentsTile` | section 6 |
| `langmode` | `LeavesNothingBehind`: nothing refused, nothing left. `CapsLockDecides`, `OnlyATapToggles`, `ClosedIgnoresKeys`, `MissedOnlyWhenUnsettled` | the settings of `MCConfigs`, both kinds of application; at most one call that TSF refuses, under one of the settings; at most 2 registrations of a sink |
| `ctrl_space` | violation of `CtrlSpaceToggles` | default settings |
| `focus_skipped` | violation of `FollowsFocus` | default settings |
| `hostlink` | `OnlyTheLastIsStranded`, `NoStall`, `ServesInOrder` (HostLink implements WindowService), `CallReturns` (liveness) | 2 clients, channel of 2, 3 requests (a check for updates is one) |
| `settings` | `CaughtUp`, `KeptUnlessWritten`, `FollowsConfig`, `BindingsSurvive`, `HostAgrees`; the list's `CursorOnItem`, `ListShowsThePage`, `PicksWhatIsShown`; the checks' `CheckedIsRight`; `ListSpec` and `CheckSpec` (Settings implements both) | the worlds of `MCSettings` |
| `form_forgotten` | violation of `FormSurvivesFocus` | section 6; the world `ToggledForm` |

Why the bounds are enough:

- *Composition.* The interesting cases need one composition whose end is queued, the
  next one with a session after it, and a key that reuses that session. That is four
  sessions and three characters; `HasRoom` keeps room for the two requests of a
  handler, so that a bound never cuts a handler in half. Cells are one for each queued
  session and the current one; they are reused once nothing refers to them, as an
  allocator would. `MaxText` bounds the document only where focus loss may repeat
  without typing, and `MaxOrphans` 1 stops a behaviour where a second composition would
  lose its reference: what the properties say is settled by the first one.
- *Preedit.* A segment before, at and after the cursor, each longer than one
  character, and a syllable as long as any; the theorem needs no bound.
- *HostLink.* Capacity 2 with two clients is the smallest case in which both can
  block. The real capacity is 130; `NoStall` is conditional on there being no more
  connections than places, and that is what the theorem says for every capacity.
- *LangMode.* A mode that only the refusals of TSF reach is explored under one of the
  settings (`MCRefusals`), because a refusal multiplies the states and the settings
  matter little to it; `MaxSinks` 2 is the smallest number with which a change is heard
  twice. The theorems hold for any number of refusals.
- *Settings.* The components are small but multiply, so that each *world* of
  `MCSettings` has the start, the keys, the settings that are saved and the other
  events of one question: choosing while the pages change, with failures and without;
  two checks that meet on a new installation and on an old one; a check while the
  user types; bindings that survive being written as text and some that do not; all
  64 combinations of the switches with 30 keys for the two copies of on_test_keydown;
  settings that change between two keys or while they are read. Within a world
  everything is interleaved. `Stops` are the page size and the channel, in the middle
  and towards the end of both orders, so that a reading may have a change before it, in
  it, around it, or the first half of one. `MaxClock` 2 is the first time that is
  more than an hour after 0.

Deadlock is checked in `composition_core`, `composition_all`, `langmode`, `hostlink`,
`ctrl_space` and `focus_skipped`. `preedit` ends when update_preedit has
returned; the worlds of `settings` and `form_forgotten` end when nothing is left to save, to check or to type; `lost_commit` and `toggle_bopomofo` have so few events that typing runs out.

What the properties are not checked with, or leave out:

- `InTypedOrder` is checked without `overflow`, `blur`, `fail`, `rebuild` and `refuse`. *overflow*: a
  commit may be lost (a finding) and another one be kept, which this property does not
  forbid, but DeliversInOrder does. *blur*: on_kill_focus ends the composition around its
  text and leaves the editor's buffer, which is committed once more by a later Enter;
  it needs an application that calls OnKeyUp, which this code does not ask for. *fail*: a late
  termination clears an editor that is ahead of the document. *rebuild*: a new editor
  forgets the buffer that the composition shows. The last two break `Agreement` for
  the same reason. *refuse*: what a session could not draw is drawn again by a later one or
  is lost, and what it drew without moving the start is committed with what follows.
  After *fail* or *refuse* a commit may be in no session. They are listed as hazards.
- `OneInTheDocument` and `GivenUpEnds` are limited by `disturbed` to what TSF has not
  refused to end and to terminations handled in time. Both cases do leave a composition
  without a reference, which no code can end (section 6). `GivenUpEnds` is checked in
  `composition_core`, where TSF refuses nothing.
- A list that is shown without a composition, after a rebuild, makes the next commit be
  dropped at `chewing.rs:1085`: this is why `DeliversInOrder` is checked without
  *rebuild* too.
- `LeavesNothingBehind`, `OnlyATapToggles` and the others of `LangMode` are limited to a
  TSF that has refused nothing, or to changes heard once: after a refusal, Deactivate
  leaves sinks behind, and the next activation may panic or follow each change twice.
- `FollowsConfig` excludes a text service whose editor could not be built, and says
  nothing of the form of the editor, which does not follow `default_full_space` and is
  forgotten at each thread focus (section 6).
- `BindingsSurvive` is about the bindings that can be read back: a separator behind the
  one Display writes makes another binding of it (`WellFormed`). In the key any word will
  do, `"="` too.
- `PicksWhatIsShown` excludes the same service: its list may be labelled with other
  selection keys than those it maps.
- `CheckedIsRight` excludes checks that failed or were cut off, since one that fails
  clears what another has stored, and checks during which what they compare changed, by
  another check that chose the channel or by anyone else.
- `HostAgrees` excludes the key that brings another `switch_lang_with_shift`: the tip has
  looked at the old one.
- `CapsLockDecides` excludes keys given to controls that are no documents: the tip does
  not see them and reads the light again only at the next thread focus, menu command,
  CapsLock or Ctrl+Space.

## 4. Fairness

- `Composition!FairSpec` (`composition_core`): weak fairness of `DoEditSession`. TSF has accepted the
  asynchronous sessions and runs them when the document can be locked. Nothing is assumed of the user and of the application.
- `HostLink!FairSpec`: the threads of the host run (`ThreadStep(c)`, `MainStep`), and a
  client that waits for an answer that is there, or for a pipe that is broken, returns.
  No fairness for keys, launches, starts, stops or crashes, and none for
  the release list, which is fetched without a timeout (`EndCheck`): `CallReturns` says that
  a key returns, or that the thread of its own pipe is fetching.

`LangMode`, `Preedit` and `Settings` have safety properties only.

## 5. Proofs

All of them hold for every value of the constants that satisfies the named
assumptions (`CellsAssumption`, `BoundsAssumption`, `CapacityAssumption`,
`ClientsAssumption`, `DictionaryAssumption`, `NewestFirstAssumption`, `WorldsAssumption`,
`WordsAssumption`, `AbsentTextsAssumption`, ...), which TLC evaluates in the runs.

**Composition_proofs.** `Invariance`, `TypeCorrect`, `SessionsInOrder`, `OneComposition`.
The inductive invariant is `IInv == OtherTypes /\ Good(Io, comps) /\ Explained`: `Good` states the
types of the request record and the seven conjuncts of `SessionOrder` as a predicate
of `io` and the cells, not of the variables. It has to be: a handler makes two requests,
and the state between them exists only inside the handler. So each request gets a
lemma "`Good(io, cs)` implies `Good(request(io), cs)`", and each handler is the
composition of its requests. `SessionOrder` is its own strengthening: that no two
compositions are live (`SingleComposition`) needs that sessions for others wait
for the end of the live one (`LiveIsFirst`), which needs that every cell given up has
its end in the queue (`OwnedOnce`, `GivenUpIsEnded`) and that nothing uses it
afterwards (`NothingAfterEnd`, `EndedBeforeNext`). None of it depends on sessions that succeed: one
that fails may leave a live composition with any text, or none, but never in another cell.
`Explained` says that a composition without a reference has an explanation,
`orphans # <<>> => disturbed`: where the application ends one of the cells it was the only
one live, so that clearing the current cell forgets nothing unless the callback was
deferred, and where it ends one without a reference that explanation is there already.
`OneComposition` (`OneInTheDocument`) follows.

*The text.* `OrderlyInvariance`, `EditorAgrees` (`Agreement`), `TextInTypedOrder`
(`InTypedOrder`) and `DeliveryImplemented` (`DeliversInOrder`) have the hypothesis `Orderly`:
typing, commits, termination by the application, toggles, Ctrl+Space and released keys,
for any number of keys, cells and waiting sessions. The other events break at
least one of the three properties, as TLC shows when they are added to `composition_core`;
section 3 says how. The
invariant, `IInv /\ TextInv`, has three parts besides what holds between two events
(`Settled`: no callback is deferred, there is a list exactly while the editor selects):

- `Apart`, A1 to A7, what the session order leaves open: the current composition was not
  taken by the application; a cell without a live composition has no text; the edit that
  waits can still draw and no other session draws in the current cell; an end
  carries nothing; and before text is inserted without a composition, every one that is
  live or still to be drawn is ended.
- `Shown`: what the editor shows is what the edit that waits will draw, which commits
  nothing, or else the text of the current composition, or nothing.
- `InOrder`, T1 to T6: the texts of the document, of the live composition, of what each
  session will commit and show, and of the editor follow each other in the order of
  the keys, wherever an end comes between them: a session draws its preedit again, so
  that a later session may repeat the characters of an earlier one, but not those
  that a composition has left in the document by ending.

Each request of a handler keeps the three (`ApartIo`, `ShownIo`, `InOrderIo`), and so does the
first session when TSF runs it (`RunFirst`); a handler is again the composition of its
requests. For the refinement, the text on its way (`Flow`) is what the sessions that will
run carry, one after the other: `Adds` says what a request appends to it. A key that
commits is `Commit`, a session that sets the text is `Deliver`, one that ends the composition
`Settle`, and the application `Interrupt`, where what its sessions carried is left out of
the text on its way (`SomeEmptied`). Everything else changes nothing of TextDelivery's.

**HostLink_proofs.** `Invariance`, `TypeCorrect`, `AtMostOneStranded`, `NeverStalls`. The
invariant is the types and: when the main thread waits with no message on its way, the
channel has at most one call of each client, and none of a client whose thread is
about to send. A thread posts again only after it has sent, and its next post wakes
the main thread: this is why a second call is never stranded. `NeverStalls` adds the
pigeonhole principle: a full channel of `Capacity` calls by different clients, plus one
thread about to send that has none there, needs more clients than places.
`ServiceImplemented` is `ServesInOrder`, step by step: the requests of a client are those in
the channel, the one its thread holds and those in its pipe, in this order (`Requests`). A
handler adds one at the end, the main thread takes one from the front, the thread only
moves them on, and with the host all of them are gone. `Linked` says that the pipe of a
client that is not connected is empty.

**FlattenTheorems.** What `FlattenSeq` gives for an empty sequence, when an item is appended,
taken from the front or replaced at the end, and that it keeps what is in one of the
sequences (`FlattenKeeps`). The library's induction theorems take an
operator as a parameter; `SetInduction` is induction over a set of numbers instead, and
`FlattenExists` builds with it the function that the recursive definition chooses.

**Preedit_proofs.** `TextIsComposed`: `TextSoFar` for every length, cursor and division
into intervals. The strengthening `PushedAtCursor` relates `need_push_bopomofo` to the
place of the loop: as long as it is set the loop has not passed the cursor.
`BopomofoIsSegment`, `SegmentsCover` and `TypeCorrect` rest on `SegmentsSoFar`: with the cursor at an
end the segments pushed so far cover what has been read, and the bopomofo once it is
pushed (`Covered`). `TileGrows` and `TwoParts` say that what a turn pushes continues them.

**LangMode_proofs.** `Invariance`, `TypeCorrect`, `NothingIsLeft`, `LockIsObeyed`, `OnlyTapsToggle`,
`ClosedIsDeaf`, `SettledFollows`. `CookiesAreKept` (a cookie stands for a sink, and where
nothing was refused a service that is on keeps all of them) gives `LeavesNothingBehind`. `CapsLockDecides` is inductive with the types. `SettledFlag`
(the flag is down once a handler has ended well, where the compartment is not
synchronised) gives `MissedOnlyWhenUnsettled`; `RecentIsAlone` (no other key went down
while a Shift that is held is recent) gives `OnlyATapToggles`: a Shift released in another
window leaves the state Down, so that the fact has to be limited to a Shift that is held.

**CandidateList_proofs.** `Invariance`, `TypeCorrect`, `CursorStaysOnItem`, `ListIsThePage`,
`ChoiceIsShown`, for any candidates, pages and rows. The strengthening
`LabelsAreKeys` says that the list has the selection keys of the configuration while
the editor selects and no rebuild has failed: a new editor does not select, so that
a list with old labels cannot choose. `PageType` (a page of an editor that has candidates is
not empty) keeps the cursor on an item.

**UpdateCheck_proofs.** `VersionsAreOrdered` (version_gt is a strict total order),
`FirstIsNewest` (the first release found is the newest, for a document that is sorted
newest first, which is assumed of each channel: `NewestFirstAssumption`), `ChecksInvariance`,
`ChecksTypeCorrect`, `RegistryNamesTheNewest`. The invariant says what an undisturbed check
knows at each step (`ChannelIsRead`, with
`DerivedIsKnown` for the channel that is derived and not stored yet, `VersionIsRead`, `ReleaseIsFound`), and that when
everyone has stored or is quiet the registry holds it (`StoredIsRight`,
`CheckedStaysRight`): every undisturbed check finds the same, so that the last one to
store does no harm.

**Settings_proofs.** `SettingsInvariance`: whatever is in the registry, in the part that
has been read and in use has pages and rows. From it `ListIsImplemented` and
`CheckIsImplemented`: every step of `Settings` is a step of `CandidateList` or none, and
one of `UpdateCheck` or none; `SettingsLeaveTheCursor`, `SettingsLeaveThePage` and
`SettingsLeaveTheChoice` are the list's theorems carried over, `SettingsLeaveTheCheck`
(`CheckedIsRight`) is the checks'. `OptionsFollow` needs
that no key changes the size of the pages of an editor. `ReadingsCatchUp` and
`TypedIsKept` share `CatchUpInv`: while the registry is as it was when a reading
began, the values read so far are the registry's, and while it is as it was when the
one before began, so is what is in use; the two together make a difference impossible
where nothing was written. `CopiesAnswerAlike` puts the first of the thirteen early
returns that holds beside the tip's condition.

`SettingsTypeCorrect` is `TypeOK`: the invariant `TypesInv` says what each value in the
registry may be (`IsStored`), and `LoadedType` that from_reg makes a configuration of it
(`IsValue`, value by value), for which FromStr has to give bindings for every text. That a
binding is read as it was written is `ReadAsWritten`: the last `"="` of what Display
writes is the one between key and action, and the last `":"` behind it, if any, the one
before the parameter, because the words behind them in a `WellFormed` binding are no such separators
(`Divided`). `SavedBindingsWork` (`BindingsSurvive`) puts the way of a binding together:
`SavedInv`, once keybindings are written the registry has them until the next saving
reaches them; `ReadingsCatchUp`, what is in use is what was read; `ReadAsWritten`; `OptionsFollow`; and
twice `FlattenKeeps`, what others of the list cannot be parsed does not drop this one.
`AbsentTextsAssumption` only says that a list of texts is not what stands for no value.

Only model-checked: liveness (`GivenUpEnds`, `CallReturns`), which is beyond the prover.
Every other property of a passing run is the conclusion of a theorem; `Agreement`,
`InTypedOrder` and `DeliversInOrder` with the hypothesis `Orderly`, which allows the events of the
run that checks them and released keys besides.

## 6. Where the code and its documents disagree

Each of these is a run whose property TLC finds violated; `PROJECT.json` has the
quotations.

| Run | Code | What happens |
|---|---|---|
| `lost_commit` | `chewing.rs:1146` | an edit session that waits is reused, its commit is replaced and lost |
| `toggle_bopomofo` | `chewing.rs:1086` | a toggle before the first session of a composition has run leaves the bopomofo in the document |
| `preedit_segments` | `chewing.rs:1064,1069` | the segments after bopomofo in the middle are wrong |
| `ctrl_space` | `chewing.rs:1441` | the first Ctrl+Space after the activation is ignored |
| `focus_skipped` | `mod.rs:297` | after the first handled key, focus changes are no longer followed in applications that ask first |
| `form_forgotten` | `chewing.rs:370` | full width that was toggled is gone when the window gets the focus back |

Some behaviours of the model disagree with what the code seems to intend and have no
run of their own:

- *A tail that comes late* (`mod.rs:437`, `chewing.rs:919`). mod.rs:471 says that a
  reentrant termination is handled "in the handler's tail". A handler that fails skips
  its tail (`ToggleThenMessageFails`); the tail of a later key then forgets the
  composition that is live by then and empties the editor (`TailHandler`).
  `OneInTheDocument` says that this, and a composition TSF refuses to end, are the only
  ways to lose one.
- *A lost wake-up* (`event_loop.rs:154`). The wake-up is posted before the call is in the
  channel (`Post`, `Send`); when the main thread takes it in between, the call waits for the
  next one. `OnlyTheLastIsStranded` says how much can wait.
- *The channel* (`update/config.rs:18-20`). Without a channel a check stores that of the
  DLL (`StoreChannel`): over what is saved in the preferences after it has looked, and
  "development" for a development version, where `self_update_design.md:60` says that
  "stable" is the default.
- *Full width as the default* (`chewing.rs:1528-1533`). It is set on an editor that
  apply_runtime_config then replaces, so that `default_full_space` has no effect (`Init`
  and `ApplyRuntimeConfig` of `Settings`).

## 7. Not modelled

- *Composition.* The "text" keybinding (`chewing.rs:596-602`): what becomes of its text
  depends on the `last_key_behavior` libchewing has after `commit()`, which nothing here
  determines. Sessions that RequestEditSession refuses (`edit_session.rs:31-38`): the document
  is left as by a session that fails at its turn, which is modelled (*refuse*), only
  earlier. Deactivate with a composition. Lengths in UTF-16.
- *LangMode.* Auto-repeat of keys; GetStatus of a context failing in on_test_keydown
  (`chewing.rs:426`), which then does not see that a Shift was used with another key; settings that change while it runs (`Settings` has
  them); compartment calls that fail; what TSF calls while the menu is open
  (`chewing.rs:975`).
- *HostLink.* PostThreadMessage failing (10,000 messages of a main thread that hangs); calls
  that the host cannot parse, which the tip does not make.
- *CandidateList.* libchewing at a page that is gone after the last candidate of the last
  page was unlearned; fonts, colours and positions.
- *Settings.* Registry writes that fail half way (each is ignored where it fails);
  settings of the looks; the shape icon after Shift+Space, which stays as it was
  (`icon` has only what get_lang_icon_id shows); the state of the host's session, whose
  answer no client uses and which nothing keeps up to date.
- *UpdateCheck.* Writing the URL or the time that fails (it is logged, and the check goes
  on); a channel that is in the registry and cannot be read; the XML and the request; the preferences' own display of the result.
- Left out for good: drawing and layout of the windows, the table of virtual keys
  (`key_event.rs`), wire format, access control lists, signature checks, memory patches of
  MSCTF.dll, registration, packaging, the installer, resources. They have no state
  that the properties above depend on, or are Windows' own.

## 8. Plan

Done: every module of the table in section 2, its runs and the proofs of section 5.

Next:

- Deactivate with a composition, in `Composition`, once it is known what TSF does with
  the sessions it has accepted.
