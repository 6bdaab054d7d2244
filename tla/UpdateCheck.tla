---------------------------- MODULE UpdateCheck ----------------------------
(***************************************************************************)
(* The check for updates.  A text service that comes up reads when the     *)
(* last check was and asks the host for another one (tip's chewing.rs,     *)
(* ChewingTextService::new); a thread of the host makes it (host's         *)
(* update.rs) and leaves in the registry where the update is.  Checks may  *)
(* run at the same time, and nothing tells one of another.                 *)
(***************************************************************************)
EXTENDS Naturals, Sequences

CONSTANTS
    Clients,        \* text services that come up; the thread a check runs on
    Urls,           \* where releases are described
    Absent,         \* what a registry value is before it is written
    Junk,           \* a part of a version that is no number
    ReleaseLists,   \* the documents that may be published
    Installable,    \* the versions of the input method that may be installed
    MaxClock        \* bound: hours

Parts == Nat \cup {Junk}
Channels == {"stable", "development", "none"}
Releases == [version : Seq(Parts), channel : Channels, url : Urls \cup {Absent}]
Versions == [1 .. 4 -> Nat]

ASSUME AbsentAssumption == Absent \notin Urls /\ Absent \notin Nat /\ Absent \notin Channels
ASSUME JunkAssumption == Junk \notin Nat
ASSUME ReleasesAssumption == ReleaseLists \subseteq Seq(Releases)
ASSUME InstallableAssumption == Installable \subseteq Versions
ASSUME MaxClockAssumption == MaxClock \in Nat

VARIABLES
    channel,    \* registry: AutoCheckUpdateChannel
    url,        \* registry: UpdateInfoUrl
    last,       \* registry: LastUpdateCheckTime
    clock,      \* the time, in hours
    dll,        \* the version of chewing_tip.dll that is installed
    published,  \* the releases that can be downloaded
    check,      \* the check of each client: [pc, channel, last, version, found, clean]
    checked     \* history: the last time that was stored is that of a check nothing
                \* disturbed, and nothing has happened to its result

checkVars == <<channel, url, last, clock, dll, published, check, checked>>
-----------------------------------------------------------------------------
Unreadable == <<0, 0, 0, 0>>

\* parse_version: what is missing or no number is 0.
ParseVersion(version) ==
    [i \in 1 .. 4 |-> IF i \in DOMAIN version /\ version[i] # Junk THEN version[i] ELSE 0]

\* version_gt
VersionGt(a, b) == \E i \in 1 .. 4 : a[i] > b[i] /\ \A j \in 1 .. i - 1 : a[j] = b[j]

\* chewing_dll_channel
ChannelOf(version) == IF version[4] = 0 THEN "stable" ELSE "development"

Found(releases, ch, version) ==
    {i \in DOMAIN releases : releases[i].channel = ch
                             /\ VersionGt(ParseVersion(releases[i].version), version)}

\* Documents are written newest first, each channel's releases at least.
ASSUME NewestFirstAssumption ==
    \A releases \in ReleaseLists : \A i, j \in DOMAIN releases :
        i < j /\ releases[i].channel = releases[j].channel
            => VersionGt(ParseVersion(releases[i].version), ParseVersion(releases[j].version))

FirstFound_Last(releases, ch, version) ==
    LET found == Found(releases, ch, version)
    IN IF found = {} THEN Absent
       ELSE releases[CHOOSE i \in found : \A j \in found : j <= i].url

\* The loop of check_for_update: the first release of the document that will do.
FirstFound(releases, ch, version) ==
    LET found == Found(releases, ch, version)
    IN IF found = {} THEN Absent
       ELSE releases[CHOOSE i \in found : \A j \in found : i <= j].url
-----------------------------------------------------------------------------
CheckStates == {"idle", "loaded", "asked", "cleared", "derived", "enabled", "versioned",
                "failed", "fetched", "stored"}
NoCheck == [pc |-> "idle", channel |-> Absent, last |-> 0, version |-> Unreadable,
            found |-> Absent, clean |-> FALSE]

CheckInit ==
    /\ channel \in Channels \cup {Absent}
    /\ url \in Urls \cup {Absent}
    /\ last \in Nat \cup {Absent}
    /\ clock \in 0 .. MaxClock
    /\ dll \in Installable
    /\ published \in ReleaseLists
    /\ check = [c \in Clients |-> NoCheck]
    /\ checked = FALSE

At(c, place) == check[c].pc = place
Goto(c, place) == check' = [check EXCEPT ![c].pc = place]
Ended(c) == check' = [check EXCEPT ![c] = NoCheck]

\* The checks it does not disturb are those that have not begun.
DisturbsChecks ==
    /\ check' = [c \in Clients |-> [check[c] EXCEPT !.clean = check[c].clean /\ At(c, "loaded")]]
    /\ checked' = FALSE
-----------------------------------------------------------------------------
(***************************************************************************)
(* The text service.                                                       *)
(***************************************************************************)

\* new loads the configuration: values that are absent have their defaults.
Activate(c) ==
    /\ At(c, "idle")
    /\ check' = [check EXCEPT ![c] =
          [NoCheck EXCEPT !.pc = "loaded", !.clean = TRUE,
                          !.channel = IF channel = Absent THEN "stable" ELSE channel,
                          !.last = IF last = Absent THEN 0 ELSE last]]
    /\ UNCHANGED <<channel, url, last, clock, dll, published, checked>>

MoreThanAnHour(t, u) == t > u + 1 \/ u > t + 1

\* Neither the call nor the host need be there: errors are logged.
AskUpdate(c) ==
    /\ At(c, "loaded")
    /\ \/ /\ check[c].channel # "none" /\ MoreThanAnHour(clock, check[c].last)
          /\ Goto(c, "asked")
       \/ Ended(c)
    /\ UNCHANGED <<channel, url, last, clock, dll, published, checked>>
-----------------------------------------------------------------------------
(***************************************************************************)
(* The host: check_for_update.                                             *)
(***************************************************************************)

\* "Always clear update URL before a new check"
ClearUrl(c) ==
    /\ At(c, "asked")
    /\ url' = Absent
    /\ Goto(c, "cleared")
    /\ UNCHANGED <<channel, last, clock, dll, published, checked>>

\* get_check_update_config, where there is a channel.
ReadChannel(c) ==
    /\ At(c, "cleared") /\ channel # Absent
    /\ IF channel = "none" THEN Ended(c)
       ELSE check' = [check EXCEPT ![c].pc = "enabled", ![c].channel = channel]
    /\ UNCHANGED <<channel, url, last, clock, dll, published, checked>>

\* Where there is none: the channel of the input method, whose file may be out of reach.
DeriveChannel(c) ==
    /\ At(c, "cleared") /\ channel = Absent
    /\ \E version \in {dll, Unreadable} :
          check' = [check EXCEPT ![c].pc = "derived", ![c].channel = ChannelOf(version)]
    /\ UNCHANGED <<channel, url, last, clock, dll, published, checked>>

BeforeChannel(d) == check[d].pc \in {"idle", "loaded", "asked", "cleared", "derived"}

\* It is written over what was stored meanwhile, which disturbs the checks that have
\* read that.  If it cannot be written, the check goes on with it all the same.
StoreChannel(c) ==
    /\ At(c, "derived")
    /\ \/ /\ channel' = check[c].channel
          /\ check' = [d \in Clients |->
                IF d = c THEN [check[c] EXCEPT !.pc = "enabled"]
                ELSE [check[d] EXCEPT !.clean = @ /\ (channel' = channel \/ BeforeChannel(d))]]
          /\ checked' = (checked /\ channel' = channel)
       \/ /\ check' = [check EXCEPT ![c].pc = "enabled", ![c].clean = FALSE]
          /\ UNCHANGED <<channel, checked>>
    /\ UNCHANGED <<url, last, clock, dll, published>>

\* What a check that ran meanwhile has stored is lost.
GivesUp(c) ==
    /\ check' = [d \in Clients |-> IF d = c THEN NoCheck
                                   ELSE [check[d] EXCEPT !.clean = @ /\ ~At(d, "stored")]]
    /\ checked' = FALSE
    /\ UNCHANGED <<channel, last, clock, dll, published>>

ReadChannelFails(c) ==
    /\ At(c, "cleared")
    /\ GivesUp(c)
    /\ UNCHANGED url

\* chewing_dll_version, of a file that may be out of reach.
ReadVersion(c) ==
    /\ At(c, "enabled")
    /\ \/ check' = [check EXCEPT ![c].pc = "versioned", ![c].version = dll]
       \/ check' = [check EXCEPT ![c].pc = "versioned", ![c].version = Unreadable,
                                 ![c].clean = FALSE]
    /\ UNCHANGED <<channel, url, last, clock, dll, published, checked>>

\* fetch_releases, and the search.
FetchReleases(c) ==
    /\ At(c, "versioned")
    /\ check' = [check EXCEPT ![c].pc = "fetched",
                    ![c].found = FirstFound(published, check[c].channel, check[c].version)]
    /\ UNCHANGED <<channel, url, last, clock, dll, published, checked>>

FetchFails(c) ==
    /\ At(c, "versioned")
    /\ Goto(c, "failed")
    /\ UNCHANGED <<channel, url, last, clock, dll, published, checked>>

\* The time is not stored, and the next activation asks again.
ClearAfterFailure(c) ==
    /\ At(c, "failed")
    /\ url' = Absent
    /\ GivesUp(c)

\* What a check disturbed while it ran stores is wrong for the others, too.
StoreUrl(c) ==
    /\ At(c, "fetched")
    /\ url' = check[c].found
    /\ check' = [d \in Clients |->
          IF d = c THEN [check[c] EXCEPT !.pc = "stored"]
          ELSE [check[d] EXCEPT !.clean = @ /\ (check[c].clean \/ ~At(d, "stored"))]]
    /\ UNCHANGED <<channel, last, clock, dll, published, checked>>

\* set_last_update_check_time
StoreTime(c) ==
    /\ At(c, "stored")
    /\ last' = clock
    /\ Ended(c)
    /\ checked' = check[c].clean
    /\ UNCHANGED <<channel, url, clock, dll, published>>

CheckStep(c) ==
    \/ Activate(c) \/ AskUpdate(c)
    \/ ClearUrl(c)
    \/ ReadChannel(c) \/ DeriveChannel(c) \/ StoreChannel(c) \/ ReadChannelFails(c)
    \/ ReadVersion(c)
    \/ FetchReleases(c) \/ FetchFails(c) \/ ClearAfterFailure(c)
    \/ StoreUrl(c) \/ StoreTime(c)
-----------------------------------------------------------------------------
(***************************************************************************)
(* What happens meanwhile.                                                 *)
(***************************************************************************)

\* The user chooses a channel (save_reg).
SetChannel(ch) ==
    /\ channel' = ch
    /\ IF ch = channel THEN UNCHANGED <<check, checked>> ELSE DisturbsChecks
    /\ UNCHANGED <<url, last, clock, dll, published>>

Publish ==
    /\ published' \in ReleaseLists \ {published}
    /\ DisturbsChecks
    /\ UNCHANGED <<channel, url, last, clock, dll>>

\* Another version is installed.  The installer stops the host first, but a key may
\* start it again.
Install ==
    /\ dll' \in Installable \ {dll}
    /\ DisturbsChecks
    /\ UNCHANGED <<channel, url, last, clock, published>>

\* The host ends, and its threads with it.
HostStops ==
    /\ \E c \in Clients : ~At(c, "idle") /\ ~At(c, "loaded")
    /\ check' = [c \in Clients |-> IF At(c, "loaded") THEN check[c] ELSE NoCheck]
    /\ checked' = (checked /\ \A c \in Clients : check[c].pc \in {"idle", "loaded", "asked"})
    /\ UNCHANGED <<channel, url, last, clock, dll, published>>

\* Time passes, or the clock is set.
ClockChanges ==
    /\ clock' \in 0 .. MaxClock
    /\ clock' # clock
    /\ UNCHANGED <<channel, url, last, dll, published, check, checked>>

CheckNext ==
    \/ \E c \in Clients : CheckStep(c)
    \/ \E ch \in Channels : SetChannel(ch)
    \/ Publish \/ Install \/ HostStops \/ ClockChanges

CheckSpec == CheckInit /\ [][CheckNext]_checkVars
-----------------------------------------------------------------------------
(***************************************************************************)
(* Properties.                                                             *)
(***************************************************************************)

\* Every variable of the check has its type.
CheckTypeOK ==
    /\ channel \in Channels \cup {Absent}
    /\ url \in Urls \cup {Absent}
    /\ last \in Nat \cup {Absent}
    /\ clock \in 0 .. MaxClock
    /\ dll \in Installable
    /\ published \in ReleaseLists
    /\ check \in [Clients -> [pc : CheckStates, channel : Channels \cup {Absent}, last : Nat,
                              version : Versions, found : Urls \cup {Absent}, clean : BOOLEAN]]
    /\ checked \in BOOLEAN

\* The newest of the newer releases of a channel: the url, or Absent.
Newest(releases, ch, version) ==
    LET newer == {i \in DOMAIN releases :
                     releases[i].channel = ch
                     /\ VersionGt(ParseVersion(releases[i].version), version)}
        newest == CHOOSE i \in newer :
                     \A j \in newer : ~VersionGt(ParseVersion(releases[j].version),
                                                 ParseVersion(releases[i].version))
    IN IF newer = {} THEN Absent ELSE releases[newest].url

\* The registry names the newest release after a check, however many checks ran at
\* the same time (check_for_update): unless one of them failed or was cut off, or
\* what they compare was changed while they ran.
CheckedIsRight ==
    checked /\ (\A c \in Clients : check[c].pc \in {"idle", "loaded", "asked"})
        => url = Newest(published, channel, dll)
=============================================================================
