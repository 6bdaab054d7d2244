------------------------- MODULE UpdateCheck_proofs -------------------------
(***************************************************************************)
(* Proofs about the check for updates, for any number of text services     *)
(* and checks, any versions and any documents that are newest first.       *)
(***************************************************************************)
EXTENDS UpdateCheck, Integers, WellFoundedInduction, TLAPS

-----------------------------------------------------------------------------
(***************************************************************************)
(* version_gt and the search.                                              *)
(***************************************************************************)
LEMMA ParseVersionType ==
    ASSUME NEW version \in Seq(Parts)
    PROVE  ParseVersion(version) \in Versions
<1>1. ASSUME NEW i \in DOMAIN version, version[i] # Junk PROVE version[i] \in Nat
  BY <1>1 DEF Parts
<1> QED
  BY <1>1 DEF ParseVersion, Versions

\* version_gt compares part by part.
LEMMA VersionGtByParts ==
    ASSUME NEW a \in Versions, NEW b \in Versions
    PROVE  VersionGt(a, b) <=> \/ a[1] > b[1]
                               \/ a[1] = b[1] /\ a[2] > b[2]
                               \/ a[1] = b[1] /\ a[2] = b[2] /\ a[3] > b[3]
                               \/ a[1] = b[1] /\ a[2] = b[2] /\ a[3] = b[3] /\ a[4] > b[4]
<1>1. ASSUME NEW i \in 1 .. 4 PROVE a[i] \in Nat /\ b[i] \in Nat
  BY DEF Versions
<1>2. 1 .. 1 - 1 = {} /\ 1 .. 2 - 1 = {1} /\ 1 .. 3 - 1 = {1, 2} /\ 1 .. 4 - 1 = {1, 2, 3}
  OBVIOUS
<1>3. 1 .. 4 = {1, 2, 3, 4}
  OBVIOUS
<1> DEFINE Gt(i) == a[i] > b[i] /\ \A j \in 1 .. i - 1 : a[j] = b[j]
<1>4. VersionGt(a, b) <=> Gt(1) \/ Gt(2) \/ Gt(3) \/ Gt(4)
  BY <1>3, Zenon DEF VersionGt
<1> QED
  BY <1>2, <1>4

\* The order of versions is strict and total: of two releases version_gt prefers one,
\* or neither because they are the same version.
THEOREM VersionsAreOrdered ==
    ASSUME NEW a \in Versions, NEW b \in Versions, NEW c \in Versions
    PROVE  /\ ~VersionGt(a, a)
           /\ VersionGt(a, b) => ~VersionGt(b, a)
           /\ VersionGt(a, b) /\ VersionGt(b, c) => VersionGt(a, c)
           /\ VersionGt(a, b) \/ VersionGt(b, a) \/ a = b
<1>1. ASSUME NEW i \in 1 .. 4 PROVE a[i] \in Nat /\ b[i] \in Nat /\ c[i] \in Nat
  BY DEF Versions
<1>2. /\ a[1] \in Nat /\ a[2] \in Nat /\ a[3] \in Nat /\ a[4] \in Nat
      /\ b[1] \in Nat /\ b[2] \in Nat /\ b[3] \in Nat /\ b[4] \in Nat
      /\ c[1] \in Nat /\ c[2] \in Nat /\ c[3] \in Nat /\ c[4] \in Nat
  BY <1>1
<1>3. ~VersionGt(a, a) /\ (VersionGt(a, b) => ~VersionGt(b, a))
  BY <1>2, VersionGtByParts
<1>4. VersionGt(a, b) /\ VersionGt(b, c) => VersionGt(a, c)
  BY <1>2, VersionGtByParts
<1>5. ASSUME ~VersionGt(a, b), ~VersionGt(b, a) PROVE a = b
  <2>1. a[1] = b[1] /\ a[2] = b[2] /\ a[3] = b[3] /\ a[4] = b[4]
    BY <1>2, <1>5, VersionGtByParts
  <2>2. \A i \in 1 .. 4 : a[i] = b[i]
    <3>1. 1 .. 4 = {1, 2, 3, 4}
      OBVIOUS
    <3> QED
      BY <2>1, <3>1
  <2> QED
    BY <2>2 DEF Versions
<1> QED
  BY <1>3, <1>4, <1>5

LEMMA LeastOf ==
    ASSUME NEW S \in SUBSET Nat, S # {}
    PROVE  \E x \in S : \A y \in S : x <= y
<1> DEFINE R == {ss \in Nat \X Nat : ss[1] < ss[2]}
<1>1. IsWellFoundedOn(R, Nat)
  BY NatLessThanWellFounded DEF OpToRel
<1>2. PICK x \in S : \A y \in S : ~(<<y, x>> \in R)
  BY <1>1, WFMin
<1>3. ASSUME NEW y \in S PROVE x <= y
  <2>1. ~(<<y, x>> \in R) /\ x \in Nat /\ y \in Nat
    BY <1>2
  <2> QED
    BY <2>1
<1> QED
  BY <1>3

\* In a document that is newest first the first release found is the newest.
THEOREM FirstIsNewest ==
    ASSUME NEW releases \in ReleaseLists, NEW ch, NEW version \in Versions
    PROVE  FirstFound(releases, ch, version) = Newest(releases, ch, version)
<1> DEFINE found == Found(releases, ch, version)
           V(i) == ParseVersion(releases[i].version)
           IsFirst(i) == i \in found /\ \A j \in found : i <= j
           IsNewest(i) == i \in found /\ \A j \in found : ~VersionGt(V(j), V(i))
<1>1. releases \in Seq(Releases)
  BY ReleasesAssumption
<1>2. found \in SUBSET Nat /\ found \subseteq DOMAIN releases
  BY <1>1 DEF Found
<1>3. ASSUME NEW i \in found PROVE V(i) \in Versions
  <2>1. releases[i] \in Releases
    BY <1>1, <1>2
  <2>2. releases[i].version \in Seq(Parts)
    BY <2>1 DEF Releases
  <2> QED
    BY <2>2, ParseVersionType
<1>4. ASSUME NEW i \in found, NEW j \in found, i < j
      PROVE  VersionGt(V(i), V(j)) /\ ~VersionGt(V(j), V(i))
  <2>1. releases[i].channel = releases[j].channel
    BY DEF Found
  <2>2. VersionGt(V(i), V(j))
    BY <1>2, <1>4, <2>1, NewestFirstAssumption
  <2> QED
    BY <1>3, <2>2, VersionsAreOrdered
<1>5. CASE found = {}
  BY <1>5 DEF FirstFound, Newest, Found
<1>6. CASE found # {}
  <2>1. PICK first : IsFirst(first)
    BY <1>2, <1>6, LeastOf
  <2>2. ASSUME NEW i, IsFirst(i) PROVE i = first
    BY <1>2, <2>1, <2>2
  <2>3. IsNewest(first)
    <3>1. ASSUME NEW j \in found PROVE ~VersionGt(V(j), V(first))
      <4>1. first \in Nat /\ j \in Nat /\ first <= j
        BY <1>2, <2>1
      <4>2. CASE first < j
        BY <1>4, <2>1, <4>2
      <4>3. CASE first = j
        BY <1>3, <2>1, <4>3, VersionsAreOrdered
      <4> QED
        BY <4>1, <4>2, <4>3
    <3> QED
      BY <2>1, <3>1
  <2>4. ASSUME NEW i, IsNewest(i) PROVE i = first
    <3>1. first \in Nat /\ i \in Nat /\ first <= i
      BY <1>2, <2>1, <2>4
    <3> QED
      BY <1>4, <2>1, <2>4, <3>1
  <2>5. FirstFound(releases, ch, version) = releases[CHOOSE i \in found : \A j \in found : i <= j].url
    BY <1>6 DEF FirstFound
  <2>6. Newest(releases, ch, version)
           = releases[CHOOSE i \in found : \A j \in found : ~VersionGt(V(j), V(i))].url
    BY <1>6, Zenon DEF Newest, Found
  <2>7. (CHOOSE i \in found : \A j \in found : i <= j) = first
    BY <2>1, <2>2
  <2>8. (CHOOSE i \in found : \A j \in found : ~VersionGt(V(j), V(i))) = first
    BY <2>3, <2>4
  <2> QED
    BY <2>5, <2>6, <2>7, <2>8
<1> QED
  BY <1>5, <1>6

LEMMA FirstFoundType ==
    ASSUME NEW releases \in ReleaseLists, NEW ch, NEW version
    PROVE  FirstFound(releases, ch, version) \in Urls \cup {Absent}
<1> DEFINE found == Found(releases, ch, version)
<1>1. releases \in Seq(Releases)
  BY ReleasesAssumption
<1>2. ASSUME NEW i \in found PROVE releases[i].url \in Urls \cup {Absent}
  <2>1. releases[i] \in Releases
    BY <1>1 DEF Found
  <2> QED
    BY <2>1 DEF Releases
<1>3. found \in SUBSET Nat
  BY <1>1 DEF Found
<1>4. CASE found # {}
  <2>1. (CHOOSE i \in found : \A j \in found : i <= j) \in found
    BY <1>3, <1>4, LeastOf
  <2> QED
    BY <1>2, <1>4, <2>1 DEF FirstFound
<1> QED
  BY <1>4 DEF FirstFound
-----------------------------------------------------------------------------
(***************************************************************************)
(* The invariant: what a check that nothing disturbed knows is still so,   *)
(* and the last of them to store its result leaves it in the registry.     *)
(***************************************************************************)
Right == FirstFound(published, channel, dll)

Knows(c, places) == check[c].clean /\ check[c].pc \in places

\* What is about to be written is the channel of a version.
DerivedIsKnown ==
    \A c \in Clients : At(c, "derived") => check[c].channel \in {"stable", "development"}

ChannelIsRead ==
    /\ DerivedIsKnown
    /\ \A c \in Clients : Knows(c, {"enabled", "versioned", "failed", "fetched", "stored"})
          => check[c].channel = channel /\ channel \notin {Absent, "none"}

VersionIsRead ==
    \A c \in Clients : Knows(c, {"versioned", "fetched", "stored"}) => check[c].version = dll

ReleaseIsFound ==
    \A c \in Clients : Knows(c, {"fetched", "stored"}) => check[c].found = Right

\* A check that is under way, or waits only for its time to be stored, does not lose
\* what the others have stored.
Quiet(c) == check[c].pc \in {"idle", "loaded", "asked"}

StoredIsRight ==
    (\E c \in Clients : Knows(c, {"stored"})) /\ (\A c \in Clients : Quiet(c) \/ At(c, "stored"))
        => url = Right

CheckedStaysRight ==
    checked => /\ channel \notin {Absent, "none"}
               /\ (\A c \in Clients : Quiet(c) \/ Knows(c, {"stored"})) => url = Right

CheckInv ==
    /\ CheckTypeOK
    /\ ChannelIsRead /\ VersionIsRead /\ ReleaseIsFound
    /\ StoredIsRight /\ CheckedStaysRight

Checks == [pc : CheckStates, channel : Channels \cup {Absent}, last : Nat,
           version : Versions, found : Urls \cup {Absent}, clean : BOOLEAN]

LEMMA NoCheckType == NoCheck \in Checks
BY DEF NoCheck, Checks, CheckStates, Versions, Unreadable

LEMMA CheckInitHolds == CheckInit => CheckInv
<1> SUFFICES ASSUME CheckInit PROVE CheckInv
  OBVIOUS
<1>1. check \in [Clients -> Checks]
  BY NoCheckType DEF CheckInit
<1>2. CheckTypeOK
  BY <1>1 DEF CheckInit, CheckTypeOK, Checks
<1>3. \A c \in Clients : ~check[c].clean
  BY DEF CheckInit, NoCheck
<1>4. ~checked
  BY DEF CheckInit
<1>5. DerivedIsKnown
  BY DEF CheckInit, DerivedIsKnown, NoCheck, At
<1> QED
  BY <1>2, <1>3, <1>4, <1>5
  DEF CheckInv, ChannelIsRead, VersionIsRead, ReleaseIsFound, StoredIsRight,
      CheckedStaysRight, Knows

\* A step of one check leaves the others alone.
LEMMA OneMoves ==
    ASSUME CheckTypeOK, NEW c \in Clients, NEW r \in Checks, check' = [check EXCEPT ![c] = r]
    PROVE  /\ check' \in [Clients -> Checks]
           /\ check'[c] = r
           /\ \A d \in Clients : d # c => check'[d] = check[d]
BY DEF CheckTypeOK, Checks

LEMMA ActivateKeeps ==
    ASSUME CheckInv, NEW c \in Clients, Activate(c)
    PROVE  CheckInv'
<1> USE DEF CheckInv, Activate, At
<1> DEFINE r == [NoCheck EXCEPT !.pc = "loaded", !.clean = TRUE,
                    !.channel = IF channel = Absent THEN "stable" ELSE channel,
                    !.last = IF last = Absent THEN 0 ELSE last]
<1>1. r \in Checks /\ r.pc = "loaded"
  BY NoCheckType DEF Checks, NoCheck, CheckStates, Channels, CheckTypeOK
<1>2. check' = [check EXCEPT ![c] = r]
  OBVIOUS
<1> HIDE DEF r
<1>3. /\ check' \in [Clients -> Checks] /\ check'[c] = r
      /\ \A d \in Clients : d # c => check'[d] = check[d]
  BY <1>1, <1>2, OneMoves, ZenonT(30)
<1>4. CheckTypeOK'
  BY <1>3 DEF CheckTypeOK, Checks
<1>5. ChannelIsRead' /\ VersionIsRead' /\ ReleaseIsFound'
  BY <1>1, <1>3 DEF DerivedIsKnown, ChannelIsRead, VersionIsRead, ReleaseIsFound, Knows, Right
<1>6. StoredIsRight' /\ CheckedStaysRight'
  BY <1>1, <1>3 DEF StoredIsRight, CheckedStaysRight, Knows, Right, Quiet
<1> QED
  BY <1>4, <1>5, <1>6
LEMMA AskUpdateKeeps ==
    ASSUME CheckInv, NEW c \in Clients, AskUpdate(c)
    PROVE  CheckInv'
<1> USE DEF CheckInv, AskUpdate, At, Goto, Ended
<1>1. PICK r \in Checks : /\ check' = [check EXCEPT ![c] = r]
                          /\ r.pc \in {"asked", "idle"}
  <2>1. CASE Goto(c, "asked")
    <3>1. [check[c] EXCEPT !.pc = "asked"] \in Checks
      BY DEF CheckTypeOK, Checks, CheckStates
    <3> QED
      BY <2>1, <3>1 DEF Checks, CheckTypeOK
  <2>2. CASE Ended(c)
    BY <2>2, NoCheckType DEF NoCheck
  <2> QED
    BY <2>1, <2>2
<1>2. /\ check' \in [Clients -> Checks] /\ check'[c] = r
      /\ \A d \in Clients : d # c => check'[d] = check[d]
  BY <1>1, OneMoves
<1>3. CheckTypeOK'
  BY <1>2 DEF CheckTypeOK, Checks
<1>4. ChannelIsRead' /\ VersionIsRead' /\ ReleaseIsFound'
  BY <1>1, <1>2 DEF DerivedIsKnown, ChannelIsRead, VersionIsRead, ReleaseIsFound, Knows, Right
<1>5. StoredIsRight' /\ CheckedStaysRight'
  BY <1>1, <1>2 DEF StoredIsRight, CheckedStaysRight, Knows, Right, Quiet
<1> QED
  BY <1>3, <1>4, <1>5


LEMMA ClearUrlKeeps ==
    ASSUME CheckInv, NEW c \in Clients, ClearUrl(c)
    PROVE  CheckInv'
<1> USE DEF CheckInv, ClearUrl, At, Goto
<1> DEFINE r == [check[c] EXCEPT !.pc = "cleared"]
<1>1. r \in Checks /\ r.pc = "cleared"
  BY DEF Checks, CheckStates, CheckTypeOK
<1>2. check' = [check EXCEPT ![c] = r]
  OBVIOUS
<1> HIDE DEF r
<1>3. /\ check' \in [Clients -> Checks] /\ check'[c] = r
      /\ \A d \in Clients : d # c => check'[d] = check[d]
  BY <1>1, <1>2, OneMoves
<1>4. CheckTypeOK'
  BY <1>1, <1>3 DEF CheckTypeOK, Checks
<1>5. ChannelIsRead' /\ VersionIsRead' /\ ReleaseIsFound'
  BY <1>1, <1>3 DEF DerivedIsKnown, ChannelIsRead, VersionIsRead, ReleaseIsFound, Knows, Right
<1>6. StoredIsRight' /\ CheckedStaysRight'
  BY <1>1, <1>3 DEF StoredIsRight, CheckedStaysRight, Knows, Right, Quiet
<1> QED
  BY <1>4, <1>5, <1>6


LEMMA ReadChannelKeeps ==
    ASSUME CheckInv, NEW c \in Clients, ReadChannel(c)
    PROVE  CheckInv'
<1> USE DEF CheckInv, ReadChannel, At, Ended
<1>1. channel \in Channels
  BY DEF CheckTypeOK
<1>2. PICK r \in Checks :
         /\ check' = [check EXCEPT ![c] = r]
         /\ \/ r.pc = "idle" /\ ~r.clean /\ channel = "none"
            \/ r.pc = "enabled" /\ r.channel = channel /\ channel \notin {Absent, "none"}
  <2>1. CASE channel = "none"
    BY <2>1, NoCheckType DEF NoCheck
  <2>2. CASE channel # "none"
    <3> DEFINE r == [check[c] EXCEPT !.pc = "enabled", !.channel = channel]
    <3>1. r \in Checks /\ r.pc = "enabled" /\ r.channel = channel
      BY <1>1 DEF CheckTypeOK, Checks, CheckStates
    <3>2. check' = [check EXCEPT ![c] = r]
      BY <2>2
    <3> QED
      BY <2>2, <3>1, <3>2
  <2> QED
    BY <2>1, <2>2
<1>3. /\ check' \in [Clients -> Checks] /\ check'[c] = r
      /\ \A d \in Clients : d # c => check'[d] = check[d]
  BY <1>2, OneMoves
<1>4. CheckTypeOK'
  BY <1>1, <1>3 DEF CheckTypeOK, Checks
<1>5. ChannelIsRead' /\ VersionIsRead' /\ ReleaseIsFound'
  BY <1>2, <1>3 DEF DerivedIsKnown, ChannelIsRead, VersionIsRead, ReleaseIsFound, Knows, Right
\* Where one has read the channel, it is not "none", and this check goes on.
<1>6. StoredIsRight' /\ CheckedStaysRight'
  <2>1. CASE channel = "none"
    <3>1. \A d \in Clients : ~Knows(d, {"stored"})'
      BY <1>2, <1>3, <2>1 DEF ChannelIsRead, Knows
    <3> QED
      BY <2>1, <3>1 DEF StoredIsRight, CheckedStaysRight
  <2>2. CASE channel # "none"
    <3>1. ~Quiet(c)' /\ ~At(c, "stored")' /\ ~Knows(c, {"stored"})'
      BY <1>2, <1>3, <2>2 DEF Quiet, Knows
    <3> QED
      BY <3>1 DEF StoredIsRight, CheckedStaysRight
  <2> QED
    BY <2>1, <2>2
<1> QED
  BY <1>4, <1>5, <1>6

LEMMA DeriveChannelKeeps ==
    ASSUME CheckInv, NEW c \in Clients, DeriveChannel(c)
    PROVE  CheckInv'
<1> USE DEF CheckInv, DeriveChannel, At
<1>1. PICK r \in Checks : /\ check' = [check EXCEPT ![c] = r]
                         /\ r.pc = "derived" /\ r.channel \in {"stable", "development"}
  <2>1. PICK ch \in {"stable", "development"} :
           check' = [check EXCEPT ![c].pc = "derived", ![c].channel = ch]
    BY DEF ChannelOf
  <2> DEFINE r == [check[c] EXCEPT !.pc = "derived", !.channel = ch]
  <2>2. r \in Checks /\ r.pc = "derived" /\ r.channel \in {"stable", "development"}
    BY <2>1 DEF CheckTypeOK, Checks, CheckStates, Channels
  <2>3. check' = [check EXCEPT ![c] = r]
    BY <2>1
  <2> QED
    BY <2>2, <2>3
<1>2. /\ check' \in [Clients -> Checks] /\ check'[c] = r
      /\ \A d \in Clients : d # c => check'[d] = check[d]
  BY <1>1, OneMoves
<1>3. CheckTypeOK'
  BY <1>2 DEF CheckTypeOK, Checks
<1>4. ChannelIsRead' /\ VersionIsRead' /\ ReleaseIsFound'
  BY <1>1, <1>2 DEF DerivedIsKnown, ChannelIsRead, VersionIsRead, ReleaseIsFound, Knows, Right
<1>5. StoredIsRight' /\ CheckedStaysRight'
  BY <1>1, <1>2 DEF StoredIsRight, CheckedStaysRight, Knows, Right, Quiet
<1> QED
  BY <1>3, <1>4, <1>5

\* A check that has read a channel and is still undisturbed has read the one that is
\* there after the write; the one that writes has its own.
LEMMA StoreChannelKeeps ==
    ASSUME CheckInv, NEW c \in Clients, StoreChannel(c)
    PROVE  CheckInv'
<1> USE DEF CheckInv, At
<1>1. check \in [Clients -> Checks] /\ check[c].pc = "derived"
  BY DEF StoreChannel, CheckTypeOK, Checks
<1>2. UNCHANGED <<url, last, clock, dll, published>>
  BY DEF StoreChannel
<1>3. CASE /\ channel' = check[c].channel
           /\ check' = [d \in Clients |->
                 IF d = c THEN [check[c] EXCEPT !.pc = "enabled"]
                 ELSE [check[d] EXCEPT !.clean = @ /\ (channel' = channel \/ BeforeChannel(d))]]
           /\ checked' = (checked /\ channel' = channel)
  <2>1. channel' \in {"stable", "development"}
    BY <1>1, <1>3 DEF DerivedIsKnown, ChannelIsRead
  <2>2. /\ check' \in [Clients -> Checks]
        /\ check'[c] = [check[c] EXCEPT !.pc = "enabled"]
        /\ \A d \in Clients : d # c =>
              check'[d] = [check[d] EXCEPT !.clean = @ /\ (channel' = channel \/ BeforeChannel(d))]
    <3>1. [check[c] EXCEPT !.pc = "enabled"] \in Checks
      BY <1>1 DEF Checks, CheckStates
    <3>2. \A d \in Clients :
             [check[d] EXCEPT !.clean = @ /\ (channel' = channel \/ BeforeChannel(d))] \in Checks
      BY <1>1 DEF Checks
    <3> QED
      BY <1>3, <3>1, <3>2
  <2>3. check'[c].pc = "enabled" /\ check'[c].channel = channel'
    BY <1>1, <1>3, <2>2 DEF Checks
  <2>4. ASSUME NEW d \in Clients, check'[d].clean, d # c
        PROVE  /\ check[d].clean /\ check'[d].pc = check[d].pc
               /\ check'[d].channel = check[d].channel /\ check'[d].version = check[d].version
               /\ check'[d].found = check[d].found
               /\ channel' = channel \/ BeforeChannel(d)
    BY <1>1, <2>2, <2>4 DEF Checks
  <2>5. CheckTypeOK'
    BY <1>2, <1>3, <2>1, <2>2 DEF CheckTypeOK, Checks, Channels
  <2>6. ChannelIsRead' /\ VersionIsRead' /\ ReleaseIsFound'
    <3>1. ChannelIsRead'
      <4>1. DerivedIsKnown'
        <5>1. ASSUME NEW d \in Clients, check'[d].pc = "derived"
              PROVE  check'[d].channel \in {"stable", "development"}
          <6>1. d # c
            BY <2>3, <5>1
          <6>2. check'[d].channel = check[d].channel /\ check[d].pc = "derived"
            BY <1>1, <2>2, <5>1, <6>1 DEF Checks
          <6> QED
            BY <6>2 DEF ChannelIsRead, DerivedIsKnown
        <5> QED
          BY <5>1 DEF DerivedIsKnown
      <4>2. ASSUME NEW d \in Clients,
                   Knows(d, {"enabled", "versioned", "failed", "fetched", "stored"})'
            PROVE  check'[d].channel = channel' /\ channel' \notin {Absent, "none"}
        <5>1. CASE d = c
          BY <2>1, <2>3, <5>1, AbsentAssumption DEF Channels
        <5>2. CASE d # c
          BY <2>4, <4>2, <5>2 DEF ChannelIsRead, Knows, BeforeChannel
        <5> QED
          BY <5>1, <5>2
      <4> QED
        BY <4>1, <4>2 DEF ChannelIsRead
    <3>2. VersionIsRead'
      BY <1>2, <2>3, <2>4 DEF VersionIsRead, Knows
    <3>3. ReleaseIsFound'
      BY <1>2, <2>3, <2>4 DEF ReleaseIsFound, Knows, Right, BeforeChannel
    <3> QED
      BY <3>1, <3>2, <3>3
  <2>7. StoredIsRight' /\ CheckedStaysRight'
    <3>1. ~Quiet(c)' /\ ~At(c, "stored")' /\ ~Knows(c, {"stored"})'
      BY <2>3 DEF Quiet, Knows
    <3>2. StoredIsRight'
      BY <3>1 DEF StoredIsRight
    <3>3. CheckedStaysRight'
      <4>1. checked' => checked /\ channel' = channel
        BY <1>3
      <4> QED
        BY <3>1, <4>1 DEF CheckedStaysRight
    <3> QED
      BY <3>2, <3>3
  <2> QED
    BY <2>5, <2>6, <2>7
<1>4. CASE /\ check' = [check EXCEPT ![c].pc = "enabled", ![c].clean = FALSE]
           /\ UNCHANGED <<channel, checked>>
  <2> DEFINE r == [check[c] EXCEPT !.pc = "enabled", !.clean = FALSE]
  <2>1. r \in Checks /\ r.pc = "enabled" /\ ~r.clean
    BY <1>1 DEF Checks, CheckStates
  <2>2. check' = [check EXCEPT ![c] = r]
    BY <1>1, <1>4
  <2> HIDE DEF r
  <2>3. /\ check' \in [Clients -> Checks] /\ check'[c] = r
        /\ \A d \in Clients : d # c => check'[d] = check[d]
    BY <2>1, <2>2, OneMoves
  <2>4. CheckTypeOK'
    BY <1>2, <1>4, <2>3 DEF CheckTypeOK, Checks
  <2>5. ChannelIsRead' /\ VersionIsRead' /\ ReleaseIsFound'
    BY <1>2, <1>4, <2>1, <2>3 DEF DerivedIsKnown, ChannelIsRead, VersionIsRead, ReleaseIsFound, Knows, Right
  <2>6. StoredIsRight' /\ CheckedStaysRight'
    BY <1>2, <1>4, <2>1, <2>3 DEF StoredIsRight, CheckedStaysRight, Knows, Right, Quiet
  <2> QED
    BY <2>4, <2>5, <2>6
<1> QED
  BY <1>3, <1>4 DEF StoreChannel

\* A check that gives up leaves no other that knows it stored the right result.
LEMMA GivesUpKeeps ==
    ASSUME CheckInv, NEW c \in Clients, GivesUp(c), url' \in {url, Absent}
    PROVE  CheckInv'
<1> USE DEF CheckInv, GivesUp, At
<1>1. /\ check' \in [Clients -> Checks]
      /\ check'[c] = NoCheck
      /\ \A d \in Clients : d # c =>
            check'[d] = [check[d] EXCEPT !.clean = @ /\ ~At(d, "stored")]
  <2>1. \A d \in Clients : [check[d] EXCEPT !.clean = @ /\ ~At(d, "stored")] \in Checks
    BY DEF CheckTypeOK, Checks
  <2> QED
    BY <2>1, NoCheckType
<1>2. ASSUME NEW d \in Clients, check'[d].clean
      PROVE  /\ check[d].clean /\ check'[d].pc # "stored" /\ check'[d].pc = check[d].pc
             /\ check'[d].channel = check[d].channel /\ check'[d].version = check[d].version
             /\ check'[d].found = check[d].found
  <2>1. d # c
    BY <1>1, <1>2 DEF NoCheck
  <2> QED
    BY <1>1, <1>2, <2>1 DEF CheckTypeOK, Checks
<1>3. CheckTypeOK'
  BY <1>1 DEF CheckTypeOK, Checks
<1>3a. DerivedIsKnown'
  <2>1. \A d \in Clients : check'[d].pc = "derived"
           => check[d].pc = "derived" /\ check'[d].channel = check[d].channel
    BY <1>1 DEF CheckTypeOK, Checks, NoCheck
  <2> QED
    BY <2>1 DEF ChannelIsRead, DerivedIsKnown
<1>4. ChannelIsRead' /\ VersionIsRead' /\ ReleaseIsFound'
  BY <1>2, <1>3a DEF ChannelIsRead, VersionIsRead, ReleaseIsFound, Knows, Right
<1>5. StoredIsRight' /\ CheckedStaysRight'
  BY <1>2 DEF StoredIsRight, CheckedStaysRight, Knows
<1> QED
  BY <1>3, <1>4, <1>5

LEMMA ReadVersionKeeps ==
    ASSUME CheckInv, NEW c \in Clients, ReadVersion(c)
    PROVE  CheckInv'
<1>0. check[c] \in Checks /\ check \in [Clients -> Checks]
  BY DEF CheckInv, CheckTypeOK, Checks
<1>1. dll \in Versions /\ Unreadable \in Versions
  BY InstallableAssumption DEF CheckInv, CheckTypeOK, Unreadable, Versions
<1>2. PICK r \in Checks :
         /\ check' = [check EXCEPT ![c] = r]
         /\ r.pc = "versioned" /\ r.channel = check[c].channel
         /\ r.clean => check[c].clean /\ r.version = dll
  <2>1. CASE check' = [check EXCEPT ![c].pc = "versioned", ![c].version = dll]
    <3> DEFINE r == [check[c] EXCEPT !.pc = "versioned", !.version = dll]
    <3>1. r \in Checks /\ r.pc = "versioned" /\ r.channel = check[c].channel
          /\ r.clean = check[c].clean /\ r.version = dll
      BY <1>0, <1>1 DEF Checks, CheckStates
    <3>2. check' = [check EXCEPT ![c] = r]
      BY <2>1, <1>0
    <3> QED
      BY <3>1, <3>2
  <2>2. CASE check' = [check EXCEPT ![c].pc = "versioned", ![c].version = Unreadable,
                                    ![c].clean = FALSE]
    <3> DEFINE r == [check[c] EXCEPT !.pc = "versioned", !.version = Unreadable, !.clean = FALSE]
    <3>1. r \in Checks /\ r.pc = "versioned" /\ r.channel = check[c].channel /\ ~r.clean
      BY <1>0, <1>1 DEF Checks, CheckStates
    <3>2. check' = [check EXCEPT ![c] = r]
      BY <2>2, <1>0
    <3> QED
      BY <3>1, <3>2
  <2> QED
    BY <2>1, <2>2 DEF ReadVersion
<1> USE DEF CheckInv, ReadVersion, At
<1>3. /\ check' \in [Clients -> Checks] /\ check'[c] = r
      /\ \A d \in Clients : d # c => check'[d] = check[d]
  BY <1>2, OneMoves
<1>4. CheckTypeOK'
  BY <1>3 DEF CheckTypeOK, Checks
<1>5. ChannelIsRead' /\ VersionIsRead' /\ ReleaseIsFound'
  BY <1>2, <1>3 DEF DerivedIsKnown, ChannelIsRead, VersionIsRead, ReleaseIsFound, Knows, Right
<1>6. StoredIsRight' /\ CheckedStaysRight'
  BY <1>2, <1>3 DEF StoredIsRight, CheckedStaysRight, Knows, Right, Quiet
<1> QED
  BY <1>4, <1>5, <1>6


LEMMA FetchReleasesKeeps ==
    ASSUME CheckInv, NEW c \in Clients, FetchReleases(c)
    PROVE  CheckInv'
<1> USE DEF CheckInv, FetchReleases, At
<1> DEFINE found == FirstFound(published, check[c].channel, check[c].version)
           r == [check[c] EXCEPT !.pc = "fetched", !.found = found]
<1>1. found \in Urls \cup {Absent}
  BY FirstFoundType DEF CheckTypeOK
<1>2. check' = [check EXCEPT ![c] = r]
  OBVIOUS
<1>3. check[c].clean => found = Right
  BY DEF DerivedIsKnown, ChannelIsRead, VersionIsRead, Knows, Right
<1> HIDE DEF found
<1>4. /\ r \in Checks /\ r.pc = "fetched" /\ r.found = found /\ r.clean = check[c].clean
      /\ r.channel = check[c].channel /\ r.version = check[c].version
  BY <1>1 DEF Checks, CheckStates, CheckTypeOK
<1> HIDE DEF r
<1>5. /\ check' \in [Clients -> Checks] /\ check'[c] = r
      /\ \A d \in Clients : d # c => check'[d] = check[d]
  BY <1>2, <1>4, OneMoves
<1>6. CheckTypeOK'
  BY <1>5 DEF CheckTypeOK, Checks
<1>7. ChannelIsRead' /\ VersionIsRead' /\ ReleaseIsFound'
  BY <1>3, <1>4, <1>5 DEF DerivedIsKnown, ChannelIsRead, VersionIsRead, ReleaseIsFound, Knows, Right
<1>8. StoredIsRight' /\ CheckedStaysRight'
  BY <1>4, <1>5 DEF StoredIsRight, CheckedStaysRight, Knows, Right, Quiet
<1> QED
  BY <1>6, <1>7, <1>8


LEMMA FetchFailsKeeps ==
    ASSUME CheckInv, NEW c \in Clients, FetchFails(c)
    PROVE  CheckInv'
<1> USE DEF CheckInv, FetchFails, At, Goto
<1> DEFINE r == [check[c] EXCEPT !.pc = "failed"]
<1>1. r \in Checks /\ r.pc = "failed" /\ r.clean = check[c].clean /\ r.channel = check[c].channel
  BY DEF Checks, CheckStates, CheckTypeOK
<1>2. check' = [check EXCEPT ![c] = r]
  OBVIOUS
<1> HIDE DEF r
<1>3. /\ check' \in [Clients -> Checks] /\ check'[c] = r
      /\ \A d \in Clients : d # c => check'[d] = check[d]
  BY <1>1, <1>2, OneMoves
<1>4. CheckTypeOK'
  BY <1>1, <1>3 DEF CheckTypeOK, Checks
<1>5. ChannelIsRead' /\ VersionIsRead' /\ ReleaseIsFound'
  BY <1>1, <1>3 DEF DerivedIsKnown, ChannelIsRead, VersionIsRead, ReleaseIsFound, Knows, Right
<1>6. StoredIsRight' /\ CheckedStaysRight'
  BY <1>1, <1>3 DEF StoredIsRight, CheckedStaysRight, Knows, Right, Quiet
<1> QED
  BY <1>4, <1>5, <1>6


LEMMA StoreUrlKeeps ==
    ASSUME CheckInv, NEW c \in Clients, StoreUrl(c)
    PROVE  CheckInv'
<1> USE DEF CheckInv, StoreUrl, At
<1>1. /\ check' \in [Clients -> Checks]
      /\ check'[c] = [check[c] EXCEPT !.pc = "stored"]
      /\ \A d \in Clients : d # c =>
            check'[d] = [check[d] EXCEPT !.clean = @ /\ (check[c].clean \/ ~At(d, "stored"))]
  <2>1. [check[c] EXCEPT !.pc = "stored"] \in Checks
    BY DEF CheckTypeOK, Checks, CheckStates
  <2>2. \A d \in Clients :
           [check[d] EXCEPT !.clean = @ /\ (check[c].clean \/ ~At(d, "stored"))] \in Checks
    BY DEF CheckTypeOK, Checks
  <2> QED
    BY <2>1, <2>2
<1>2. /\ check'[c].pc = "stored" /\ check'[c].clean = check[c].clean
      /\ check'[c].channel = check[c].channel /\ check'[c].version = check[c].version
      /\ check'[c].found = check[c].found
  BY <1>1 DEF CheckTypeOK, Checks
<1>3. ASSUME NEW d \in Clients, check'[d].clean, d # c
      PROVE  /\ check[d].clean /\ check'[d].pc = check[d].pc
             /\ check'[d].channel = check[d].channel /\ check'[d].version = check[d].version
             /\ check'[d].found = check[d].found
             /\ check'[d].pc = "stored" => check[c].clean
  BY <1>1, <1>3 DEF CheckTypeOK, Checks
<1>4. CheckTypeOK'
  BY <1>1 DEF CheckTypeOK, Checks
<1>5. ChannelIsRead' /\ VersionIsRead' /\ ReleaseIsFound'
  BY <1>2, <1>3 DEF DerivedIsKnown, ChannelIsRead, VersionIsRead, ReleaseIsFound, Knows, Right
<1>6. check[c].clean => url' = Right'
  BY DEF ReleaseIsFound, Knows, Right
<1>7. StoredIsRight'
  BY <1>2, <1>3, <1>6 DEF StoredIsRight, Knows
<1>8. CheckedStaysRight'
  <2>1. ASSUME Quiet(c)' \/ Knows(c, {"stored"})' PROVE url' = Right'
    BY <1>2, <1>6, <2>1 DEF Quiet, Knows
  <2> QED
    BY <2>1 DEF CheckedStaysRight
<1> QED
  BY <1>4, <1>5, <1>7, <1>8

LEMMA StoreTimeKeeps ==
    ASSUME CheckInv, NEW c \in Clients, StoreTime(c)
    PROVE  CheckInv'
<1> USE DEF CheckInv, StoreTime, At, Ended
<1>1. /\ check' \in [Clients -> Checks] /\ check'[c] = NoCheck
      /\ \A d \in Clients : d # c => check'[d] = check[d]
  BY NoCheckType, OneMoves
<1>2. ~check'[c].clean /\ check'[c].pc = "idle"
  BY <1>1 DEF NoCheck
<1>3. CheckTypeOK'
  BY <1>1, MaxClockAssumption DEF CheckTypeOK, Checks
<1>4. ChannelIsRead' /\ VersionIsRead' /\ ReleaseIsFound'
  BY <1>1, <1>2 DEF DerivedIsKnown, ChannelIsRead, VersionIsRead, ReleaseIsFound, Knows, Right
<1>5. StoredIsRight'
  BY <1>1, <1>2 DEF StoredIsRight, Knows, Right, Quiet
<1>6. CheckedStaysRight'
  <2>1. ASSUME checked' PROVE channel' \notin {Absent, "none"} /\ Knows(c, {"stored"})
    BY <2>1 DEF DerivedIsKnown, ChannelIsRead, Knows
  <2>2. ASSUME checked', \A d \in Clients : (Quiet(d) \/ Knows(d, {"stored"}))' PROVE url' = Right'
    <3>1. \A d \in Clients : Quiet(d) \/ At(d, "stored")
      BY <1>1, <2>2 DEF Quiet, Knows
    <3> QED
      BY <2>1, <2>2, <3>1 DEF StoredIsRight, Right
  <2> QED
    BY <2>1, <2>2 DEF CheckedStaysRight
<1> QED
  BY <1>3, <1>4, <1>5, <1>6

\* Where something is changed that the checks compare, no check knows anything.
LEMMA DisturbedKeeps ==
    ASSUME CheckInv, DisturbsChecks, url' = url, last' = last, clock' = clock,
           channel' \in Channels \cup {Absent}, dll' \in Installable, published' \in ReleaseLists
    PROVE  CheckInv'
<1> USE DEF CheckInv, DisturbsChecks, At
<1>1. check' \in [Clients -> Checks]
  BY DEF CheckTypeOK, Checks
<1>2. ASSUME NEW d \in Clients, check'[d].clean PROVE check'[d].pc = "loaded"
  BY <1>2 DEF CheckTypeOK, Checks
<1>3. CheckTypeOK'
  BY <1>1 DEF CheckTypeOK, Checks
<1>3a. DerivedIsKnown'
  <2>1. \A d \in Clients : check'[d].pc = check[d].pc /\ check'[d].channel = check[d].channel
    BY DEF CheckTypeOK, Checks
  <2> QED
    BY <2>1 DEF ChannelIsRead, DerivedIsKnown
<1>4. ChannelIsRead' /\ VersionIsRead' /\ ReleaseIsFound' /\ StoredIsRight' /\ CheckedStaysRight'
  BY <1>2, <1>3a DEF ChannelIsRead, VersionIsRead, ReleaseIsFound, StoredIsRight, CheckedStaysRight, Knows
<1> QED
  BY <1>3, <1>4

LEMMA HostStopsKeeps ==
    ASSUME CheckInv, HostStops
    PROVE  CheckInv'
<1> USE DEF CheckInv, HostStops, At
<1>1. /\ check' \in [Clients -> Checks]
      /\ \A d \in Clients : check'[d] = IF At(d, "loaded") THEN check[d] ELSE NoCheck
  BY NoCheckType DEF CheckTypeOK, Checks
<1>2. ASSUME NEW d \in Clients, check'[d].clean PROVE check'[d].pc = "loaded"
  BY <1>1, <1>2 DEF NoCheck
<1>3. CheckTypeOK'
  BY <1>1 DEF CheckTypeOK, Checks
<1>3a. DerivedIsKnown'
  BY <1>1 DEF DerivedIsKnown, NoCheck
<1>4. ChannelIsRead' /\ VersionIsRead' /\ ReleaseIsFound' /\ StoredIsRight'
  BY <1>2, <1>3a DEF ChannelIsRead, VersionIsRead, ReleaseIsFound, StoredIsRight, Knows
<1>5. CheckedStaysRight'
  BY DEF CheckedStaysRight, Quiet, Right
<1> QED
  BY <1>3, <1>4, <1>5

\* What leaves check and what it depends on alone keeps the invariant.
LEMMA OtherChecksKeep ==
    ASSUME CheckInv, UNCHANGED <<channel, url, last, dll, published, check, checked>>,
           clock' \in 0 .. MaxClock
    PROVE  CheckInv'
BY DEF CheckInv, CheckTypeOK, DerivedIsKnown, ChannelIsRead, VersionIsRead, ReleaseIsFound, StoredIsRight,
       CheckedStaysRight, Knows, Quiet, At, Right

LEMMA CheckNextKeeps == CheckInv /\ [CheckNext]_checkVars => CheckInv'
<1> SUFFICES ASSUME CheckInv, [CheckNext]_checkVars PROVE CheckInv'
  OBVIOUS
<1>0. CheckTypeOK
  BY DEF CheckInv
<1>1. ASSUME NEW c \in Clients, CheckStep(c) PROVE CheckInv'
  <2>1. ASSUME ReadChannelFails(c) \/ ClearAfterFailure(c) PROVE CheckInv'
    BY <2>1, GivesUpKeeps DEF ReadChannelFails, ClearAfterFailure
  <2> QED
    BY <1>1, <2>1, ActivateKeeps, AskUpdateKeeps, ClearUrlKeeps, ReadChannelKeeps,
       DeriveChannelKeeps, StoreChannelKeeps, ReadVersionKeeps, FetchReleasesKeeps, FetchFailsKeeps, StoreUrlKeeps, StoreTimeKeeps
    DEF CheckStep
<1>2. ASSUME NEW ch \in Channels, SetChannel(ch) PROVE CheckInv'
  <2>1. CASE ch = channel
    BY <1>0, <1>2, <2>1, OtherChecksKeep DEF SetChannel, CheckTypeOK
  <2>2. CASE ch # channel
    BY <1>0, <1>2, <2>2, DisturbedKeeps DEF SetChannel, CheckTypeOK
  <2> QED
    BY <2>1, <2>2
<1>3. CASE Publish
  BY <1>0, <1>3, DisturbedKeeps DEF Publish, CheckTypeOK
<1>4. CASE Install
  BY <1>0, <1>4, DisturbedKeeps DEF Install, CheckTypeOK
<1>5. CASE HostStops
  BY <1>5, HostStopsKeeps
<1>6. CASE ClockChanges
  BY <1>6, OtherChecksKeep DEF ClockChanges
<1>7. CASE UNCHANGED checkVars
  BY <1>0, <1>7, OtherChecksKeep DEF checkVars, CheckTypeOK
<1> QED
  BY <1>1, <1>2, <1>3, <1>4, <1>5, <1>6, <1>7 DEF CheckNext

-----------------------------------------------------------------------------
(***************************************************************************)
(* The theorems.                                                           *)
(***************************************************************************)

\* What undisturbed checks know is so, in every state.
THEOREM ChecksInvariance == CheckSpec => []CheckInv
<1>1. CheckInit => CheckInv
  BY CheckInitHolds
<1>2. CheckInv /\ [CheckNext]_checkVars => CheckInv'
  BY CheckNextKeeps
<1> QED
  BY <1>1, <1>2, PTL DEF CheckSpec

\* Every variable of the check has its type.
THEOREM ChecksTypeCorrect == CheckSpec => []CheckTypeOK
<1>1. CheckInv => CheckTypeOK
  BY DEF CheckInv
<1> QED
  BY <1>1, ChecksInvariance, PTL

\* After a check that nothing disturbed the registry names the newest release of its
\* channel, or none if the input method is as new, however many checks ran meanwhile.
THEOREM RegistryNamesTheNewest == CheckSpec => []CheckedIsRight
<1>1. CheckInv => CheckedIsRight
  <2> SUFFICES ASSUME CheckInv, checked, \A c \in Clients : Quiet(c)
               PROVE  url = Newest(published, channel, dll)
    BY DEF CheckedIsRight, Quiet
  <2>1. url = FirstFound(published, channel, dll)
    BY DEF CheckInv, CheckedStaysRight, Right
  <2>2. published \in ReleaseLists /\ dll \in Versions
    BY InstallableAssumption DEF CheckInv, CheckTypeOK
  <2> QED
    BY <2>1, <2>2, FirstIsNewest
<1> QED
  BY <1>1, ChecksInvariance, PTL
=============================================================================
