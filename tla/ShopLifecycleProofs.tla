------------------------ MODULE ShopLifecycleProofs ------------------------
(***************************************************************************)
(* Proofs about ShopLifecycle for any number of requests handled at once,  *)
(* installations, changes and failures: which schedule may be left, and    *)
(* which shop may be erased.                                               *)
(***************************************************************************)
EXTENDS ShopLifecycle, TLAPS, FiniteSetTheorems

SchedulePlaces == {"save", "test", "config", "jobs", "remove", "add"}
Works(h) == at[h] \in SchedulePlaces
UninstallPending == uninstalls > 0 \/ \E h \in Handlers : at[h] \in {"mark", "unschedule"}

Types ==
    /\ uninstalls \in Nat /\ redacts \in Nat /\ lastId \in 0..MaxInstalls
    /\ shop \in {0, lastId} /\ active \in BOOLEAN /\ every \in Intervals
    /\ schedule \in [Ids -> MaybeInterval]
    /\ overtaken \subseteq Handlers /\ orphans \subseteq Ids

HandlersTyped ==
    /\ at \in [Handlers -> Places]
    /\ want \in [Handlers -> MaybeInterval]
    /\ my \in [Handlers -> 0..lastId]

(* Only a row is active, and only a row is worked for. *)
RowsNamed ==
    /\ active => shop # 0
    /\ \A h \in Handlers : at[h] \notin {"idle", "upsert"} => my[h] # 0

(* A redact under way lets an active shop be, or was overtaken.            *)
DeletesInactive == \A h \in Handlers : at[h] = "delete" /\ active => h \in overtaken

(* A schedule of an erased shop is an orphan, and who may still write one  *)
(* was overtaken.                                                          *)
ErasedIsOrphaned ==
    /\ \A i \in Ids : schedule[i] # None /\ i # shop => i \in orphans
    /\ \A h \in Handlers : Works(h) /\ my[h] # shop => h \in overtaken

(* An inactive shop has no schedule and no one to write one, but for the   *)
(* overtaken, while no uninstall is pending.                               *)
NobodySchedules ==
    /\ schedule[shop] # None => shop \in orphans
    /\ \A h \in Handlers : Works(h) /\ my[h] = shop => h \in overtaken

InactiveIsBare == shop # 0 /\ ~active /\ ~UninstallPending => NobodySchedules

(* What a redact saw stays so, if nothing overtook it. *)
RedactedIsBare ==
    \A h \in Handlers : at[h] = "delete" /\ my[h] = shop /\ h \notin overtaken =>
        ~active /\ NobodySchedules

IInv ==
    /\ Types /\ HandlersTyped /\ RowsNamed
    /\ DeletesInactive /\ ErasedIsOrphaned /\ InactiveIsBare /\ RedactedIsBare

USE ShopAssumption DEF Ids, MaybeInterval, Places, Go, Works, SchedulePlaces, UninstallPending,
    NobodySchedules, shopifyVars, shopVars, configVars, handlerVars, scheduleVars

LEMMA DefaultIsInterval == Default \in Intervals
  BY DEF Default

LEMMA Initially == Init => IInv
<1> SUFFICES ASSUME Init PROVE IInv
  OBVIOUS
<1>1. Types
  <2>1. schedule \in [Ids -> MaybeInterval]
    BY DEF Init
  <2>2. uninstalls \in Nat /\ redacts \in Nat /\ lastId \in 0..MaxInstalls
    BY DEF Init
  <2> QED
    BY <2>1, <2>2, DefaultIsInterval DEF Init, Types
<1>2. HandlersTyped
  BY DEF Init, HandlersTyped
<1>3. RowsNamed /\ DeletesInactive /\ InactiveIsBare /\ RedactedIsBare
  BY DEF Init, RowsNamed, DeletesInactive, InactiveIsBare, RedactedIsBare
<1>4. ErasedIsOrphaned
  BY DEF Init, ErasedIsOrphaned
<1> QED
  BY <1>1, <1>2, <1>3, <1>4 DEF IInv

USE DEF IInv, Types, HandlersTyped, RowsNamed, DeletesInactive, ErasedIsOrphaned, InactiveIsBare,
    RedactedIsBare

LEMMA InstallKeeps == ASSUME IInv, Install PROVE IInv'
<1>1. Types' /\ HandlersTyped' /\ RowsNamed'
  BY DEF Install
<1>2. DeletesInactive' /\ ErasedIsOrphaned'
  BY DEF Install
<1>3. InactiveIsBare' /\ RedactedIsBare'
  BY DEF Install
<1> QED
  BY <1>1, <1>2, <1>3

LEMMA UninstallKeeps == ASSUME IInv, Uninstall PROVE IInv'
<1>1. Types' /\ HandlersTyped' /\ RowsNamed'
  BY DEF Uninstall
<1>2. DeletesInactive' /\ ErasedIsOrphaned'
  BY DEF Uninstall
<1>3. InactiveIsBare' /\ RedactedIsBare'
  BY DEF Uninstall
<1> QED
  BY <1>1, <1>2, <1>3

LEMMA SendRedactKeeps == ASSUME IInv, SendRedact PROVE IInv'
<1>1. Types' /\ HandlersTyped' /\ RowsNamed'
  BY DEF SendRedact
<1>2. DeletesInactive' /\ ErasedIsOrphaned'
  BY DEF SendRedact
<1>3. InactiveIsBare' /\ RedactedIsBare'
  BY DEF SendRedact
<1> QED
  BY <1>1, <1>2, <1>3

LEMMA ExchangeTokenKeeps == ASSUME NEW h \in Handlers, IInv, ExchangeToken(h) PROVE IInv'
<1>1. Types' /\ HandlersTyped' /\ RowsNamed'
  BY DEF ExchangeToken, Begin
<1>2. DeletesInactive' /\ ErasedIsOrphaned'
  BY DEF ExchangeToken, Begin
<1>3. InactiveIsBare' /\ RedactedIsBare'
  BY DEF ExchangeToken, Begin
<1> QED
  BY <1>1, <1>2, <1>3

LEMMA UpsertByDomainKeeps == ASSUME NEW h \in Handlers, IInv, UpsertByDomain(h) PROVE IInv'
<1>1. Types' /\ HandlersTyped' /\ RowsNamed'
  BY DEF UpsertByDomain, LeaveOvertaking, InPlace
<1>2. DeletesInactive' /\ ErasedIsOrphaned'
  BY DEF UpsertByDomain, LeaveOvertaking, InPlace
<1>3. InactiveIsBare' /\ RedactedIsBare'
  BY DEF UpsertByDomain, LeaveOvertaking, InPlace
<1> QED
  BY <1>1, <1>2, <1>3

LEMMA SaveSettingsKeeps == ASSUME NEW h \in Handlers, IInv, SaveSettings(h) PROVE IInv'
<1>1. Types' /\ HandlersTyped' /\ RowsNamed'
  BY DEF SaveSettings, Begin, Here
<1>2. DeletesInactive' /\ ErasedIsOrphaned'
  BY DEF SaveSettings, Begin, Here
<1>3. InactiveIsBare' /\ RedactedIsBare'
  BY DEF SaveSettings, Begin, Here
<1> QED
  BY <1>1, <1>2, <1>3

LEMMA UpdateSettingsKeeps == ASSUME NEW h \in Handlers, IInv, UpdateSettings(h) PROVE IInv'
<1>1. Types' /\ HandlersTyped' /\ RowsNamed'
  BY DEF UpdateSettings
<1>2. DeletesInactive' /\ ErasedIsOrphaned'
  BY DEF UpdateSettings
<1>3. InactiveIsBare' /\ RedactedIsBare'
  BY DEF UpdateSettings
<1> QED
  BY <1>1, <1>2, <1>3

LEMMA TestConnectionKeeps == ASSUME NEW h \in Handlers, IInv, TestConnection(h) PROVE IInv'
<1>1. Types' /\ HandlersTyped' /\ RowsNamed'
  BY DEF TestConnection, Begin, Here
<1>2. DeletesInactive' /\ ErasedIsOrphaned'
  BY DEF TestConnection, Begin, Here
<1>3. InactiveIsBare' /\ RedactedIsBare'
  BY DEF TestConnection, Begin, Here
<1> QED
  BY <1>1, <1>2, <1>3

LEMMA RecordTestResultKeeps == ASSUME NEW h \in Handlers, IInv, RecordTestResult(h) PROVE IInv'
<1>1. Types' /\ HandlersTyped' /\ RowsNamed'
  BY DEF RecordTestResult
<1>2. DeletesInactive' /\ ErasedIsOrphaned'
  BY DEF RecordTestResult
<1>3. InactiveIsBare' /\ RedactedIsBare'
  BY DEF RecordTestResult
<1> QED
  BY <1>1, <1>2, <1>3

LEMMA SweepKeeps == ASSUME NEW h \in Handlers, IInv, Sweep(h) PROVE IInv'
<1>1. Types' /\ HandlersTyped' /\ RowsNamed'
  BY DEF Sweep, Begin, Here
<1>2. DeletesInactive' /\ ErasedIsOrphaned'
  BY DEF Sweep, Begin, Here
<1>3. InactiveIsBare' /\ RedactedIsBare'
  BY DEF Sweep, Begin, Here
<1> QED
  BY <1>1, <1>2, <1>3

LEMMA ReadConfigKeeps == ASSUME NEW h \in Handlers, IInv, ReadConfig(h) PROVE IInv'
<1>1. Types' /\ HandlersTyped' /\ RowsNamed'
  BY DEF ReadConfig, Desired
<1>2. DeletesInactive' /\ ErasedIsOrphaned'
  BY DEF ReadConfig, Desired
<1>3. InactiveIsBare' /\ RedactedIsBare'
  BY DEF ReadConfig, Desired
<1> QED
  BY <1>1, <1>2, <1>3

LEMMA ShopIsGoneKeeps == ASSUME NEW h \in Handlers, IInv, ShopIsGone(h) PROVE IInv'
<1>1. Types' /\ HandlersTyped' /\ RowsNamed'
  BY DEF ShopIsGone, Leave, LeaveOvertaking
<1>2. DeletesInactive' /\ ErasedIsOrphaned'
  BY DEF ShopIsGone, Leave, LeaveOvertaking
<1>3. InactiveIsBare' /\ RedactedIsBare'
  BY DEF ShopIsGone, Leave, LeaveOvertaking
<1> QED
  BY <1>1, <1>2, <1>3

LEMMA AlreadyCorrectKeeps == ASSUME NEW h \in Handlers, IInv, AlreadyCorrect(h) PROVE IInv'
<1>1. Types' /\ HandlersTyped' /\ RowsNamed'
  BY DEF AlreadyCorrect, Leave, LeaveOvertaking
<1>2. DeletesInactive' /\ ErasedIsOrphaned'
  BY DEF AlreadyCorrect, Leave, LeaveOvertaking
<1>3. InactiveIsBare' /\ RedactedIsBare'
  BY DEF AlreadyCorrect, Leave, LeaveOvertaking
<1> QED
  BY <1>1, <1>2, <1>3

LEMMA NeedsChangeKeeps == ASSUME NEW h \in Handlers, IInv, NeedsChange(h) PROVE IInv'
<1>1. Types' /\ HandlersTyped' /\ RowsNamed'
  BY DEF NeedsChange
<1>2. DeletesInactive' /\ ErasedIsOrphaned'
  BY DEF NeedsChange
<1>3. InactiveIsBare' /\ RedactedIsBare'
  BY DEF NeedsChange
<1> QED
  BY <1>1, <1>2, <1>3

LEMMA RemoveRepeatableKeeps == ASSUME NEW h \in Handlers, IInv, RemoveRepeatable(h) PROVE IInv'
<1>1. Types'
  BY DEF RemoveRepeatable, Leave, LeaveOvertaking
<1>2. HandlersTyped'
  <2>1. CASE want[h] = None
    <3>1. at' \in [Handlers -> Places] /\ want' \in [Handlers -> MaybeInterval]
      BY <2>1 DEF RemoveRepeatable, Leave, LeaveOvertaking
    <3>2. my' \in [Handlers -> 0..lastId']
      BY <2>1 DEF RemoveRepeatable, Leave, LeaveOvertaking
    <3> QED
      BY <3>1, <3>2
  <2>2. CASE want[h] # None
    BY <2>2 DEF RemoveRepeatable
  <2> QED
    BY <2>1, <2>2
<1>3. RowsNamed'
  BY DEF RemoveRepeatable, Leave, LeaveOvertaking
<1>4. DeletesInactive'
  BY DEF RemoveRepeatable, Leave, LeaveOvertaking
<1>5. ErasedIsOrphaned'
  BY DEF RemoveRepeatable, Leave, LeaveOvertaking
<1>6. InactiveIsBare'
  BY DEF RemoveRepeatable, Leave, LeaveOvertaking
<1>7. RedactedIsBare'
  <2> SUFFICES ASSUME NEW k \in Handlers, at'[k] = "delete", my'[k] = shop', k \notin overtaken'
               PROVE ~active' /\ NobodySchedules'
    OBVIOUS
  <2>1. at[k] = "delete" /\ my[k] = shop /\ k \notin overtaken
    BY DEF RemoveRepeatable, Leave, LeaveOvertaking
  <2>2. ~active /\ NobodySchedules
    BY <2>1
  <2>3. schedule'[shop'] # None => shop' \in orphans'
    BY <2>1, <2>2 DEF RemoveRepeatable
  <2>4. \A g \in Handlers : Works(g)' /\ my'[g] = shop' => g \in overtaken'
    BY <2>2 DEF RemoveRepeatable, Leave, LeaveOvertaking
  <2> QED
    BY <2>2, <2>3, <2>4 DEF RemoveRepeatable
<1>8. QED
  BY <1>1, <1>2, <1>3, <1>4, <1>5, <1>6, <1>7

LEMMA AddRepeatableKeeps == ASSUME NEW h \in Handlers, IInv, AddRepeatable(h) PROVE IInv'
<1>1. Types'
  <2>1. my[h] \in Ids
    BY DEF AddRepeatable
  <2>2. schedule' \in [Ids -> MaybeInterval] /\ orphans' \subseteq Ids
    BY <2>1 DEF AddRepeatable
  <2>3. overtaken' \subseteq Handlers
    BY DEF AddRepeatable, Leave, LeaveOvertaking
  <2> QED
    BY <2>2, <2>3 DEF AddRepeatable
<1>2. HandlersTyped'
  BY DEF AddRepeatable, Leave, LeaveOvertaking
<1>3. RowsNamed'
  BY DEF AddRepeatable, Leave, LeaveOvertaking
<1>4. DeletesInactive'
  BY DEF AddRepeatable, Leave, LeaveOvertaking
<1>5. ErasedIsOrphaned'
  BY DEF AddRepeatable, Leave, LeaveOvertaking
<1>6. InactiveIsBare'
  BY DEF AddRepeatable, Leave, LeaveOvertaking
<1>7. RedactedIsBare'
  BY DEF AddRepeatable, Leave, LeaveOvertaking
<1>8. QED
  BY <1>1, <1>2, <1>3, <1>4, <1>5, <1>6, <1>7

LEMMA AppUninstalledKeeps == ASSUME NEW h \in Handlers, IInv, AppUninstalled(h) PROVE IInv'
<1>1. Types'
  BY DEF AppUninstalled, Begin
<1>2. HandlersTyped'
  <2>1. CASE shop = 0
    BY <2>1 DEF AppUninstalled
  <2>2. CASE ~(shop = 0)
    <3>1. at' \in [Handlers -> Places] /\ want' = want /\ lastId' = lastId
      BY <2>2 DEF AppUninstalled, Begin
    <3>2. my' \in [Handlers -> 0..lastId]
      BY <2>2 DEF AppUninstalled, Begin
    <3> QED
      BY <3>1, <3>2
  <2> QED
    BY <2>1, <2>2
<1>3. RowsNamed'
  BY DEF AppUninstalled, Begin
<1>4. DeletesInactive'
  BY DEF AppUninstalled, Begin
<1>5. ErasedIsOrphaned'
  BY DEF AppUninstalled, Begin
<1>6. InactiveIsBare'
  BY DEF AppUninstalled, Begin
<1>7. RedactedIsBare'
  BY DEF AppUninstalled, Begin
<1>8. QED
  BY <1>1, <1>2, <1>3, <1>4, <1>5, <1>6, <1>7

LEMMA MarkUninstalledKeeps == ASSUME NEW h \in Handlers, IInv, MarkUninstalled(h) PROVE IInv'
<1>1. Types'
  <2>1. CASE shop = 0
    <3>1. uninstalls' \in Nat /\ UNCHANGED active
      BY <2>1 DEF MarkUninstalled
    <3>2. overtaken' \subseteq Handlers
      BY <2>1 DEF MarkUninstalled, Leave, LeaveOvertaking
    <3> QED
      BY <3>1, <3>2 DEF MarkUninstalled
  <2>2. CASE shop # 0
    BY <2>2 DEF MarkUninstalled
  <2> QED
    BY <2>1, <2>2
<1>2. HandlersTyped'
  <2>1. CASE shop = 0
    <3>1. at' \in [Handlers -> Places] /\ want' \in [Handlers -> MaybeInterval]
      BY <2>1 DEF MarkUninstalled, Leave, LeaveOvertaking
    <3>2. my' \in [Handlers -> 0..lastId']
      BY <2>1 DEF MarkUninstalled, Leave, LeaveOvertaking
    <3> QED
      BY <3>1, <3>2
  <2>2. CASE shop # 0
    BY <2>2 DEF MarkUninstalled
  <2> QED
    BY <2>1, <2>2
<1>3. RowsNamed'
  BY DEF MarkUninstalled, Leave, LeaveOvertaking
<1>4. DeletesInactive'
  BY DEF MarkUninstalled, Leave, LeaveOvertaking
<1>5. ErasedIsOrphaned'
  BY DEF MarkUninstalled, Leave, LeaveOvertaking
<1>6. InactiveIsBare'
  BY DEF MarkUninstalled, Leave, LeaveOvertaking
<1>7. RedactedIsBare'
  <2>1. CASE shop = 0
    BY <2>1 DEF MarkUninstalled, Leave, LeaveOvertaking
  <2>2. CASE shop # 0
    BY <2>2 DEF MarkUninstalled
  <2> QED
    BY <2>1, <2>2
<1>8. QED
  BY <1>1, <1>2, <1>3, <1>4, <1>5, <1>6, <1>7

LEMMA RemoveShopScheduleKeeps == ASSUME NEW h \in Handlers, IInv, RemoveShopSchedule(h) PROVE IInv'
<1>1. Types'
  BY DEF RemoveShopSchedule, LeaveOvertaking, Scheduling, InPlace, Missed
<1>2. HandlersTyped'
  BY DEF RemoveShopSchedule, LeaveOvertaking, Scheduling, InPlace, Missed
<1>3. RowsNamed'
  BY DEF RemoveShopSchedule, LeaveOvertaking, Scheduling, InPlace, Missed
<1>4. DeletesInactive'
  BY DEF RemoveShopSchedule, LeaveOvertaking, Scheduling, InPlace, Missed
<1>5. ErasedIsOrphaned'
  BY DEF RemoveShopSchedule, LeaveOvertaking, Scheduling, InPlace, Missed
<1>6. InactiveIsBare'
  BY DEF RemoveShopSchedule, LeaveOvertaking, Scheduling, InPlace, Missed
<1>7. RedactedIsBare'
  BY DEF RemoveShopSchedule, LeaveOvertaking, Scheduling, InPlace, Missed
<1>8. QED
  BY <1>1, <1>2, <1>3, <1>4, <1>5, <1>6, <1>7

LEMMA ShopRedactKeeps == ASSUME NEW h \in Handlers, IInv, ShopRedact(h) PROVE IInv'
<1>1. Types'
  BY DEF ShopRedact, Begin, NoUninstallPending
<1>2. HandlersTyped'
  <2>1. CASE shop = 0 \/ active
    BY <2>1 DEF ShopRedact
  <2>2. CASE ~(shop = 0 \/ active)
    <3>1. at' \in [Handlers -> Places] /\ want' = want /\ lastId' = lastId
      BY <2>2 DEF ShopRedact, Begin
    <3>2. my' \in [Handlers -> 0..lastId]
      BY <2>2 DEF ShopRedact, Begin
    <3> QED
      BY <3>1, <3>2
  <2> QED
    BY <2>1, <2>2
<1>3. RowsNamed'
  BY DEF ShopRedact, Begin, NoUninstallPending
<1>4. DeletesInactive'
  BY DEF ShopRedact, Begin, NoUninstallPending
<1>5. ErasedIsOrphaned'
  BY DEF ShopRedact, Begin, NoUninstallPending
<1>6. InactiveIsBare'
  BY DEF ShopRedact, Begin, NoUninstallPending
<1>7. RedactedIsBare'
  BY DEF ShopRedact, Begin, NoUninstallPending
<1>8. QED
  BY <1>1, <1>2, <1>3, <1>4, <1>5, <1>6, <1>7

LEMMA DeleteKeeps == ASSUME NEW h \in Handlers, IInv, Delete(h) PROVE IInv'
<1>1. Types'
  <2>1. uninstalls' \in Nat /\ redacts' \in Nat /\ lastId' \in 0..MaxInstalls
        /\ shop' \in {0, lastId'}
    BY DEF Delete
  <2>2. active' \in BOOLEAN /\ every' \in Intervals
    BY DefaultIsInterval DEF Delete
  <2>3. overtaken' \subseteq Handlers
    BY DEF Delete, LeaveOvertaking, Scheduling, InPlace
  <2>4. schedule' \in [Ids -> MaybeInterval] /\ orphans' \subseteq Ids
    BY DEF Delete
  <2> QED
    BY <2>1, <2>2, <2>3, <2>4
<1>2. HandlersTyped'
  BY DefaultIsInterval DEF Delete, LeaveOvertaking, Scheduling, InPlace
<1>3. RowsNamed'
  BY DefaultIsInterval DEF Delete, LeaveOvertaking, Scheduling, InPlace
<1>4. DeletesInactive'
  BY DefaultIsInterval DEF Delete, LeaveOvertaking, Scheduling, InPlace
<1>5. ErasedIsOrphaned'
  BY DefaultIsInterval DEF Delete, LeaveOvertaking, Scheduling, InPlace
<1>6. InactiveIsBare'
  BY DefaultIsInterval DEF Delete, LeaveOvertaking, Scheduling, InPlace
<1>7. RedactedIsBare'
  BY DefaultIsInterval DEF Delete, LeaveOvertaking, Scheduling, InPlace
<1>8. QED
  BY <1>1, <1>2, <1>3, <1>4, <1>5, <1>6, <1>7

LEMMA FailKeeps == ASSUME NEW h \in Handlers, IInv, Fail(h) PROVE IInv'
<1>1. Types' /\ HandlersTyped' /\ RowsNamed'
  BY DEF Fail, Leave, LeaveOvertaking
<1>2. DeletesInactive' /\ ErasedIsOrphaned'
  BY DEF Fail, Leave, LeaveOvertaking
<1>3. InactiveIsBare' /\ RedactedIsBare'
  BY DEF Fail, Leave, LeaveOvertaking
<1> QED
  BY <1>1, <1>2, <1>3

(* The invariant the theorems rest on. *)
THEOREM Invariant == Spec => []IInv
<1>1. Init => IInv
  BY Initially
<1>2. IInv /\ [Next]_vars => IInv'
  <2> SUFFICES ASSUME IInv, [Next]_vars PROVE IInv'
    OBVIOUS
  <2>1. CASE UNCHANGED vars
    BY <2>1 DEF vars
  <2>2. CASE Install \/ Uninstall \/ SendRedact
    BY <2>2, InstallKeeps, UninstallKeeps, SendRedactKeeps
  <2>3. ASSUME NEW h \in Handlers,
               ExchangeToken(h) \/ SaveSettings(h) \/ TestConnection(h) \/ Sweep(h)
                   \/ ShopRedact(h) \/ Fail(h)
        PROVE IInv'
    BY <2>3, ExchangeTokenKeeps, SaveSettingsKeeps, TestConnectionKeeps, SweepKeeps,
       ShopRedactKeeps, FailKeeps
  <2>4. ASSUME NEW h \in Handlers, Reconcile(h) PROVE IInv'
    BY <2>4, ReadConfigKeeps, ShopIsGoneKeeps, AlreadyCorrectKeeps, NeedsChangeKeeps,
       RemoveRepeatableKeeps, AddRepeatableKeeps DEF Reconcile
  <2>5. ASSUME NEW h \in Handlers,
               UpsertByDomain(h) \/ UpdateSettings(h) \/ RecordTestResult(h) \/ AppUninstalled(h)
                   \/ MarkUninstalled(h) \/ RemoveShopSchedule(h) \/ Delete(h)
        PROVE IInv'
    BY <2>5, UpsertByDomainKeeps, UpdateSettingsKeeps, RecordTestResultKeeps, AppUninstalledKeeps,
       MarkUninstalledKeeps, RemoveShopScheduleKeeps, DeleteKeeps
  <2> QED
    BY <2>1, <2>2, <2>3, <2>4, <2>5 DEF Next, Handle
<1> QED
  BY <1>1, <1>2, PTL DEF Spec

(* Whatever the number of requests, installations and failures, a shop     *)
(* that is gone has no schedule but one an overtaken request has left      *)
(* (removeShopSchedule, eraseIfUninstalled and reconcileShop).             *)
THEOREM OnlyOrphansStay == Spec => []GoneHasNoSchedule
<1>1. IInv => GoneHasNoSchedule
  <2> SUFFICES ASSUME IInv, Quiet, NEW i \in Ids, schedule[i] # None, ~(i = shop /\ active)
               PROVE i \in orphans
    BY DEF GoneHasNoSchedule
  <2>1. CASE i # shop
    BY <2>1
  <2>2. CASE i = shop /\ ~active
    <3>1. shop # 0 /\ ~UninstallPending
      BY <2>2 DEF Quiet
    <3> QED
      BY <2>2, <3>1
  <2> QED
    BY <2>1, <2>2
<1> QED
  BY <1>1, Invariant, PTL

(* An active shop is erased only by a redact that had looked at the row    *)
(* before it became active (eraseIfUninstalled beside upsertByDomain).     *)
THEOREM LiveShopsStay == Spec => LiveShopKept
<1> DEFINE A == shop # 0 /\ shop' = 0 /\ active =>
                  \E h \in overtaken : at[h] = "delete" /\ at'[h] = "idle"
<1>1. IInv /\ [Next]_vars => [A]_vars
  <2> SUFFICES ASSUME IInv, Next, shop # 0, shop' = 0, active
               PROVE \E h \in overtaken : at[h] = "delete" /\ at'[h] = "idle"
    OBVIOUS
  <2>1. PICK h \in Handlers : Delete(h)
    BY DEF Next, Handle, Reconcile, Install, Uninstall, SendRedact, ExchangeToken, SaveSettings,
           TestConnection, Sweep, ShopRedact, Fail, UpsertByDomain, UpdateSettings,
           RecordTestResult, ReadConfig, ShopIsGone, AlreadyCorrect, NeedsChange,
           RemoveRepeatable, AddRepeatable, AppUninstalled, MarkUninstalled, RemoveShopSchedule
  <2>2. at[h] = "delete" /\ at'[h] = "idle"
    BY <2>1 DEF Delete, LeaveOvertaking
  <2> QED
    BY <2>2
<1> QED
  BY <1>1, Invariant, PTL DEF Spec, LiveShopKept

-----------------------------------------------------------------------------
(* Type correctness.  What takes an argument is the number of webhooks     *)
(* that wait: an uninstall that cannot be handled is sent again, whether   *)
(* or not a failure is to blame.                                           *)

CountersTyped ==
    /\ installed \in BOOLEAN /\ installs \in 0..MaxInstalls
    /\ connected \in BOOLEAN /\ auto \in BOOLEAN
    /\ changes \in 0..MaxChanges /\ faults \in 0..MaxFaults
    /\ found \in [Handlers -> MaybeInterval]
    /\ redacts <= 1 + faults

Uninstalling == InPlace({"mark", "unschedule"})

(* The uninstalls that wait or are being handled are of as many            *)
(* installations that ended.                                               *)
Counted ==
    /\ IsFiniteSet(Uninstalling)
    /\ uninstalls + Cardinality(Uninstalling) + (IF installed THEN 1 ELSE 0) <= installs

LEMMA StepCountersTyped == ASSUME IInv, CountersTyped, [Next]_vars PROVE CountersTyped'
<1> USE DEF CountersTyped
<1>1. CASE UNCHANGED vars
  BY <1>1 DEF vars
<1>2. CASE Install \/ Uninstall \/ SendRedact
  <2>1. installed' \in BOOLEAN /\ UNCHANGED <<connected, auto, changes, faults, found>>
    BY <1>2 DEF Install, Uninstall, SendRedact
  <2>2. installs' \in 0..MaxInstalls /\ redacts' <= 1 + faults
    BY <1>2 DEF Install, Uninstall, SendRedact
  <2> QED
    BY <2>1, <2>2
<1>3. ASSUME NEW h \in Handlers,
             ExchangeToken(h) \/ SaveSettings(h) \/ TestConnection(h) \/ Sweep(h)
      PROVE CountersTyped'
  <2>1. CASE ExchangeToken(h) \/ SaveSettings(h)
    BY <2>1 DEF ExchangeToken, SaveSettings, Begin
  <2>2. CASE TestConnection(h) \/ Sweep(h)
    BY <2>2 DEF TestConnection, Sweep, Begin
  <2> QED
    BY <1>3, <2>1, <2>2
<1>4. ASSUME NEW h \in Handlers, ShopRedact(h) \/ AppUninstalled(h) PROVE CountersTyped'
  BY <1>4 DEF ShopRedact, AppUninstalled, Begin
<1>5. ASSUME NEW h \in Handlers,
             UpsertByDomain(h) \/ MarkUninstalled(h) \/ RemoveShopSchedule(h)
      PROVE CountersTyped'
  BY <1>5 DEF UpsertByDomain, MarkUninstalled, RemoveShopSchedule, Leave, LeaveOvertaking
<1>6. ASSUME NEW h \in Handlers, UpdateSettings(h) \/ RecordTestResult(h) PROVE CountersTyped'
  BY <1>6 DEF UpdateSettings, RecordTestResult
<1>7. ASSUME NEW h \in Handlers, Reconcile(h) PROVE CountersTyped'
  <2>1. CASE NeedsChange(h)
    <3>1. schedule[my[h]] \in MaybeInterval
      BY <2>1 DEF NeedsChange
    <3>2. found' \in [Handlers -> MaybeInterval]
      BY <2>1, <3>1 DEF NeedsChange
    <3> QED
      BY <2>1, <3>2 DEF NeedsChange
  <2>2. CASE ~NeedsChange(h)
    BY <1>7, <2>2 DEF Reconcile, ReadConfig, ShopIsGone, AlreadyCorrect,
       RemoveRepeatable, AddRepeatable, Leave, LeaveOvertaking
  <2> QED
    BY <2>1, <2>2
<1>8. ASSUME NEW h \in Handlers, Delete(h) PROVE CountersTyped'
  BY <1>8 DEF Delete, LeaveOvertaking
<1>9. ASSUME NEW h \in Handlers, Fail(h) PROVE CountersTyped'
  BY <1>9 DEF Fail, Leave, LeaveOvertaking
<1> QED
  BY <1>1, <1>2, <1>3, <1>4, <1>5, <1>6, <1>7, <1>8, <1>9 DEF Next, Handle

(* Who is at an uninstall, after a step of h that ends at a place. *)
LEMMA UninstallingMoves ==
  ASSUME IInv, NEW h \in Handlers, NEW p \in Places, at' = [at EXCEPT ![h] = p]
  PROVE  Uninstalling' = IF p \in {"mark", "unschedule"} THEN Uninstalling \cup {h}
                                                       ELSE Uninstalling \ {h}
  BY DEF Uninstalling, InPlace

LEMMA StepCounted == ASSUME IInv, CountersTyped, Counted, [Next]_vars PROVE Counted'
<1> USE DEF Counted, CountersTyped
<1> DEFINE count == Cardinality(Uninstalling)
<1>0. count \in Nat
  BY FS_CardinalityType
<1>a. ASSUME Uninstalling' = Uninstalling, UNCHANGED <<uninstalls, installed, installs>>
      PROVE Counted'
  BY <1>a
<1>b. ASSUME NEW h \in Handlers, at' = [at EXCEPT ![h] = "idle"],
             UNCHANGED <<installed, installs>>,
             uninstalls' = IF at[h] \in {"mark", "unschedule"} THEN uninstalls + 1 ELSE uninstalls
      PROVE Counted'
  <2>1. Uninstalling' = Uninstalling \ {h}
    BY <1>b, UninstallingMoves
  <2>2. CASE at[h] \in {"mark", "unschedule"}
    <3>1. h \in Uninstalling
      BY <2>2 DEF Uninstalling, InPlace
    <3>2. IsFiniteSet(Uninstalling') /\ Cardinality(Uninstalling') = count - 1
      BY <2>1, <3>1, FS_RemoveElement
    <3> QED
      BY <1>0, <1>b, <2>2, <3>2
  <2>3. CASE at[h] \notin {"mark", "unschedule"}
    BY <1>a, <1>b, <2>1, <2>3 DEF Uninstalling, InPlace
  <2> QED
    BY <2>2, <2>3
<1>1. CASE UNCHANGED vars
  BY <1>1, <1>a DEF vars, Uninstalling, InPlace
<1>2. CASE Install \/ Uninstall
  <2>1. Uninstalling' = Uninstalling /\ uninstalls \in Nat /\ installs \in Nat
    BY <1>2 DEF Install, Uninstall, Uninstalling, InPlace
  <2>2. CASE Install
    BY <1>0, <2>1, <2>2 DEF Install
  <2>3. CASE Uninstall
    BY <1>0, <2>1, <2>3 DEF Uninstall
  <2> QED
    BY <1>2, <2>2, <2>3
<1>3. CASE SendRedact
  BY <1>3, <1>a DEF SendRedact, Uninstalling, InPlace
<1>4. ASSUME NEW h \in Handlers, NEW p \in Places \ {"mark", "unschedule"},
             at' = [at EXCEPT ![h] = p], at[h] \notin {"mark", "unschedule"},
             UNCHANGED <<uninstalls, installed, installs>>
      PROVE Counted'
  <2>1. Uninstalling' = Uninstalling
    BY <1>4, UninstallingMoves DEF Uninstalling, InPlace
  <2> QED
    BY <1>a, <1>4, <2>1
<1>5. ASSUME NEW h \in Handlers,
             ExchangeToken(h) \/ SaveSettings(h) \/ TestConnection(h) \/ Sweep(h)
      PROVE Counted'
  BY <1>4, <1>5 DEF ExchangeToken, SaveSettings, TestConnection, Sweep, Begin
<1>6. ASSUME NEW h \in Handlers, UpsertByDomain(h) \/ Delete(h) PROVE Counted'
  BY <1>4, <1>6 DEF UpsertByDomain, Delete, LeaveOvertaking
<1>7. ASSUME NEW h \in Handlers, UpdateSettings(h) \/ RecordTestResult(h) \/ Reconcile(h)
      PROVE Counted'
  BY <1>4, <1>7 DEF UpdateSettings, RecordTestResult, Reconcile, ReadConfig, ShopIsGone,
     AlreadyCorrect, NeedsChange, RemoveRepeatable, AddRepeatable, Leave, LeaveOvertaking
<1>8. ASSUME NEW h \in Handlers, ShopRedact(h) PROVE Counted'
  <2>1. CASE Begin(h, "delete")
    BY <1>4, <1>8, <2>1 DEF ShopRedact, Begin
  <2>2. CASE UNCHANGED handlerVars
    BY <1>a, <1>8, <2>2 DEF ShopRedact, Uninstalling, InPlace
  <2> QED
    BY <1>8, <2>1, <2>2 DEF ShopRedact
<1>9. ASSUME NEW h \in Handlers, AppUninstalled(h) PROVE Counted'
  <2>1. uninstalls > 0 /\ uninstalls' = uninstalls - 1 /\ UNCHANGED <<installed, installs>>
    BY <1>9 DEF AppUninstalled
  <2>2. CASE Begin(h, "mark")
    <3>1. Uninstalling' = Uninstalling \cup {h} /\ h \notin Uninstalling
      BY <2>2, UninstallingMoves DEF Begin, Uninstalling, InPlace
    <3>2. IsFiniteSet(Uninstalling') /\ Cardinality(Uninstalling') = count + 1
      BY <3>1, FS_AddElement
    <3> QED
      BY <1>0, <2>1, <3>2
  <2>3. CASE UNCHANGED handlerVars
    <3>1. Uninstalling' = Uninstalling
      BY <2>3 DEF Uninstalling, InPlace
    <3> QED
      BY <1>0, <2>1, <3>1
  <2> QED
    BY <1>9, <2>2, <2>3 DEF AppUninstalled
<1>10. ASSUME NEW h \in Handlers, MarkUninstalled(h) PROVE Counted'
  <2>1. CASE shop = 0
    BY <1>10, <1>b, <2>1 DEF MarkUninstalled, Leave, LeaveOvertaking
  <2>2. CASE shop # 0
    <3>1. Uninstalling' = Uninstalling
      BY <1>10, <2>2, UninstallingMoves DEF MarkUninstalled, Uninstalling, InPlace
    <3> QED
      BY <1>10, <1>a, <2>2, <3>1 DEF MarkUninstalled
  <2> QED
    BY <2>1, <2>2
<1>11. ASSUME NEW h \in Handlers, RemoveShopSchedule(h) PROVE Counted'
  <2>1. Uninstalling' = Uninstalling \ {h} /\ h \in Uninstalling
    BY <1>11, UninstallingMoves DEF RemoveShopSchedule, LeaveOvertaking, Uninstalling, InPlace
  <2>2. IsFiniteSet(Uninstalling') /\ Cardinality(Uninstalling') = count - 1
    BY <2>1, FS_RemoveElement
  <2>3. UNCHANGED <<uninstalls, installed, installs>>
    BY <1>11 DEF RemoveShopSchedule
  <2> QED
    BY <1>0, <2>2, <2>3
<1>12. ASSUME NEW h \in Handlers, Fail(h) PROVE Counted'
  BY <1>12, <1>b DEF Fail, Leave, LeaveOvertaking
<1> QED
  BY <1>1, <1>2, <1>3, <1>5, <1>6, <1>7, <1>8, <1>9, <1>10, <1>11, <1>12 DEF Next, Handle

(* Every variable keeps its type; no more uninstalls wait than             *)
(* installations have ended, however often one is sent again.              *)
THEOREM TypeCorrect == Spec => []TypeOK
<1>1. IInv /\ CountersTyped /\ Counted => TypeOK
  <2> SUFFICES ASSUME IInv, CountersTyped, Counted PROVE TypeOK
    OBVIOUS
  <2>1. uninstalls \in 0..(MaxInstalls + MaxFaults)
    <3>1. Cardinality(Uninstalling) \in Nat
      BY FS_CardinalityType DEF Counted
    <3> QED
      BY <3>1 DEF Counted, CountersTyped
  <2>2. my \in [Handlers -> 0..MaxInstalls]
    OBVIOUS
  <2>3. redacts \in 0..(MaxInstalls + MaxFaults)
    BY DEF CountersTyped
  <2> QED
    BY <2>1, <2>2, <2>3 DEF TypeOK, CountersTyped
<1>2. Init => CountersTyped /\ Counted
  <2> SUFFICES ASSUME Init PROVE CountersTyped /\ Counted
    OBVIOUS
  <2>1. Uninstalling = {}
    BY DEF Init, Uninstalling, InPlace
  <2>2. CountersTyped
    <3>1. found \in [Handlers -> MaybeInterval]
      BY DEF Init
    <3>2. installed \in BOOLEAN /\ connected \in BOOLEAN /\ auto \in BOOLEAN
      BY Zenon DEF Init
    <3>3. /\ installs \in 0..MaxInstalls /\ changes \in 0..MaxChanges /\ faults \in 0..MaxFaults
          /\ redacts <= 1 + faults
      BY DEF Init
    <3> QED
      BY <3>1, <3>2, <3>3 DEF CountersTyped
  <2>3. IsFiniteSet(Uninstalling) /\ Cardinality(Uninstalling) = 0
    BY ONLY <2>1, FS_EmptySet
  <2>4. Counted
    BY <2>3 DEF Init, Counted
  <2> QED
    BY <2>2, <2>4
<1>3. IInv /\ IInv' /\ CountersTyped /\ Counted /\ [Next]_vars => CountersTyped' /\ Counted'
  BY StepCountersTyped, StepCounted
<1> QED
  BY <1>1, <1>2, <1>3, Invariant, PTL DEF Spec

=============================================================================
