--------------------------- MODULE ShopLifecycle ---------------------------
(***************************************************************************)
(* A shop installs the app, connects to Decathlon, changes its settings,   *)
(* uninstalls and is erased, while the schedule of its order import is     *)
(* kept in step: OrderImportSchedulerService, the app-uninstalled and      *)
(* shop/redact webhooks, the settings and connection requests, and         *)
(* ShopRepository (apps/web/backend/src, packages/database/src).           *)
(*                                                                         *)
(* The backend handles requests concurrently: every call to the database   *)
(* or to Redis is a step.  A shop that comes back after it was erased is   *)
(* a new row with a new id, and the schedule is kept under the id.         *)
(***************************************************************************)
EXTENDS Naturals, FiniteSets

CONSTANTS
    Handlers,    \* requests and sweeps handled at the same time
    Intervals,   \* SyncConfiguration.orderImportIntervalMinutes
    None,        \* no schedule
    MaxInstalls, \* bound: installations
    MaxChanges,  \* bound: settings saved and connections tested
    MaxFaults    \* bound: requests that fail half way

ASSUME ShopAssumption ==
    /\ None \notin Intervals /\ Intervals # {}
    /\ MaxInstalls \in Nat \ {0} /\ MaxChanges \in Nat /\ MaxFaults \in Nat

Ids == 1..MaxInstalls

VARIABLES
    installed,    \* whether the app is installed, as Shopify knows
    installs,     \* installations so far
    uninstalls,   \* app/uninstalled webhooks not yet handled
    redacts,      \* shop/redact webhooks not yet handled
    shop,         \* the id of the Shop row of the domain (0: none)
    lastId,       \* the newest id given
    active,       \* Shop.isActive
    connected,    \* whether DecathlonConnection.status is CONNECTED
    auto,         \* SyncConfiguration.autoOrderImportEnabled
    every,        \* its orderImportIntervalMinutes
    schedule,     \* the repeatable order-import job of each id
    changes,      \* settings saved and connections tested so far
    at,           \* where each handler is
    my,           \* the shop id it works for
    want,         \* the interval it is to schedule
    found,        \* the schedule it has seen
    faults,       \* failures so far
    overtaken,    \* the handlers whose request another one has made stale
    orphans       \* the ids whose schedule such a request has left behind

shopifyVars == <<installed, installs, uninstalls, redacts>>
shopVars == <<shop, lastId, active>>
configVars == <<connected, auto, every, changes>>
handlerVars == <<at, my, want, found, overtaken>>
scheduleVars == <<schedule, orphans>>
vars == <<shopifyVars, shopVars, configVars, scheduleVars, handlerVars, faults>>

Places == {"idle", "upsert", "save", "test", "config", "jobs", "remove", "add", "mark",
           "unschedule", "delete"}
MaybeInterval == Intervals \cup {None}

TypeOK ==
    /\ installed \in BOOLEAN
    /\ installs \in 0..MaxInstalls
    /\ uninstalls \in 0..(MaxInstalls + MaxFaults)
    /\ redacts \in 0..(MaxInstalls + MaxFaults)
    /\ lastId \in 0..MaxInstalls
    /\ shop \in {0, lastId}
    /\ active \in BOOLEAN
    /\ connected \in BOOLEAN /\ auto \in BOOLEAN
    /\ every \in Intervals
    /\ schedule \in [Ids -> MaybeInterval]
    /\ changes \in 0..MaxChanges
    /\ at \in [Handlers -> Places]
    /\ my \in [Handlers -> 0..MaxInstalls]
    /\ want \in [Handlers -> MaybeInterval]
    /\ found \in [Handlers -> MaybeInterval]
    /\ faults \in 0..MaxFaults
    /\ overtaken \subseteq Handlers
    /\ orphans \subseteq Ids

Default == CHOOSE i \in Intervals : TRUE

Init ==
    /\ installed = FALSE /\ installs = 0 /\ uninstalls = 0 /\ redacts = 0
    /\ shop = 0 /\ lastId = 0 /\ active = FALSE
    /\ connected = FALSE /\ auto = TRUE /\ every = Default
    /\ schedule = [i \in Ids |-> None]
    /\ changes = 0
    /\ at = [h \in Handlers |-> "idle"]
    /\ my = [h \in Handlers |-> 0]
    /\ want = [h \in Handlers |-> None]
    /\ found = [h \in Handlers |-> None]
    /\ faults = 0
    /\ overtaken = {} /\ orphans = {}

Go(h, place) == at' = [at EXCEPT ![h] = place]

(* A handler is done, having made what the others rely on untrue. *)
LeaveOvertaking(h, others) ==
    /\ Go(h, "idle")
    /\ my' = [my EXCEPT ![h] = 0]
    /\ want' = [want EXCEPT ![h] = None]
    /\ found' = [found EXCEPT ![h] = None]
    /\ overtaken' = (overtaken \cup others) \ {h}

Leave(h) == LeaveOvertaking(h, {})

InPlace(places) == {h \in Handlers : at[h] \in places}
Scheduling == InPlace({"save", "test", "config", "jobs", "remove", "add"})

Begin(h, place) ==
    /\ at[h] = "idle"
    /\ Go(h, place)
    /\ my' = [my EXCEPT ![h] = shop]
    /\ UNCHANGED <<want, found, overtaken>>

Here == shop # 0 /\ active

-----------------------------------------------------------------------------
(* Shopify                                                                 *)

Install ==
    /\ ~installed /\ installs < MaxInstalls
    /\ installed' = TRUE /\ installs' = installs + 1
    /\ UNCHANGED <<uninstalls, redacts, shopVars, configVars, scheduleVars, handlerVars, faults>>

Uninstall ==
    /\ installed
    /\ installed' = FALSE /\ uninstalls' = uninstalls + 1
    /\ UNCHANGED <<installs, redacts, shopVars, configVars, scheduleVars, handlerVars, faults>>

(* 48 hours after an uninstall, when its webhook has long been handled. *)
SendRedact ==
    /\ redacts = 0 /\ installs > 0 /\ (~installed \/ installs > 1)
    /\ uninstalls = 0
    /\ \A h \in Handlers : at[h] \notin {"mark", "unschedule", "delete"}
    /\ redacts' = 1
    /\ UNCHANGED <<installed, installs, uninstalls, shopVars, configVars, scheduleVars,
                   handlerVars, faults>>

-----------------------------------------------------------------------------
(* Installing: the OAuth callback and the session of every page load       *)

ExchangeToken(h) ==
    /\ installed
    /\ Begin(h, "upsert")
    /\ UNCHANGED <<shopifyVars, shopVars, configVars, scheduleVars, faults>>

UpsertByDomain(h) ==
    /\ at[h] = "upsert"
    /\ IF shop = 0
       THEN lastId < MaxInstalls /\ lastId' = lastId + 1 /\ shop' = lastId + 1
       ELSE UNCHANGED <<lastId, shop>>
    /\ active' = TRUE
    /\ LeaveOvertaking(h, InPlace({"delete"}))
    /\ UNCHANGED <<shopifyVars, configVars, scheduleVars, faults>>

-----------------------------------------------------------------------------
(* Requests of the embedded app, and the sweep                             *)

(* SessionTokenGuard has let the request through. *)
SaveSettings(h) ==
    /\ Here /\ changes < MaxChanges
    /\ changes' = changes + 1
    /\ Begin(h, "save")
    /\ UNCHANGED <<shopifyVars, shopVars, connected, auto, every, scheduleVars, faults>>

UpdateSettings(h) ==
    /\ at[h] = "save" /\ my[h] = shop
    /\ auto' \in BOOLEAN /\ every' \in Intervals
    /\ Go(h, "config")
    /\ UNCHANGED <<shopifyVars, shopVars, connected, changes, scheduleVars, my, want, found, overtaken, faults>>

TestConnection(h) ==
    /\ Here /\ changes < MaxChanges
    /\ changes' = changes + 1
    /\ Begin(h, "test")
    /\ UNCHANGED <<shopifyVars, shopVars, connected, auto, every, scheduleVars, faults>>

RecordTestResult(h) ==
    /\ at[h] = "test" /\ my[h] = shop
    /\ connected' \in BOOLEAN
    /\ Go(h, "config")
    /\ UNCHANGED <<shopifyVars, shopVars, auto, every, changes, scheduleVars, my, want, found, overtaken, faults>>

(* reconcileAll, every five minutes, for the active shops. *)
Sweep(h) ==
    /\ Here
    /\ Begin(h, "config")
    /\ UNCHANGED <<shopifyVars, shopVars, configVars, scheduleVars, faults>>

-----------------------------------------------------------------------------
(* reconcileShop                                                           *)

Desired == IF auto /\ connected THEN every ELSE None

ReadConfig(h) ==
    /\ at[h] = "config" /\ my[h] = shop
    /\ want' = [want EXCEPT ![h] = Desired]
    /\ Go(h, "jobs")
    /\ UNCHANGED <<shopifyVars, shopVars, configVars, scheduleVars, my, found, overtaken, faults>>

(* The row was erased meanwhile: reading or writing what hangs on it fails. *)
ShopIsGone(h) ==
    /\ at[h] \in {"save", "test", "config"}
    /\ my[h] # shop
    /\ Leave(h)
    /\ UNCHANGED <<shopifyVars, shopVars, configVars, scheduleVars, faults>>

AlreadyCorrect(h) ==
    /\ at[h] = "jobs"
    /\ schedule[my[h]] = want[h]
    /\ Leave(h)
    /\ UNCHANGED <<shopifyVars, shopVars, configVars, scheduleVars, faults>>

(* Faulty variant: the interval of a schedule is not looked at. *)
WrongIfMissing(h) ==
    /\ at[h] = "jobs"
    /\ (schedule[my[h]] = None) # (want[h] = None)
    /\ found' = [found EXCEPT ![h] = schedule[my[h]]]
    /\ Go(h, IF schedule[my[h]] = None THEN "add" ELSE "remove")
    /\ UNCHANGED <<shopifyVars, shopVars, configVars, scheduleVars, my, want, overtaken, faults>>

NeedsChange(h) ==
    /\ at[h] = "jobs"
    /\ schedule[my[h]] # want[h]
    /\ found' = [found EXCEPT ![h] = schedule[my[h]]]
    /\ Go(h, IF schedule[my[h]] = None THEN "add" ELSE "remove")
    /\ UNCHANGED <<shopifyVars, shopVars, configVars, scheduleVars, my, want, overtaken, faults>>

RemoveRepeatable(h) ==
    /\ at[h] = "remove"
    /\ schedule' = [schedule EXCEPT ![my[h]] = None]
    /\ orphans' = orphans \ {my[h]}
    /\ IF want[h] = None THEN Leave(h) ELSE Go(h, "add") /\ UNCHANGED <<my, want, found, overtaken>>
    /\ UNCHANGED <<shopifyVars, shopVars, configVars, faults>>

AddRepeatable(h) ==
    /\ at[h] = "add"
    /\ schedule' = [schedule EXCEPT ![my[h]] = want[h]]
    /\ orphans' = IF h \in overtaken THEN orphans \cup {my[h]} ELSE orphans
    /\ Leave(h)
    /\ UNCHANGED <<shopifyVars, shopVars, configVars, faults>>

-----------------------------------------------------------------------------
(* Webhooks                                                                *)

AppUninstalled(h) ==
    /\ uninstalls > 0
    /\ uninstalls' = uninstalls - 1
    /\ IF shop = 0 THEN at[h] = "idle" /\ UNCHANGED handlerVars ELSE Begin(h, "mark")
    /\ UNCHANGED <<installed, installs, redacts, shopVars, configVars, scheduleVars, faults>>

(* By domain; a row erased meanwhile makes the request fail, to be sent again. *)
MarkUninstalled(h) ==
    /\ at[h] = "mark"
    /\ IF shop = 0
       THEN Leave(h) /\ uninstalls' = uninstalls + 1 /\ UNCHANGED active
       ELSE /\ active' = FALSE
            /\ Go(h, "unschedule")
            /\ UNCHANGED <<my, want, found, overtaken, uninstalls>>
    /\ UNCHANGED <<installed, installs, redacts, shop, lastId, configVars, scheduleVars, faults>>

(* Faulty variant: the schedule is left to the sweep. *)
LeaveSchedule(h) ==
    /\ at[h] = "unschedule"
    /\ Leave(h)
    /\ UNCHANGED <<shopifyVars, shopVars, configVars, scheduleVars, faults>>

(* The row looked up may have been erased, and a new one marked instead.   *)
Missed(h) == {i \in Ids : i = shop /\ i # my[h] /\ schedule[i] # None}

RemoveShopSchedule(h) ==
    /\ at[h] = "unschedule"
    /\ schedule' = [schedule EXCEPT ![my[h]] = None]
    /\ orphans' = (orphans \ {my[h]}) \cup Missed(h)
    /\ LeaveOvertaking(h, Scheduling)
    /\ UNCHANGED <<shopifyVars, shopVars, configVars, faults>>

(* A redact overtakes no uninstall webhook, the later one's included. *)
NoUninstallPending ==
    /\ uninstalls = 0
    /\ \A h \in Handlers : at[h] \notin {"mark", "unschedule"}

(* Faulty variant: whether the shop is active again is not asked. *)
RedactAny(h) ==
    /\ redacts > 0 /\ NoUninstallPending
    /\ redacts' = redacts - 1
    /\ IF shop = 0 THEN at[h] = "idle" /\ UNCHANGED handlerVars ELSE Begin(h, "delete")
    /\ UNCHANGED <<installed, installs, uninstalls, shopVars, configVars, scheduleVars, faults>>

(* eraseIfUninstalled looks at the row ... *)
ShopRedact(h) ==
    /\ redacts > 0 /\ NoUninstallPending
    /\ redacts' = redacts - 1
    /\ IF shop = 0 \/ active THEN at[h] = "idle" /\ UNCHANGED handlerVars ELSE Begin(h, "delete")
    /\ UNCHANGED <<installed, installs, uninstalls, shopVars, configVars, scheduleVars, faults>>

(* ... and deletes it by its id, with all that hangs on it. *)
Delete(h) ==
    /\ at[h] = "delete"
    /\ IF my[h] = shop
       THEN /\ shop' = 0 /\ active' = FALSE
            /\ connected' = FALSE /\ auto' = TRUE /\ every' = Default
       ELSE UNCHANGED <<shop, active, connected, auto, every>>
    /\ orphans' = IF my[h] = shop /\ h \in overtaken THEN orphans \cup {shop} ELSE orphans
    /\ LeaveOvertaking(h, Scheduling)
    /\ UNCHANGED <<shopifyVars, lastId, changes, schedule, faults>>

(* A request fails half way.  Shopify sends a webhook again. *)
Fail(h) ==
    /\ at[h] # "idle" /\ faults < MaxFaults
    /\ faults' = faults + 1
    /\ uninstalls' = IF at[h] \in {"mark", "unschedule"} THEN uninstalls + 1 ELSE uninstalls
    /\ redacts' = IF at[h] = "delete" THEN redacts + 1 ELSE redacts
    /\ Leave(h)
    /\ UNCHANGED <<installed, installs, shopVars, configVars, scheduleVars>>

-----------------------------------------------------------------------------
Reconcile(h) ==
    \/ ReadConfig(h)
    \/ ShopIsGone(h)
    \/ AlreadyCorrect(h)
    \/ NeedsChange(h)
    \/ RemoveRepeatable(h)
    \/ AddRepeatable(h)

Handle(h) ==
    \/ UpsertByDomain(h)
    \/ UpdateSettings(h)
    \/ RecordTestResult(h)
    \/ Reconcile(h)
    \/ AppUninstalled(h)
    \/ MarkUninstalled(h)
    \/ RemoveShopSchedule(h)
    \/ Delete(h)

Next ==
    \/ Install
    \/ Uninstall
    \/ SendRedact
    \/ \E h \in Handlers :
           Handle(h) \/ ExchangeToken(h) \/ SaveSettings(h) \/ TestConnection(h) \/ Sweep(h)
               \/ ShopRedact(h) \/ Fail(h)

Spec == Init /\ [][Next]_vars

(* A request that was begun is carried on, webhooks are delivered, and the *)
(* sweep gets its turn.                                                    *)
FairSpec == Spec /\ \A h \in Handlers : WF_vars(Handle(h)) /\ SF_vars(Sweep(h))

-----------------------------------------------------------------------------
(* Properties                                                              *)

Quiet == uninstalls = 0 /\ \A h \in Handlers : at[h] = "idle"

(* "APP_UNINSTALLED - clean up shop data / stop schedules"                 *)
(* (docs/architecture.md:261): once all is quiet, only an active shop has  *)
(* a schedule, but for one put back by a request that was under way when   *)
(* the uninstall or the redact was handled, one left by a redact that a    *)
(* reinstall overtook, or one of a row that replaced the row which the     *)
(* uninstall had looked up.                                                *)
GoneHasNoSchedule ==
    Quiet => \A i \in Ids : schedule[i] # None => (i = shop /\ active) \/ i \in orphans

(* "a merchant who reinstalled must not lose their live data to a late     *)
(* redact request" (shop.repository.ts:34): no active shop is erased,      *)
(* unless it became active after the redact had looked at it.              *)
LiveShopKept ==
    [][shop # 0 /\ shop' = 0 /\ active =>
           \E h \in overtaken : at[h] = "delete" /\ at'[h] = "idle"]_vars

(* "a safety net" (order-import-scheduler.service.ts:12): once the shop    *)
(* rests, its schedule is and stays the one its settings ask for.          *)
ScheduleSettles == <>[](Here => schedule[shop] = Desired)

=============================================================================
