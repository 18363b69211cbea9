------------------------------- MODULE Settings -------------------------------
(***************************************************************************)
(* A shop's Decathlon connection and sync configuration, and the pages     *)
(* that edit them at the same time: the setup wizard (Setup.tsx), the      *)
(* connection page (ConnectDecathlon.tsx) and the products page            *)
(* (Products.tsx), over DecathlonConnectionService and                     *)
(* SyncConfigurationService (apps/web).                                    *)
(*                                                                         *)
(* A form of the wizard shows its button as busy for as long as it stays   *)
(* on the screen: a merchant who goes back and returns may send it again,  *)
(* beside the first request.                                               *)
(* Leaving the wizard does not stop its requests, it only makes the page   *)
(* deaf to them.  The other two pages may be open several times.  The      *)
(* order-import schedule these requests reconcile is in ShopLifecycle, the *)
(* product jobs they queue in ProductQueue.                                *)
(***************************************************************************)
EXTENDS Naturals, Sequences

CONSTANTS
    ApiKeys,    \* what a merchant pastes
    Accepted,   \* those Decathlon accepts
    NoKey,
    MaxSlots,   \* bound: requests under way at a time
    MaxPosts,   \* bound: requests of the pages, and order imports
    MaxMishaps  \* bound: requests that fail, in the backend or on their way

ASSUME SettingsAssumption ==
    /\ Accepted \subseteq ApiKeys /\ NoKey \notin ApiKeys
    /\ MaxSlots \in Nat /\ MaxPosts \in Nat /\ MaxMishaps \in Nat

Scopes == {"ALL", "SELECTED"}
Slots == 1..MaxSlots
Steps == <<"connect", "business", "check", "golive">>
KeyForms == {"wizardKey", "pageKey"}
WizardForms == {"wizardKey", "business", "golive"}

VARIABLES
    connection,   \* DecathlonConnection: its key and status
    config,       \* SyncConfiguration
    wizard,       \* "closed", "stuck", or the step it shows
    status,       \* the connection status it has read
    loaded,       \* the row the connection page has read
    place,        \* where the request of each slot is
    body,         \* its form, and the key, verdict and row it carries
    asking,       \* requests whose form is on the screen and shows as busy
    deaf,         \* requests of the wizard whose page was left meanwhile
    unproven,     \* whether the status may be that of another key
    moved,        \* whether a test was recorded since the wizard read one
    ahead,        \* whether the wizard moved on while its key was in doubt
    edited,       \* whether another page wrote the settings meanwhile
    overwritten,  \* finishes whose choices a later finish has replaced
    posts,
    mishaps

stored == <<connection, config>>
screens == <<wizard, status>>
forms == <<place, body, asking, deaf>>
ghosts == <<unproven, moved, ahead, edited, overwritten>>
settingsVars == <<stored, screens, loaded, forms, ghosts, posts, mishaps>>

NewConfig == [email |-> FALSE, scope |-> "ALL", cursor |-> 0, completed |-> FALSE]
NoBody == [form |-> "none", key |-> NoKey, verdict |-> "FAILED", row |-> NewConfig]

(* A new shop, or one that got as far as a connection, or the e-mail too.  *)
SettingsInit ==
    /\ connection \in {[key |-> NoKey, status |-> "NOT_CONFIGURED"]}
                       \cup [key : Accepted, status : {"CONNECTED"}]
    /\ config \in {NewConfig, [NewConfig EXCEPT !.email = (connection.key # NoKey)]}
    /\ wizard = "closed" /\ status = "NOT_CONFIGURED" /\ loaded = config
    /\ place = [n \in Slots |-> "idle"]
    /\ body = [n \in Slots |-> NoBody]
    /\ asking = {} /\ deaf = {}
    /\ unproven = FALSE /\ moved = FALSE /\ ahead = FALSE /\ edited = FALSE
    /\ overwritten = {}
    /\ posts = 0 /\ mishaps = 0

Busy(n) == place[n] # "idle"
Of(f) == {n \in Slots : Busy(n) /\ body[n].form = f}
To(n, p) == place' = [place EXCEPT ![n] = p]

(* `saving` is state of the form: it is lost when another step replaces it. *)
Send(f, p, b) == \E n \in Slots :
    /\ \A q \in asking : body[q].form # f
    /\ ~Busy(n) /\ \A q \in Slots : q < n => Busy(q)
    /\ posts < MaxPosts
    /\ posts' = posts + 1
    /\ To(n, p)
    /\ body' = [body EXCEPT ![n] = [b EXCEPT !.form = f]]
    /\ asking' = IF f \in WizardForms THEN asking \cup {n} ELSE asking

End(n) ==
    /\ To(n, "idle")
    /\ body' = [body EXCEPT ![n] = NoBody]
    /\ deaf' = deaf \ {n} /\ overwritten' = overwritten \ {n}

Show(w) ==
    /\ wizard' = w
    /\ asking' = IF w = wizard THEN asking ELSE {}

-----------------------------------------------------------------------------
(* Saving a key, and testing it                                            *)

PostKey(f, k) ==
    /\ f = "wizardKey" => wizard = "connect"
    /\ Send(f, "upsert", [NoBody EXCEPT !.key = k])
    /\ UNCHANGED <<stored, screens, loaded, deaf, ghosts, mishaps>>

(* The row keeps the status of the key it held before. *)
UpsertConnection(n) ==
    /\ place[n] = "upsert"
    /\ connection' = [connection EXCEPT !.key = body[n].key]
    /\ To(n, "test")
    /\ UNCHANGED <<config, screens, loaded, body, asking, deaf, ghosts, posts, mishaps>>

(* testConnection reads the row again: it may hold another key by now.     *)
TestKey(n) ==
    /\ place[n] = "test"
    /\ \E verdict \in {"FAILED"} \cup (IF connection.key \in Accepted THEN {"CONNECTED"} ELSE {}) :
          body' = [body EXCEPT ![n].key = connection.key, ![n].verdict = verdict]
    /\ To(n, "record")
    /\ UNCHANGED <<stored, screens, loaded, asking, deaf, ghosts, posts, mishaps>>

(* Faulty variant: only a success is recorded. *)
RecordSuccess(n) ==
    /\ place[n] = "record"
    /\ connection' = [connection EXCEPT !.status =
                         IF body[n].verdict = "CONNECTED" THEN "CONNECTED" ELSE @]
    /\ unproven' = (body[n].key # connection.key)
    /\ moved' = TRUE
    /\ To(n, "tested")
    /\ UNCHANGED <<config, screens, loaded, body, asking, deaf, ahead, edited, overwritten, posts, mishaps>>

RecordTestResult(n) ==
    /\ place[n] = "record"
    /\ connection' = [connection EXCEPT !.status = body[n].verdict]
    /\ unproven' = (body[n].key # connection.key)
    /\ moved' = TRUE
    /\ To(n, "tested")
    /\ UNCHANGED <<config, screens, loaded, body, asking, deaf, ahead, edited, overwritten, posts, mishaps>>

(* onConnected: the wizard asks for the status. *)
ReadStatus(n) ==
    /\ place[n] = "tested" /\ body[n].form = "wizardKey" /\ n \notin deaf
    /\ body' = [body EXCEPT ![n].verdict = connection.status]
    /\ To(n, "read")
    /\ UNCHANGED <<stored, screens, loaded, asking, deaf, ghosts, posts, mishaps>>

(* What the wizard reads does not settle a finish already under way.       *)
Lasting(ghost) == ghost /\ Of("golive") # {}

StatusRead(n) ==
    /\ place[n] = "read"
    /\ IF n \in deaf THEN UNCHANGED <<status, moved>>
       ELSE /\ status' = body[n].verdict
            /\ moved' = (body[n].verdict # connection.status \/ Lasting(moved))
    /\ End(n) /\ asking' = asking \ {n}
    /\ UNCHANGED <<stored, wizard, loaded, unproven, ahead, edited, posts, mishaps>>

(* The connection page shows what it reads, which nothing goes by.         *)
KeySaved(n) ==
    /\ place[n] = "tested" /\ (body[n].form = "pageKey" \/ n \in deaf)
    /\ End(n)
    /\ UNCHANGED <<stored, screens, loaded, asking, unproven, moved, ahead, edited, posts, mishaps>>

-----------------------------------------------------------------------------
(* The wizard                                                              *)

(* "Resume where the merchant left off." *)
OpenWizard ==
    /\ wizard = "closed"
    /\ wizard' = CASE connection.status # "CONNECTED" -> "connect"
                   [] connection.status = "CONNECTED" /\ ~config.email -> "business"
                   [] OTHER -> "check"
    /\ status' = connection.status
    /\ moved' = Lasting(moved) /\ ahead' = Lasting(ahead) /\ edited' = Lasting(edited)
    /\ UNCHANGED <<stored, loaded, forms, unproven, overwritten, posts, mishaps>>

(* Without the configuration the wizard shows a skeleton for good. *)
OpenWizardFails ==
    /\ wizard = "closed" /\ mishaps < MaxMishaps
    /\ wizard' = "stuck" /\ mishaps' = mishaps + 1
    /\ UNCHANGED <<stored, status, loaded, forms, ghosts, posts>>

Close ==
    /\ wizard' = "closed" /\ status' = "NOT_CONFIGURED" /\ asking' = {}

LeaveWizard ==
    /\ wizard # "closed"
    /\ Close
    /\ deaf' = deaf \cup UNION {Of(f) : f \in WizardForms}
    /\ UNCHANGED <<stored, loaded, place, body, ghosts, posts, mishaps>>

InDoubt == status # "CONNECTED" \/ Of("wizardKey") \ deaf # {}

(* The Next button of the first step looks at the status last read, even   *)
(* while another key is being saved.                                       *)
NextFromConnect ==
    /\ wizard = "connect" /\ status = "CONNECTED"
    /\ Show("business")
    /\ ahead' = (InDoubt \/ Lasting(ahead))
    /\ UNCHANGED <<stored, status, loaded, place, body, deaf, unproven, moved, edited, overwritten, posts, mishaps>>

NextFromCheck ==
    /\ wizard = "check"
    /\ Show("golive")
    /\ UNCHANGED <<stored, status, loaded, place, body, deaf, ghosts, posts, mishaps>>

(* Back, and the steps done before: not disabled while a form is busy.     *)
GoBack == \E i, j \in 1..Len(Steps) :
    /\ wizard = Steps[i] /\ j < i
    /\ Show(Steps[j])
    /\ UNCHANGED <<stored, status, loaded, place, body, deaf, ghosts, posts, mishaps>>

PostBusiness ==
    /\ wizard = "business"
    /\ Send("business", "updateBusiness", [NoBody EXCEPT !.row.email = TRUE])
    /\ UNCHANGED <<stored, screens, loaded, deaf, ghosts, mishaps>>

SaveBusiness(n) ==
    /\ place[n] = "updateBusiness"
    /\ config' = [config EXCEPT !.email = TRUE]
    /\ edited' = Lasting(edited)
    /\ To(n, "saved")
    /\ UNCHANGED <<connection, screens, loaded, body, asking, deaf, unproven, moved, ahead, overwritten, posts, mishaps>>

(* onNext, whatever step the merchant has gone back to meanwhile.          *)
BusinessSaved(n) ==
    /\ place[n] = "saved"
    /\ IF n \in deaf
       THEN UNCHANGED <<wizard, ahead, asking>>
       ELSE /\ wizard' = "check" /\ ahead' = (ahead \/ InDoubt)
            /\ asking' = IF wizard = "check" THEN asking \ {n} ELSE {}
    /\ End(n)
    /\ UNCHANGED <<stored, status, loaded, unproven, moved, edited, posts, mishaps>>

PostChoices(sc) ==
    /\ wizard = "golive"
    /\ Send("golive", "updateChoices", [NoBody EXCEPT !.row.scope = sc])
    /\ UNCHANGED <<stored, screens, loaded, deaf, ghosts, mishaps>>

(* Faulty variant: a failed save does not stop the requests after it. *)
ChoicesNotSaved(n) ==
    /\ place[n] = "updateChoices"
    /\ To(n, "complete")
    /\ UNCHANGED <<stored, screens, loaded, body, asking, deaf, ghosts, posts, mishaps>>

(* handleFinish: three requests, each after the answer to the one before.  *)
SaveChoices(n) ==
    /\ place[n] = "updateChoices"
    /\ config' = [config EXCEPT !.scope = body[n].row.scope]
    /\ overwritten' = overwritten \cup {q \in Slots : place[q] \in {"syncNow", "complete"}}
    /\ \E next \in IF body[n].row.scope = "ALL" THEN {"syncNow", "complete"} ELSE {"complete"} :
          To(n, next)
    /\ UNCHANGED <<connection, screens, loaded, body, asking, deaf, unproven, moved, ahead, edited, posts, mishaps>>

SyncProductsNow(n) ==
    /\ place[n] = "syncNow"
    /\ To(n, "complete")
    /\ UNCHANGED <<stored, screens, loaded, body, asking, deaf, ghosts, posts, mishaps>>

CompleteSetup(n) ==
    /\ place[n] = "complete"
    /\ config' = [config EXCEPT !.completed = TRUE]
    /\ To(n, "finished")
    /\ UNCHANGED <<connection, screens, loaded, body, asking, deaf, ghosts, posts, mishaps>>

(* onFinished leads to another page, also from a wizard left long ago.     *)
Finished(n) ==
    /\ place[n] = "finished"
    /\ Close
    /\ To(n, "idle")
    /\ body' = [body EXCEPT ![n] = NoBody]
    /\ deaf' = (deaf \cup UNION {Of(f) : f \in WizardForms}) \ {n}
    /\ overwritten' = overwritten \ {n}
    /\ UNCHANGED <<stored, loaded, unproven, moved, ahead, edited, posts, mishaps>>

-----------------------------------------------------------------------------
(* The other two pages                                                     *)

LoadRow ==
    /\ posts < MaxPosts
    /\ loaded' = config
    /\ UNCHANGED <<stored, screens, forms, ghosts, posts, mishaps>>

(* The connection page posts back the whole row it loaded. *)
PostRow(email) ==
    /\ Send("row", "updateRow", [NoBody EXCEPT !.row = [loaded EXCEPT !.email = email]])
    /\ UNCHANGED <<stored, screens, loaded, deaf, ghosts, mishaps>>

(* Faulty variant: what the page posts is stored as it is.                 *)
WholeRow(row) == row

(* EDITABLE_FIELDS: "the only fields a settings save may write".           *)
Editable(row) == [config EXCEPT !.email = row.email, !.scope = row.scope]

(* The page takes over the answer, if it is still the one that asked.      *)
SaveRow(n) ==
    /\ place[n] = "updateRow"
    /\ config' = Editable(body[n].row)
    /\ loaded' \in {loaded, config'}
    /\ edited' = TRUE
    /\ End(n)
    /\ UNCHANGED <<connection, screens, asking, unproven, moved, ahead, posts, mishaps>>

(* The products page: one write, whenever it reaches the backend.          *)
ChangeScope(sc) ==
    /\ posts < MaxPosts
    /\ posts' = posts + 1
    /\ config' = [config EXCEPT !.scope = sc]
    /\ edited' = TRUE
    /\ UNCHANGED <<connection, screens, loaded, forms, unproven, moved, ahead, overwritten, mishaps>>

-----------------------------------------------------------------------------

(* The order import moves its cursor on: see OrderImport. *)
AdvanceCursor ==
    /\ posts < MaxPosts
    /\ posts' = posts + 1
    /\ config' = [config EXCEPT !.cursor = @ + 1]
    /\ UNCHANGED <<connection, screens, loaded, forms, ghosts, mishaps>>

(* A request ends before its next step, or its answer does not arrive: the *)
(* form shows an error, the wizard stays where it is.                      *)
RequestFails(n) ==
    /\ Busy(n) /\ mishaps < MaxMishaps
    /\ mishaps' = mishaps + 1
    /\ unproven' = (unproven \/ place[n] \in {"test", "record"})
    /\ End(n) /\ asking' = asking \ {n}
    /\ UNCHANGED <<stored, screens, loaded, moved, ahead, edited, posts>>

SettingsNext ==
    \/ \E f \in KeyForms, k \in ApiKeys : PostKey(f, k)
    \/ OpenWizard \/ OpenWizardFails \/ LeaveWizard
    \/ NextFromConnect \/ NextFromCheck \/ GoBack
    \/ PostBusiness
    \/ \E sc \in Scopes : PostChoices(sc) \/ ChangeScope(sc)
    \/ LoadRow \/ \E email \in BOOLEAN : PostRow(email)
    \/ AdvanceCursor
    \/ \E n \in Slots : \/ UpsertConnection(n) \/ TestKey(n) \/ RecordTestResult(n)
                        \/ ReadStatus(n) \/ StatusRead(n) \/ KeySaved(n)
                        \/ SaveBusiness(n) \/ BusinessSaved(n)
                        \/ SaveChoices(n) \/ SyncProductsNow(n)
                        \/ CompleteSetup(n) \/ Finished(n)
                        \/ SaveRow(n) \/ RequestFails(n)

SettingsSpec == SettingsInit /\ [][SettingsNext]_settingsVars

-----------------------------------------------------------------------------
(* Properties                                                              *)

(* A connection shown as CONNECTED holds a key Decathlon accepts, which is *)
(* what order import and product sync go by.  Saving a key keeps the old   *)
(* status until the test that follows, so this fails when that request     *)
(* ends in between, or two saves cross.                                    *)
ConnectedIsTrue ==
    /\ connection.status = "CONNECTED" /\ ~unproven
    /\ \A n \in Slots : place[n] \notin {"test", "record"}
    => connection.key \in Accepted

(* The wizard's order means something: a finish that marks the setup as    *)
(* completed does so with Decathlon connected, the manufacturer e-mail     *)
(* every product needs in place, and its own choices stored.  Exceptions:  *)
(* another page has written meanwhile, a test was recorded the wizard has  *)
(* not read, it moved on while a key was still being tested, or a second   *)
(* finish, sent after going back and forth, has stored other choices.      *)
SetupEndsReady == [][
    ~config.completed /\ config'.completed =>
        \E n \in Slots :
            /\ place[n] = "complete" /\ place'[n] = "finished"
            /\ connection.status = "CONNECTED" \/ moved \/ ahead
            /\ config.email \/ edited
            /\ config.scope = body[n].row.scope \/ edited \/ n \in overwritten]_settingsVars

(* "Passing that through unfiltered also rewrote internal state"           *)
(* (sync-configuration.service.ts:25-27): no settings save, however old    *)
(* the row it posts back, puts back the order-import cursor or sends the   *)
(* merchant through the setup again.                                       *)
InternalStateKept == [][
    /\ config'.cursor >= config.cursor
    /\ config.completed => config'.completed]_settingsVars
=============================================================================
