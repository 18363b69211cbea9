------------------------------ MODULE Mappings ------------------------------
(***************************************************************************)
(* The Mappings page (apps/web/frontend/src/pages/Mappings.tsx), the       *)
(* handlers behind it (apps/web/backend/src/mappings/mappings.service.ts)  *)
(* and the rows they keep: category rules with their details, value        *)
(* mappings, and the product types written to Shopify.                     *)
(*                                                                         *)
(* A change reloads the section it was made in, and onChange ("bump")      *)
(* reloads all but the last.  Loads are read by the server, and their      *)
(* answers arrive, in any order.  The sections load independently of each  *)
(* other: a behaviour follows one of them, and presses any button of the   *)
(* others, which is more than those offer.  Whether a value is in          *)
(* Decathlon's reference data is left open: see CatalogCache.              *)
(***************************************************************************)
EXTENDS Naturals, Sequences, FiniteSets, SequencesExt

CONSTANTS
    Types,       \* Shopify product types
    Products,    \* active products
    Vendors,     \* values of the brand section (the colours work alike)
    SizeValues,  \* values of the size section
    OtherValues, \* values of the section "Other category attributes"
    Categories,
    Charts,      \* size charts (the genders of a type work alike)
    Codes,       \* Decathlon values
    Exact,       \* the code the importer finds for a vendor by name, if any
    VendorOf,    \* the vendor of each product
    Operations,  \* the buttons a merchant uses
    Requests,    \* requests that may overlap
    MaxChanges,  \* bound: changes a merchant asks for
    MaxFaults    \* bound: failed loads and lost answers

None == "none"
OptionName == "optionName"  \* SyncConfiguration.sizeOptionName, one more row
Keys == Vendors \cup SizeValues \cup OtherValues \cup {OptionName}
Refreshed == {"readiness", "untyped", "types", "brand", "size"}
Sections == Refreshed \cup {"values"}

ASSUME MappingsAssumption ==
    /\ None \notin Types \cup Categories \cup Charts \cup Codes
    /\ OptionName \notin Vendors \cup SizeValues \cup OtherValues
    /\ Exact \in [Vendors -> Codes \cup {None}]
    /\ VendorOf \in [Products -> Vendors]
    /\ Operations \subseteq {"category", "details", "clearCategory", "save",
                             "clear", "confirmAll", "setType"}
    /\ MaxChanges \in Nat /\ MaxFaults \in Nat

NoRule == [category |-> None, chart |-> None]
NoCall == [op |-> "none", of |-> None, to |-> None]

VARIABLES
    rule,      \* CategoryMapping of each type
    coded,     \* AttributeValueMapping of each value
    typed,     \* productType of each product in Shopify
    call,      \* what each request asks
    pc,        \* where its handler is
    todo,      \* what a handler with several writes has still to write
    wrote,     \* whether it has written anything
    since,     \* rows others wrote since confirm-all read them
    section,   \* the section followed
    shown,     \* what it shows
    asked,     \* its loads the server has not read the rows for yet
    answers,   \* its answers on their way, oldest first
    late,      \* whether it shows an answer older than one it had shown
    failed,    \* whether a load failed and none was read since
    behind,    \* whether no load has been read since the last change
    silent,    \* whether it was never told of such a change
    changes,
    faults

database == <<rule, coded, typed>>
handlers == <<call, pc, todo, wrote, since>>
loads == <<section, shown, asked, answers, late, failed>>
mappingVars == <<database, handlers, loads, behind, silent, changes, faults>>

SectionOf(c) ==
    CASE c.op \in {"category", "details", "clearCategory"} -> "types"
      [] c.op = "setType" -> "untyped"
      [] c.op = "confirmAll" \/ c.of \in Vendors -> "brand"
      [] c.of \in SizeValues \cup {OptionName} -> "size"
      [] OTHER -> "values"

(* saveOptionName and the section of other values do not call onChange.    *)
Announced(c) == SectionOf(c) # "values" /\ c.of # OptionName

(* load() in the section of the change, and onChange().                    *)
Reloads(c) ==
    (IF section = SectionOf(c) THEN 1 ELSE 0)
      + (IF section \in Refreshed /\ Announced(c) THEN 1 ELSE 0)

(* checkProduct: a category rule, its details, and a brand.                *)
Ready(p) ==
    /\ typed[p] # None
    /\ rule[typed[p]] # NoRule
    /\ coded[VendorOf[p]] # None \/ Exact[VendorOf[p]] # None

(* What an answer read now says: the rows a section is computed from.      *)
View(s) ==
    CASE s = "readiness" -> <<{p \in Products : Ready(p)}>>
      [] s = "untyped" -> <<{p \in Products : typed[p] = None}>>
      [] s = "types" -> <<rule, {typed[p] : p \in Products}>>
      [] s = "brand" -> <<[v \in Vendors |-> coded[v]]>>
      [] s = "size" -> <<[v \in SizeValues \cup {OptionName} |-> coded[v]],
                         [t \in Types |-> rule[t].chart]>>
      [] s = "values" -> <<[v \in OtherValues |-> coded[v]]>>
Empty == <<>>

MappingsInit ==
    /\ rule = [t \in Types |-> NoRule]
    /\ coded = [k \in Keys |-> None]
    /\ typed \in [Products -> Types \cup {None}]
    /\ call = [r \in Requests |-> NoCall]
    /\ pc = [r \in Requests |-> "free"]
    /\ todo = [r \in Requests |-> {}]
    /\ wrote = [r \in Requests |-> FALSE]
    /\ since = [r \in Requests |-> {}]
    /\ section \in Sections
    /\ shown = View(section)
    /\ asked = 0 /\ answers = <<>>
    /\ late = FALSE /\ failed = FALSE /\ behind = FALSE /\ silent = FALSE
    /\ changes = 0 /\ faults = 0

-----------------------------------------------------------------------------
(* The page asks                                                           *)

(* Where the handler of a call starts.  Size and other values are not      *)
(* validated, nor is what a "details" call clears.                         *)
Start(c) ==
    CASE c.op = "details" -> "find"
      [] c.op = "confirmAll" -> "rows"
      [] c.op = "setType" -> "each"
      [] OTHER -> "write"

Post(c, ids) == \E r \in Requests :
    /\ pc[r] = "free" /\ changes < MaxChanges
    /\ c.op \in Operations
    /\ call' = [call EXCEPT ![r] = c]
    /\ pc' = [pc EXCEPT ![r] = Start(c)]
    /\ todo' = [todo EXCEPT ![r] = ids]
    /\ changes' = changes + 1
    /\ UNCHANGED <<database, wrote, since, loads, behind, silent, faults>>

Pick(t, c) == Post([op |-> "category", of |-> t, to |-> c], {})
PickDetails(t, d) == Post([op |-> "details", of |-> t, to |-> d], {})
ClearCategory(t) == Post([op |-> "clearCategory", of |-> t, to |-> None], {})
PickCode(k, c) == Post([op |-> "save", of |-> k, to |-> c], {})
ClearCode(k) == k # OptionName /\ Post([op |-> "clear", of |-> k, to |-> None], {})
ConfirmAll == Post([op |-> "confirmAll", of |-> None, to |-> None], {})
SetType(ids, t) == ids # {} /\ Post([op |-> "setType", of |-> None, to |-> t], ids)

-----------------------------------------------------------------------------
(* The handlers                                                            *)

At(r, place, op) == pc[r] = place /\ call[r].op = op
Goto(r, place) == pc' = [pc EXCEPT ![r] = place]

(* A write to the rows: whatever the sections show was read before it.     *)
Changed(r) ==
    /\ wrote' = [wrote EXCEPT ![r] = TRUE]
    /\ behind' = TRUE
    /\ silent' = (silent \/ Reloads(call[r]) = 0)
    /\ UNCHANGED <<call, loads, changes, faults>>

(* The value is not in Decathlon's list, or the list is not to be had.     *)
Refuse(r) ==
    /\ pc[r] = "write" /\ \/ call[r].op = "category"
                          \/ call[r].op = "details" /\ call[r].to # None
                          \/ call[r].op = "save" /\ call[r].of \in Vendors
    /\ Goto(r, "refused")
    /\ UNCHANGED <<database, call, todo, wrote, since, loads, behind, silent, changes, faults>>

(* saveCategoryMapping: the upsert leaves the details of the type alone.   *)
SaveCategory(r) ==
    /\ At(r, "write", "category")
    /\ rule' = [rule EXCEPT ![call[r].of].category = call[r].to]
    /\ Goto(r, "ok") /\ Changed(r)
    /\ UNCHANGED <<coded, typed, todo, since>>

(* saveTypeDetails looks for the rule, validates, and updates: the rule    *)
(* may have gone, or be another one, by then.                              *)
FindRule(r) ==
    /\ At(r, "find", "details")
    /\ Goto(r, IF rule[call[r].of] = NoRule THEN "refused" ELSE "write")
    /\ UNCHANGED <<database, call, todo, wrote, since, loads, behind, silent, changes, faults>>

SaveDetails(r) ==
    /\ At(r, "write", "details") /\ rule[call[r].of] # NoRule
    /\ rule' = [rule EXCEPT ![call[r].of].chart = call[r].to]
    /\ Goto(r, "ok") /\ Changed(r)
    /\ UNCHANGED <<coded, typed, todo, since>>

RuleGone(r) ==
    /\ At(r, "write", "details") /\ rule[call[r].of] = NoRule
    /\ Goto(r, "refused")
    /\ UNCHANGED <<database, call, todo, wrote, since, loads, behind, silent, changes, faults>>

DeleteCategory(r) ==
    /\ At(r, "write", "clearCategory")
    /\ rule' = [rule EXCEPT ![call[r].of] = NoRule]
    /\ Goto(r, "ok") /\ Changed(r)
    /\ UNCHANGED <<coded, typed, todo, since>>

PutRow(r, k, c) ==
    /\ coded' = [coded EXCEPT ![k] = c]
    /\ since' = [q \in Requests |->
                    IF q # r /\ call[q].op = "confirmAll" THEN since[q] \cup {k} ELSE since[q]]

(* saveKindMapping, saveValueMapping, saveOptionName; the two deletes.     *)
SaveCode(r) ==
    /\ At(r, "write", "save") \/ At(r, "write", "clear")
    /\ PutRow(r, call[r].of, call[r].to)
    /\ Goto(r, "ok") /\ Changed(r)
    /\ UNCHANGED <<rule, typed, todo>>

(* Faulty variant: values that are mapped are not skipped.                 *)
AllExact == {v \in Vendors : Exact[v] # None}

(* confirmAllExact reads the rows, then saves each exact suggestion as     *)
(* saveKindMapping would: the first that is refused ends it.               *)
Unconfirmed == {v \in Vendors : coded[v] = None /\ Exact[v] # None}

ReadRows(r) ==
    /\ pc[r] = "rows"
    /\ todo' = [todo EXCEPT ![r] = Unconfirmed]
    /\ since' = [since EXCEPT ![r] = {}]
    /\ Goto(r, "confirm")
    /\ UNCHANGED <<database, call, wrote, loads, behind, silent, changes, faults>>

ConfirmRow(r, v) ==
    /\ pc[r] = "confirm" /\ v \in todo[r]
    /\ PutRow(r, v, Exact[v])
    /\ todo' = [todo EXCEPT ![r] = @ \ {v}]
    /\ Changed(r)
    /\ UNCHANGED <<rule, typed, pc>>

ConfirmStops(r) ==
    /\ pc[r] = "confirm" /\ todo[r] # {}
    /\ Goto(r, "refused")
    /\ UNCHANGED <<database, call, todo, wrote, since, loads, behind, silent, changes, faults>>

(* setProductType: each product is updated, or counted as failed.          *)
SetOneType(r, p) ==
    /\ pc[r] = "each" /\ p \in todo[r]
    /\ todo' = [todo EXCEPT ![r] = @ \ {p}]
    /\ \/ /\ typed' = [typed EXCEPT ![p] = call[r].to]
          /\ Changed(r)
       \/ UNCHANGED <<typed, call, wrote, loads, behind, silent, changes, faults>>
    /\ UNCHANGED <<rule, coded, pc, since>>

AllWritten(r) ==
    /\ pc[r] \in {"confirm", "each"} /\ todo[r] = {}
    /\ Goto(r, "ok")
    /\ UNCHANGED <<database, call, todo, wrote, since, loads, behind, silent, changes, faults>>

-----------------------------------------------------------------------------
(* The page hears                                                          *)

Free(r) ==
    /\ call' = [call EXCEPT ![r] = NoCall]
    /\ pc' = [pc EXCEPT ![r] = "free"]
    /\ todo' = [todo EXCEPT ![r] = {}]
    /\ wrote' = [wrote EXCEPT ![r] = FALSE]
    /\ since' = [since EXCEPT ![r] = {}]
    /\ UNCHANGED <<database, section, shown, answers, late, failed, behind, changes>>

(* Faulty variant: the other sections are not told of the change.          *)
DoneUnannounced(r) ==
    /\ pc[r] = "ok"
    /\ asked' = asked + (IF section = SectionOf(call[r]) THEN 1 ELSE 0)
    /\ Free(r)
    /\ UNCHANGED <<silent, faults>>

Done(r) ==
    /\ pc[r] = "ok"
    /\ asked' = asked + Reloads(call[r])
    /\ Free(r)
    /\ UNCHANGED <<silent, faults>>

(* The section shows an error and loads nothing, whatever was written.     *)
Refused(r) ==
    /\ pc[r] = "refused"
    /\ silent' = (silent \/ (wrote[r] /\ behind))
    /\ Free(r)
    /\ UNCHANGED <<asked, faults>>

AnswerLost(r) ==
    /\ pc[r] \in {"ok", "refused"} /\ faults < MaxFaults
    /\ silent' = (silent \/ (wrote[r] /\ behind))
    /\ faults' = faults + 1
    /\ Free(r)
    /\ UNCHANGED asked

ReadRowsFor ==
    /\ asked > 0
    /\ asked' = asked - 1
    /\ answers' = Append(answers, [view |-> View(section), old |-> FALSE])
    /\ behind' = FALSE /\ silent' = FALSE /\ failed' = FALSE
    /\ UNCHANGED <<database, handlers, section, shown, late, changes, faults>>

(* A load shows its answer whenever it comes. *)
ShowAnswer == \E i \in 1..Len(answers) :
    /\ shown' = answers[i].view
    /\ late' = answers[i].old
    /\ answers' = RemoveAt([n \in 1..Len(answers) |->
                               [answers[n] EXCEPT !.old = @ \/ n < i]], i)
    /\ UNCHANGED <<database, handlers, section, asked, failed, behind, silent, changes, faults>>

(* The readiness check and the other values keep what they show.           *)
LoadFails ==
    /\ asked > 0 /\ faults < MaxFaults
    /\ asked' = asked - 1
    /\ shown' = IF section \in {"readiness", "values"} THEN shown ELSE Empty
    /\ failed' = TRUE
    /\ faults' = faults + 1
    /\ UNCHANGED <<database, handlers, section, answers, late, behind, silent, changes>>

Ask ==
    \/ \E t \in Types : \/ \E c \in Categories : Pick(t, c)
                        \/ \E d \in Charts \cup {None} : PickDetails(t, d)
                        \/ ClearCategory(t)
                        \/ \E ids \in SUBSET Products : SetType(ids, t)
    \/ \E k \in Keys : (\E c \in Codes : PickCode(k, c)) \/ ClearCode(k)
    \/ ConfirmAll

Handle(r) ==
    \/ SaveCategory(r) \/ FindRule(r) \/ SaveDetails(r) \/ RuleGone(r)
    \/ DeleteCategory(r) \/ SaveCode(r) \/ Refuse(r)
    \/ ReadRows(r) \/ (\E v \in Vendors : ConfirmRow(r, v)) \/ ConfirmStops(r)
    \/ (\E p \in Products : SetOneType(r, p)) \/ AllWritten(r)

Hear ==
    \/ \E r \in Requests : Done(r) \/ Refused(r) \/ AnswerLost(r)
    \/ ReadRowsFor \/ ShowAnswer \/ LoadFails

MappingsNext == Ask \/ (\E r \in Requests : Handle(r)) \/ Hear

(* The server finishes what it is asked, and answers reach the page.       *)
MappingsFairness ==
    /\ \A r \in Requests : WF_mappingVars(Handle(r)) /\ WF_mappingVars(Done(r) \/ Refused(r))
    /\ WF_mappingVars(ReadRowsFor) /\ WF_mappingVars(ShowAnswer)

MappingsSpec == MappingsInit /\ [][MappingsNext]_mappingVars /\ MappingsFairness

-----------------------------------------------------------------------------
(* Properties                                                              *)

Settled ==
    /\ asked = 0 /\ answers = <<>>
    /\ \A r \in Requests : wrote[r] => Reloads(call[r]) = 0

(* Every change reaches every section: once no change and no load is under *)
(* way, a section shows the rows as they are, unless an older answer       *)
(* overtook a newer one, its load failed, or it was not told of the change.*)
(* "Any mapping change ... refreshes the other sections"                   *)
(* (Mappings.tsx:1010) is true but for these.                              *)
StaleHasCause == Settled /\ shown # View(section) => late \/ failed \/ silent

(* "Any mapping change re-runs the readiness check": after a change the    *)
(* server reads the rows for the readiness section again, unless the page  *)
(* was not told of the change or the load failed.                          *)
Rechecked == section = "readiness" /\ behind ~> ~behind \/ silent \/ failed

(* "Confirm all" saves what "isn't mapped yet" (mappings.service.ts:407):  *)
(* it replaces a merchant's own choice only when that was made after it    *)
(* read the rows.                                                          *)
ConfirmKeepsChoices == [][\A r \in Requests, v \in Vendors :
    ConfirmRow(r, v) /\ coded[v] \notin {None, Exact[v]} => v \in since[r]]_mappingVars
=============================================================================
