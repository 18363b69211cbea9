---------------------------- MODULE CatalogCache ----------------------------
(***************************************************************************)
(* One list of Decathlon's reference data in a shop's CatalogCache         *)
(* (packages/sync/src/catalog-cache.ts), read by mapping requests, the     *)
(* readiness check and the sync engine at the same time.                   *)
(*                                                                         *)
(* warm looks for a copy younger than an hour; else it fetches the list,   *)
(* stores it and returns it; a failed fetch falls back on a copy of any    *)
(* age.  Decathlon publishes editions 1, 2, ...; 0 is no copy, and the     *)
(* empty list.  The parsers take an answer without the list they look for  *)
(* as an empty list (attributes.ts:31, 56, 106), which is no failure: it   *)
(* is stored like any other.                                               *)
(***************************************************************************)
EXTENDS Naturals

CONSTANTS
    Readers,      \* callers of warm that may overlap
    MaxEditions   \* bound: editions Decathlon publishes

ASSUME CatalogAssumption == MaxEditions \in Nat \ {0}

VARIABLES
    edition,   \* the edition Decathlon publishes
    copy,      \* the edition of the row of DecathlonCatalogReference
    young,     \* whether the row was written less than an hour ago
    step,      \* where each reader is
    fetched,   \* what it fetched
    served,    \* what it returns
    held,      \* the copy there was when it asked
    overtaken, \* readers during whose wait an older copy was stored
    misled     \* readers whose own answer was read as an empty list, or
               \* during whose wait one was stored

catalogVars == <<edition, copy, young, step, fetched, served, held, overtaken, misled>>

CatalogInit ==
    /\ edition = 1
    /\ copy \in {0, 1} /\ young \in BOOLEAN
    /\ step = [r \in Readers |-> "idle"]
    /\ fetched = [r \in Readers |-> 0]
    /\ served = [r \in Readers |-> 0]
    /\ held = [r \in Readers |-> 0]
    /\ overtaken = {} /\ misled = {}

Publish ==
    /\ edition < MaxEditions
    /\ edition' = edition + 1
    /\ UNCHANGED <<copy, young, step, fetched, served, held, overtaken, misled>>

HourPasses ==
    /\ young
    /\ young' = FALSE
    /\ UNCHANGED <<edition, copy, step, fetched, served, held, overtaken, misled>>

Return(r, e) ==
    /\ served' = [served EXCEPT ![r] = e]
    /\ step' = [step EXCEPT ![r] = "returned"]

Waiting == {"fetch", "store", "stale"}

FindFresh(r) ==
    /\ step[r] = "idle"
    /\ held' = [held EXCEPT ![r] = copy]
    /\ IF young
       THEN Return(r, copy)
       ELSE step' = [step EXCEPT ![r] = "fetch"] /\ UNCHANGED served
    /\ UNCHANGED <<edition, copy, young, fetched, overtaken, misled>>

(* The list as published, or an answer of another shape read as no entries. *)
Fetch(r) ==
    /\ step[r] = "fetch"
    /\ \E e \in {edition, 0} :
          /\ fetched' = [fetched EXCEPT ![r] = e]
          /\ misled' = IF e = 0 THEN misled \cup {r} ELSE misled
    /\ step' = [step EXCEPT ![r] = "store"]
    /\ UNCHANGED <<edition, copy, young, served, held, overtaken>>

WaitingReaders == {q \in Readers : step[q] \in Waiting}

(* The row is upserted whatever it holds by now; its hour starts anew.     *)
Upsert(r) ==
    /\ step[r] = "store"
    /\ copy' = fetched[r] /\ young' = TRUE
    /\ overtaken' = IF fetched[r] < copy
                    THEN overtaken \cup WaitingReaders ELSE overtaken
    /\ misled' = IF fetched[r] = 0 THEN misled \cup WaitingReaders ELSE misled
    /\ Return(r, fetched[r])
    /\ UNCHANGED <<edition, fetched, held>>

(* No answer, an error status, one that is no JSON, or the row is not written. *)
WarmFails(r) ==
    /\ step[r] \in {"fetch", "store"}
    /\ step' = [step EXCEPT ![r] = "stale"]
    /\ UNCHANGED <<edition, copy, young, fetched, served, held, overtaken, misled>>

(* Faulty variant: a failed fetch is an empty list.                        *)
ReturnNothing(r) ==
    /\ step[r] = "stale"
    /\ Return(r, 0)
    /\ UNCHANGED <<edition, copy, young, fetched, held, overtaken, misled>>

FindStale(r) ==
    /\ step[r] = "stale"
    /\ Return(r, copy)
    /\ UNCHANGED <<edition, copy, young, fetched, held, overtaken, misled>>

AskAgain(r) ==
    /\ step[r] = "returned"
    /\ step' = [step EXCEPT ![r] = "idle"]
    /\ fetched' = [fetched EXCEPT ![r] = 0]
    /\ served' = [served EXCEPT ![r] = 0]
    /\ held' = [held EXCEPT ![r] = 0]
    /\ overtaken' = overtaken \ {r} /\ misled' = misled \ {r}
    /\ UNCHANGED <<edition, copy, young>>

CatalogNext ==
    \/ Publish \/ HourPasses
    \/ \E r \in Readers : \/ FindFresh(r) \/ Fetch(r) \/ Upsert(r)
                          \/ WarmFails(r) \/ FindStale(r) \/ AskAgain(r)

CatalogSpec == CatalogInit /\ [][CatalogNext]_catalogVars

-----------------------------------------------------------------------------
(* Properties                                                              *)

(* "Every warm falls back to stale cache on a fetch failure"               *)
(* (catalog-cache.ts:22): once the shop holds a copy no caller is given an *)
(* empty list, which "would make every attribute look unmappable", unless  *)
(* an answer without a list was read as an empty one (attributes.ts:31) by *)
(* it or while it waited; nor anything older than the copy it could have   *)
(* had, unless a slower fetch put an older edition in its place.           *)
ServedIsNoOlder == \A r \in Readers : step[r] = "returned" =>
    /\ held[r] # 0 => served[r] # 0 \/ r \in misled
    /\ served[r] >= held[r] \/ r \in overtaken \cup misled
=============================================================================
