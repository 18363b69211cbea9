----------------------------- MODULE ReturnsSync -----------------------------
(***************************************************************************)
(* Mirroring Decathlon returns: OrderLifecycleSync.syncReturns and         *)
(* applyReturn (packages/sync/src/order-lifecycle.ts) with                 *)
(* ReturnMappingRepository.  The sync rides along with every order-import  *)
(* job, one at a time; what it throws is logged and dropped, and the next  *)
(* job starts over.                                                        *)
(*                                                                         *)
(* Returns are numbered by date of creation; the states of a return are    *)
(* numbered in the order it goes through them.                             *)
(***************************************************************************)
EXTENDS Naturals, FiniteSets, SequencesExt

CONSTANTS
    Returns,     \* returns customers may open
    Terminal,    \* the terminal state; 0 is a return that is not open yet
    Orders,      \* Decathlon orders
    OrderOf,     \* the order of a return
    Bare,        \* orders whose OrderMapping has no commercial id
    NewestLimit, \* returns on the page RT11 is asked for
    OpenLimit,   \* open returns checked again in one run
    MaxFaults    \* bound: calls that fail, processes that die

ASSUME ReturnsAssumption ==
    /\ IsFiniteSet(Returns) /\ Returns \subseteq Nat
    /\ Terminal \in Nat \ {0}
    /\ OrderOf \in [Returns -> Orders] /\ Bare \subseteq Orders
    /\ NewestLimit \in Nat \ {0} /\ OpenLimit \in Nat \ {0} /\ MaxFaults \in Nat

VARIABLES
    actual,   \* the state of each return at Decathlon
    imported, \* orders that have an OrderMapping
    mirror,   \* ReturnMapping.status (0: no row)
    touched,  \* the returns that have a row, by updatedAt
    tags,     \* states tagged on the Shopify order
    at,       \* where the run is in syncReturns
    opens,    \* open returns it has still to check again
    seen,     \* the state it was told of each return (0: not told)
    todo,     \* the returns it has still to apply
    previous, \* the status of the row it found
    hit,      \* history: returns a failure hit between row and tag
    faults    \* failures so far

sourceVars == <<actual, imported>>
mirrorVars == <<mirror, touched>>
syncVars == <<at, opens, seen, todo, previous>>
returnsVars == <<sourceVars, mirrorVars, tags, syncVars, hit, faults>>

States == 0..Terminal
ReturnsPlaces == {"idle", "newest", "open", "recheck", "apply", "upsert", "tag"}

ReturnsTypeOK ==
    /\ actual \in [Returns -> States]
    /\ imported \subseteq Orders
    /\ mirror \in [Returns -> States]
    /\ ToSet(touched) = {r \in Returns : mirror[r] # 0} /\ IsInjective(touched)
    /\ tags \in [Orders -> SUBSET States]
    /\ at \in ReturnsPlaces
    /\ ToSet(opens) \subseteq Returns
    /\ seen \in [Returns -> States]
    /\ ToSet(todo) \subseteq {r \in Returns : seen[r] # 0}
    /\ previous \in States
    /\ hit \subseteq Returns
    /\ faults \in 0..MaxFaults

Nothing == [r \in Returns |-> 0]

ReturnsInit ==
    /\ actual = Nothing
    /\ imported = {}
    /\ mirror = Nothing /\ touched = <<>>
    /\ tags = [o \in Orders |-> {}]
    /\ at = "idle" /\ opens = <<>> /\ seen = Nothing /\ todo = <<>> /\ previous = 0
    /\ hit = {} /\ faults = 0

-----------------------------------------------------------------------------
(* Decathlon and the order import                                          *)

(* A customer opens a return, or it moves on. *)
Move(r) ==
    /\ actual[r] < Terminal
    /\ \A q \in Returns : q < r => actual[q] # 0
    /\ actual' = [actual EXCEPT ![r] = @ + 1]
    /\ UNCHANGED <<imported, mirrorVars, tags, syncVars, hit, faults>>

ImportOrder(o) ==
    /\ o \notin imported
    /\ imported' = imported \cup {o}
    /\ UNCHANGED <<actual, mirrorVars, tags, syncVars, hit, faults>>

-----------------------------------------------------------------------------
(* syncReturns                                                             *)

First(s, n) == SubSeq(s, 1, Min({n, Len(s)}))

RestOf(place) == at' = IF todo' = <<>> THEN "idle" ELSE place

Begin ==
    /\ at = "idle"
    /\ at' = "newest"
    /\ seen' = Nothing /\ opens' = <<>> /\ todo' = <<>> /\ previous' = 0
    /\ UNCHANGED <<sourceVars, mirrorVars, tags, hit, faults>>

(* RT11, newest first: one page. *)
ListNewest ==
    /\ at = "newest"
    /\ todo' = First(SetToSortSeq({r \in Returns : actual[r] # 0}, >), NewestLimit)
    /\ seen' = [r \in Returns |-> IF r \in ToSet(todo') THEN actual[r] ELSE 0]
    /\ at' = "open"
    /\ UNCHANGED <<sourceVars, mirrorVars, tags, opens, previous, hit, faults>>

(* listOpen: the rows not in a terminal state, least recently touched first. *)
ListOpen ==
    /\ at = "open"
    /\ opens' = First(SelectSeq(touched, LAMBDA r : mirror[r] # Terminal), OpenLimit)
    /\ at' = "recheck"
    /\ UNCHANGED <<sourceVars, mirrorVars, tags, seen, todo, previous, hit, faults>>

(* RT11 by commercial id: every return of the order. *)
Recheck ==
    /\ at = "recheck" /\ opens # <<>>
    /\ seen[Head(opens)] = 0 /\ OrderOf[Head(opens)] \notin Bare
    /\ LET told == {r \in Returns : actual[r] # 0 /\ OrderOf[r] = OrderOf[Head(opens)]} IN
       /\ seen' = [r \in Returns |-> IF r \in told THEN actual[r] ELSE seen[r]]
       /\ todo' = todo \o SetToSortSeq(told \ ToSet(todo), <)
    /\ opens' = Tail(opens)
    /\ UNCHANGED <<sourceVars, mirrorVars, tags, at, previous, hit, faults>>

NoNeedToRecheck ==
    /\ at = "recheck" /\ opens # <<>>
    /\ seen[Head(opens)] # 0 \/ OrderOf[Head(opens)] \in Bare
    /\ opens' = Tail(opens)
    /\ UNCHANGED <<sourceVars, mirrorVars, tags, at, seen, todo, previous, hit, faults>>

Rechecked ==
    /\ at = "recheck" /\ opens = <<>>
    /\ todo' = todo
    /\ RestOf("apply")
    /\ UNCHANGED <<sourceVars, mirrorVars, tags, opens, seen, previous, hit, faults>>

-----------------------------------------------------------------------------
(* applyReturn                                                             *)

Order == OrderOf[Head(todo)]

NextReturn ==
    /\ todo' = Tail(todo)
    /\ RestOf("apply")
    /\ previous' = 0
    /\ UNCHANGED <<opens, seen>>

(* A return on an order this app did not import. *)
NotOurs ==
    /\ at = "apply" /\ Order \notin imported
    /\ NextReturn
    /\ UNCHANGED <<sourceVars, mirrorVars, tags, hit, faults>>

FindPrevious ==
    /\ at = "apply" /\ Order \in imported
    /\ previous' = mirror[Head(todo)]
    /\ at' = "upsert"
    /\ UNCHANGED <<sourceVars, mirrorVars, tags, opens, seen, todo, hit, faults>>

(* Faulty variants: a row whose state is the same is not written; the      *)
(* state is compared after it was written.                                 *)
UpsertChanges ==
    /\ at = "upsert"
    /\ IF previous = seen[Head(todo)] THEN NextReturn /\ UNCHANGED mirrorVars
       ELSE /\ mirror' = [mirror EXCEPT ![Head(todo)] = seen[Head(todo)]]
            /\ touched' = Append(SelectSeq(touched, LAMBDA r : r # Head(todo)), Head(todo))
            /\ at' = "tag" /\ UNCHANGED <<opens, seen, todo, previous>>
    /\ UNCHANGED <<sourceVars, tags, hit, faults>>
UpsertOnly ==
    /\ at = "upsert"
    /\ mirror' = [mirror EXCEPT ![Head(todo)] = seen[Head(todo)]]
    /\ touched' = Append(SelectSeq(touched, LAMBDA r : r # Head(todo)), Head(todo))
    /\ NextReturn
    /\ UNCHANGED <<sourceVars, tags, hit, faults>>

(* The row is written, and touched, in any case. *)
Upsert ==
    /\ at = "upsert"
    /\ mirror' = [mirror EXCEPT ![Head(todo)] = seen[Head(todo)]]
    /\ touched' = Append(SelectSeq(touched, LAMBDA r : r # Head(todo)), Head(todo))
    /\ IF previous = seen[Head(todo)] THEN NextReturn
       ELSE at' = "tag" /\ UNCHANGED <<opens, seen, todo, previous>>
    /\ UNCHANGED <<sourceVars, tags, hit, faults>>

Tagged == tags' = [tags EXCEPT ![Order] = @ \cup {seen[Head(todo)]}]

TagsAdd ==
    /\ at = "tag"
    /\ Tagged
    /\ NextReturn
    /\ UNCHANGED <<sourceVars, mirrorVars, hit, faults>>

-----------------------------------------------------------------------------
(* Failures                                                                *)

Fault == faults < MaxFaults /\ faults' = faults + 1

(* A tagsAdd that was not answered may have been done all the same.        *)
Interrupted ==
    IF at = "tag"
    THEN (tags' = tags \/ Tagged) /\ hit' = hit \cup {Head(todo)}
    ELSE UNCHANGED <<tags, hit>>

(* userErrors of tagsAdd, and exceptions in applyReturn, are logged. *)
ReturnFails ==
    /\ at \in {"apply", "upsert", "tag"}
    /\ Fault
    /\ Interrupted
    /\ NextReturn
    /\ UNCHANGED <<sourceVars, mirrorVars>>

(* Any other exception ends the run, and so does a crash. *)
RunEnds ==
    /\ at # "idle"
    /\ Fault
    /\ Interrupted
    /\ at' = "idle"
    /\ UNCHANGED <<sourceVars, mirrorVars, opens, seen, todo, previous>>

-----------------------------------------------------------------------------
ApplyReturn ==
    \/ NotOurs
    \/ FindPrevious
    \/ Upsert
    \/ TagsAdd

SyncReturns ==
    \/ Begin
    \/ ListNewest
    \/ ListOpen
    \/ Recheck
    \/ NoNeedToRecheck
    \/ Rechecked
    \/ ApplyReturn

ReturnsNext ==
    \/ \E r \in Returns : Move(r)
    \/ \E o \in Orders : ImportOrder(o)
    \/ SyncReturns
    \/ ReturnFails
    \/ RunEnds

ReturnsSpec == ReturnsInit /\ [][ReturnsNext]_returnsVars

(* The order-import poll keeps coming due. *)
FairReturnsSpec == ReturnsSpec /\ WF_returnsVars(SyncReturns)

-----------------------------------------------------------------------------
(* Properties                                                              *)

(* "tags the Shopify order ... so a merchant working in Shopify sees them" *)
(* (order-lifecycle.ts:375-377): between runs, an order carries the tag of *)
(* every state its returns are mirrored in, unless a failure hit the       *)
(* return between row and tag.                                             *)
MissingTagHasCause ==
    at = "idle" =>
        \A r \in Returns : mirror[r] # 0 => mirror[r] \in tags[OrderOf[r]] \/ r \in hit

(* Rows that are listed again and again, because their order cannot be     *)
(* asked for, and are never touched take all the re-checks of a run.       *)
Starved ==
    Cardinality({r \in Returns : mirror[r] \in 1..(Terminal - 1) /\ OrderOf[r] \in Bare})
        >= OpenLimit

(* "each still-open return is re-checked individually for state changes"   *)
(* (order-lifecycle.ts:379): a mirrored return gets its present state, if  *)
(* its order can be asked for.  It may wait for ever only while as many    *)
(* open returns as a run re-checks are on orders without a commercial id:  *)
(* they stay at the head of the list (order-lifecycle.ts:390-393).         *)
MirrorCatchesUp ==
    \A r \in Returns :
        OrderOf[r] \notin Bare => (mirror[r] # 0 ~> mirror[r] = actual[r] \/ Starved)

=============================================================================
