---------------------------- MODULE RemoteSearch ----------------------------
(***************************************************************************)
(* The pickers of the Mappings page: useRemoteSearch, which looks a typed  *)
(* query up after 250 ms and drops the answers of earlier ones, and the    *)
(* attributes of a chosen category in ValueSection, whose effect has no    *)
(* such guard (apps/web/frontend/src/pages/Mappings.tsx).                  *)
(***************************************************************************)
EXTENDS Naturals, Sequences, SequencesExt

CONSTANT MaxInputs  \* bound: queries typed, and categories chosen

ASSUME SearchAssumption == MaxInputs \in Nat \ {0}

Nothing == 0   \* an empty list, or no list yet

VARIABLES
    query,      \* the query in the box: 1, 2, ...
    open,       \* whether the picker is open ("enabled")
    timer,      \* the query the 250 ms timer holds (0: none)
    searches,   \* searches on their way, [of, cancelled]
    results,    \* the query whose results are shown (0: none are)
    loading,
    category,   \* the category chosen: 1, 2, ... (0: none)
    reads,      \* loads of attributes on their way, oldest first
    attributes, \* the category whose attributes are shown (0: none)
    crossed     \* whether they were shown after those of a later choice

searchVars == <<query, open, timer, searches, results, loading>>
attributeVars == <<category, reads, attributes, crossed>>
pickerVars == <<searchVars, attributeVars>>

SearchInit ==
    /\ query = 1 /\ open = FALSE /\ timer = 0 /\ searches = {}
    /\ results = Nothing /\ loading = FALSE
    /\ category = 0 /\ reads = <<>> /\ attributes = Nothing /\ crossed = FALSE

(* The clean-up of the effect that ran before. *)
Cancel == searches' = {[s EXCEPT !.cancelled = TRUE] : s \in searches}

Type ==
    /\ open /\ query < MaxInputs
    /\ query' = query + 1
    /\ timer' = query + 1 /\ loading' = TRUE /\ Cancel
    /\ UNCHANGED <<open, results, attributeVars>>

OpenPicker ==
    /\ ~open
    /\ open' = TRUE /\ timer' = query /\ loading' = TRUE /\ Cancel
    /\ UNCHANGED <<query, results, attributeVars>>

ClosePicker ==
    /\ open
    /\ open' = FALSE /\ timer' = 0 /\ results' = Nothing /\ Cancel
    /\ UNCHANGED <<query, loading, attributeVars>>

TimerFires ==
    /\ timer # 0
    /\ searches' = searches \cup {[of |-> timer, cancelled |-> FALSE]}
    /\ timer' = 0
    /\ UNCHANGED <<query, open, results, loading, attributeVars>>

(* Faulty variant: the answer to an earlier query is shown.                *)
EveryAnswerShown(s) ==
    /\ s \in searches
    /\ searches' = searches \ {s}
    /\ results' \in {s.of, Nothing} /\ loading' = FALSE
    /\ UNCHANGED <<query, open, timer, attributeVars>>

(* The answer to a search, or its failure, which shows an empty list.      *)
SearchAnswered(s) ==
    /\ s \in searches
    /\ searches' = searches \ {s}
    /\ IF s.cancelled
       THEN UNCHANGED <<results, loading>>
       ELSE results' \in {s.of, Nothing} /\ loading' = FALSE
    /\ UNCHANGED <<query, open, timer, attributeVars>>

ChooseCategory ==
    /\ category < MaxInputs
    /\ category' = category + 1
    /\ attributes' = Nothing
    /\ reads' = Append(reads, category + 1)
    /\ UNCHANGED <<searchVars, crossed>>

AttributesAnswered == \E i \in 1..Len(reads) :
    /\ attributes' \in {reads[i], Nothing}
    /\ crossed' = \E n \in (reads[i] + 1)..category : ~Contains(reads, n)
    /\ reads' = RemoveAt(reads, i)
    /\ UNCHANGED <<searchVars, category>>

SearchNext ==
    \/ Type \/ OpenPicker \/ ClosePicker \/ TimerFires
    \/ \E s \in searches : SearchAnswered(s)
    \/ ChooseCategory \/ AttributesAnswered

SearchSpec == SearchInit /\ [][SearchNext]_pickerVars

-----------------------------------------------------------------------------
(* Properties                                                              *)

(* What can be picked belongs to what was asked: a picker that has stopped *)
(* loading lists the results of the query in its box, whatever answers are *)
(* still on their way, and a closed one lists none; the attributes shown   *)
(* are those of the chosen category once no answer is on its way, unless   *)
(* an earlier choice's answer came last.                                   *)
ListIsOfItsQuery ==
    /\ open /\ ~loading => results \in {query, Nothing}
    /\ ~open => results = Nothing
    /\ reads = <<>> => attributes \in {category, Nothing} \/ crossed
=============================================================================
