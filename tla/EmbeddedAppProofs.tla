--------------------------- MODULE EmbeddedAppProofs ---------------------------
(***************************************************************************)
(* Proofs about the pages of the embedded app and the cache behind them:   *)
(* what a caller of the catalogue is given (CatalogCache), what a picker   *)
(* lists (RemoteSearch), what a connection and a completed setup stand for *)
(* (Settings), and what the sections of the Mappings page show (Mappings), *)
(* for any number of requests, values and failures.                        *)
(***************************************************************************)
EXTENDS Mappings, CatalogCache, RemoteSearch, Settings, SequenceTheorems, TLAPS

-----------------------------------------------------------------------------
(* CatalogCache                                                            *)

CatalogTypeOK ==
    /\ edition \in Nat \ {0} /\ copy \in 0..edition
    /\ step \in [Readers -> {"idle", "fetch", "store", "stale", "returned"}]
    /\ fetched \in [Readers -> Nat]
    /\ served \in [Readers -> Nat]
    /\ held \in [Readers -> Nat] /\ \A r \in Readers : held[r] <= edition
    /\ overtaken \subseteq Readers /\ misled \subseteq Readers

(* A waiting reader would still find a copy that will do, and a fetched    *)
(* edition is at least as new as any copy there was when it asked.         *)
CopyWillDo == \A r \in Readers : step[r] \in Waiting =>
    /\ held[r] # 0 => copy # 0 \/ r \in misled
    /\ copy >= held[r] \/ r \in overtaken \cup misled
FetchedWillDo == \A r \in Readers : step[r] = "store" =>
    \/ fetched[r] \in 1..edition /\ fetched[r] >= held[r]
    \/ fetched[r] = 0 /\ r \in misled

CatalogIInv == CatalogTypeOK /\ CopyWillDo /\ FetchedWillDo /\ ServedIsNoOlder

LEMMA CatalogInitIInv == CatalogInit => CatalogIInv
  BY CatalogAssumption
     DEF CatalogInit, CatalogIInv, CatalogTypeOK, CopyWillDo, FetchedWillDo, ServedIsNoOlder,
     Waiting

LEMMA CatalogStepIInv ==
  ASSUME CatalogIInv, [CatalogNext]_catalogVars
  PROVE  CatalogIInv'
  <1> USE DEF CatalogIInv, CatalogTypeOK, CopyWillDo, FetchedWillDo, ServedIsNoOlder, Waiting,
              WaitingReaders, Return
  <1>1. CASE Publish
    BY <1>1 DEF Publish
  <1>2. CASE HourPasses
    BY <1>2 DEF HourPasses
  <1>3. ASSUME NEW r \in Readers, FindFresh(r)
        PROVE  CatalogIInv'
    BY <1>3 DEF FindFresh
  <1>4. ASSUME NEW r \in Readers, Fetch(r)
        PROVE  CatalogIInv'
    BY <1>4 DEF Fetch
  <1>5. ASSUME NEW r \in Readers, Upsert(r)
        PROVE  CatalogIInv'
    BY <1>5 DEF Upsert
  <1>6. ASSUME NEW r \in Readers, WarmFails(r)
        PROVE  CatalogIInv'
    BY <1>6 DEF WarmFails
  <1>7. ASSUME NEW r \in Readers, FindStale(r)
        PROVE  CatalogIInv'
    BY <1>7 DEF FindStale
  <1>8. ASSUME NEW r \in Readers, AskAgain(r)
        PROVE  CatalogIInv'
    BY <1>8 DEF AskAgain
  <1>9. CASE UNCHANGED catalogVars
    BY <1>9 DEF catalogVars
  <1>10. QED
    BY <1>1, <1>2, <1>3, <1>4, <1>5, <1>6, <1>7, <1>8, <1>9 DEF CatalogNext

(* Once the shop holds a copy no caller is given an empty list, unless an  *)
(* answer was misread as one, nor a list older than the copy there was     *)
(* when it asked, unless a slower fetch put an older edition in its place  *)
(* (catalog-cache.ts:50-68).                                               *)
THEOREM NeverWorseThanTheCopy == CatalogSpec => []ServedIsNoOlder
  <1>1. CatalogIInv /\ [CatalogNext]_catalogVars => CatalogIInv'
    BY CatalogStepIInv
  <1>2. CatalogIInv => ServedIsNoOlder
    BY DEF CatalogIInv
  <1>3. QED
    BY CatalogInitIInv, <1>1, <1>2, PTL DEF CatalogSpec

-----------------------------------------------------------------------------
(* RemoteSearch                                                            *)

USE SearchAssumption DEF Nothing

SearchTypeOK ==
    /\ query \in Nat \ {0} /\ timer \in Nat
    /\ open \in BOOLEAN /\ loading \in BOOLEAN /\ crossed \in BOOLEAN
    /\ searches \subseteq [of : Nat, cancelled : BOOLEAN]
    /\ results \in Nat /\ category \in Nat /\ attributes \in Nat
    /\ reads \in Seq(1..category)

(* Only a search for the query in the box of an open picker is not cancelled. *)
OthersCancelled ==
    /\ timer # 0 => open /\ timer = query
    /\ \A s \in searches : ~s.cancelled => open /\ s.of = query

(* Attributes of another category give way to an answer still on its way.  *)
LaterAnswerComes ==
    attributes \in {category, Nothing} \/ crossed \/ Contains(reads, category)

SearchIInv == SearchTypeOK /\ OthersCancelled /\ LaterAnswerComes /\ ListIsOfItsQuery

(* What is left of a sequence once one element is taken out.               *)
LEMMA Removed ==
  ASSUME NEW S, NEW s \in Seq(S), NEW i \in 1..Len(s)
  PROVE  /\ RemoveAt(s, i) \in Seq(S) /\ Len(RemoveAt(s, i)) = Len(s) - 1
         /\ \A k \in 1..(i - 1) : RemoveAt(s, i)[k] = s[k]
         /\ \A k \in i..(Len(s) - 1) : RemoveAt(s, i)[k] = s[k + 1]
         /\ \A e \in S : Contains(s, e) /\ s[i] # e => Contains(RemoveAt(s, i), e)
  <1> DEFINE t == RemoveAt(s, i)
  <1>1. /\ SubSeq(s, 1, i - 1) \in Seq(S) /\ Len(SubSeq(s, 1, i - 1)) = i - 1
        /\ \A k \in 1..(i - 1) : SubSeq(s, 1, i - 1)[k] = s[k]
    OBVIOUS
  <1>2. /\ SubSeq(s, i + 1, Len(s)) \in Seq(S) /\ Len(SubSeq(s, i + 1, Len(s))) = Len(s) - i
        /\ \A k \in 1..(Len(s) - i) : SubSeq(s, i + 1, Len(s))[k] = s[i + k]
    OBVIOUS
  <1>a. t = SubSeq(s, 1, i - 1) \o SubSeq(s, i + 1, Len(s))
    BY DEF RemoveAt
  <1> HIDE DEF t
  <1>3. /\ t \in Seq(S) /\ Len(t) = Len(s) - 1
        /\ \A k \in 1..(i - 1) : t[k] = s[k]
        /\ \A k \in i..(Len(s) - 1) : t[k] = s[k + 1]
    <2> DEFINE a == SubSeq(s, 1, i - 1)
               b == SubSeq(s, i + 1, Len(s))
    <2>1. /\ a \in Seq(S) /\ Len(a) = i - 1 /\ \A k \in 1..(i - 1) : a[k] = s[k]
          /\ b \in Seq(S) /\ Len(b) = Len(s) - i /\ \A k \in 1..(Len(s) - i) : b[k] = s[i + k]
      BY <1>1, <1>2
    <2>2. t = a \o b
      BY <1>a
    <2> HIDE DEF a, b
    <2>3. a \o b \in Seq(S) /\ Len(a \o b) = Len(a) + Len(b)
      BY <2>1, ConcatProperties
    <2>4. \A k \in 1..(Len(a) + Len(b)) : (a \o b)[k] = IF k <= Len(a) THEN a[k] ELSE b[k - Len(a)]
      BY <2>1, ConcatProperties
    <2>5. /\ Len(t) = Len(s) - 1
          /\ \A k \in 1..(i - 1) : t[k] = s[k]
      BY <2>1, <2>2, <2>3, <2>4
    <2>6. ASSUME NEW k \in i..(Len(s) - 1) PROVE t[k] = s[k + 1]
      <3>1. k \in 1..(Len(a) + Len(b)) /\ ~(k <= Len(a)) /\ k - Len(a) = k - i + 1
        BY <2>1
      <3>2. t[k] = b[k - i + 1]
        BY <2>2, <2>4, <3>1
      <3>3. k - i + 1 \in 1..(Len(s) - i) /\ i + (k - i + 1) = k + 1
        OBVIOUS
      <3>4. QED
        BY <2>1, <3>2, <3>3
    <2>7. QED
      BY <2>2, <2>3, <2>5, <2>6
  <1>4. ASSUME NEW e \in S, Contains(s, e), s[i] # e
        PROVE  Contains(t, e)
    <2>1. PICK k \in 1..Len(s) : s[k] = e
      BY <1>4 DEF Contains
    <2>2. CASE k < i
      BY <1>3, <2>1, <2>2 DEF Contains
    <2>3. CASE k > i
      <3>1. k - 1 \in 1..Len(t) /\ t[k - 1] = e
        BY <1>3, <2>1, <2>3
      <3>2. QED
        BY <3>1 DEF Contains
    <2>4. QED
      BY <1>4, <2>1, <2>2, <2>3
  <1>5. QED
    BY <1>3, <1>4 DEF t

LEMMA SearchInitIInv == SearchInit => SearchIInv
  <1> SUFFICES ASSUME SearchInit PROVE SearchIInv
    OBVIOUS
  <1>1. reads \in Seq(1..category)
    <2>1. \A S : <<>> \in Seq(S)
      BY EmptySeq
    <2>2. reads = <<>>
      BY DEF SearchInit
    <2>3. QED
      BY <2>1, <2>2, Zenon
  <1>2. SearchTypeOK
    <2>1. query \in Nat \ {0} /\ timer \in Nat /\ results \in Nat /\ category \in Nat
          /\ attributes \in Nat
      BY DEF SearchInit
    <2>2. open \in BOOLEAN /\ loading \in BOOLEAN /\ crossed \in BOOLEAN
      BY DEF SearchInit
    <2>3. searches \subseteq [of : Nat, cancelled : BOOLEAN]
      BY DEF SearchInit
    <2>4. QED
      BY <1>1, <2>1, <2>2, <2>3 DEF SearchTypeOK
  <1>3. OthersCancelled
    BY DEF SearchInit, OthersCancelled
  <1>4. LaterAnswerComes /\ ListIsOfItsQuery
    BY DEF SearchInit, LaterAnswerComes, ListIsOfItsQuery
  <1>5. QED
    BY <1>2, <1>3, <1>4 DEF SearchIInv

LEMMA CancelledAll ==
  ASSUME SearchTypeOK, Cancel
  PROVE  /\ searches' \subseteq [of : Nat, cancelled : BOOLEAN]
         /\ \A s \in searches' : s.cancelled
  <1>1. ASSUME NEW s \in searches
        PROVE  /\ [s EXCEPT !.cancelled = TRUE] \in [of : Nat, cancelled : BOOLEAN]
               /\ [s EXCEPT !.cancelled = TRUE].cancelled
    BY <1>1 DEF SearchTypeOK
  <1>2. QED
    BY <1>1 DEF Cancel

LEMMA SearchStepIInv ==
  ASSUME SearchIInv, [SearchNext]_pickerVars
  PROVE  SearchIInv'
  <1> USE DEF SearchIInv, SearchTypeOK, OthersCancelled, LaterAnswerComes, ListIsOfItsQuery,
              searchVars,
              attributeVars
  <1>1. CASE Type
    BY <1>1, CancelledAll DEF Type
  <1>2. CASE OpenPicker
    BY <1>2, CancelledAll DEF OpenPicker
  <1>3. CASE ClosePicker
    BY <1>3, CancelledAll DEF ClosePicker
  <1>4. CASE TimerFires
    <2>1. [of |-> timer, cancelled |-> FALSE] \in [of : Nat, cancelled : BOOLEAN]
      OBVIOUS
    <2>2. searches' \subseteq [of : Nat, cancelled : BOOLEAN]
      BY <1>4, <2>1 DEF TimerFires
    <2>3. \A s \in searches' : ~s.cancelled => open /\ s.of = query
      BY <1>4 DEF TimerFires
    <2>4. QED
      BY <1>4, <2>2, <2>3 DEF TimerFires
  <1>5. ASSUME NEW s \in searches, SearchAnswered(s)
        PROVE  SearchIInv'
    <2>1. s \in [of : Nat, cancelled : BOOLEAN] /\ s.of \in Nat
      OBVIOUS
    <2>2. searches' \subseteq searches /\ UNCHANGED <<query, open, timer, attributeVars>>
      BY <1>5 DEF SearchAnswered
    <2>3. results' \in Nat /\ loading' \in BOOLEAN
      <3>1. CASE s.cancelled
        BY <1>5, <3>1 DEF SearchAnswered
      <3>2. CASE ~s.cancelled
        <4>1. results' = s.of \/ results' = 0
          BY <1>5, <3>2 DEF SearchAnswered
        <4>2. results' \in Nat
          BY <2>1, <4>1
        <4>3. loading' \in BOOLEAN
          BY <1>5, <3>2 DEF SearchAnswered
        <4>4. QED
          BY <4>2, <4>3
      <3>3. QED
        BY <3>1, <3>2
    <2>4. (open /\ ~loading => results \in {query, Nothing})'
      BY <1>5, <2>2 DEF SearchAnswered
    <2>5. (~open => results = Nothing)'
      BY <1>5, <2>2 DEF SearchAnswered
    <2>6. QED
      BY <2>2, <2>3, <2>4, <2>5
  <1>6. CASE ChooseCategory
    <2>1. reads \in Seq(1..(category + 1)) /\ category + 1 \in 1..(category + 1)
      OBVIOUS
    <2>2. reads' \in Seq(1..category')
      BY <1>6, <2>1 DEF ChooseCategory
    <2>3. reads' # <<>>
      BY <1>6 DEF ChooseCategory
    <2>4. QED
      BY <1>6, <2>2, <2>3 DEF ChooseCategory
  <1>7. CASE AttributesAnswered
    <2>1. PICK i \in 1..Len(reads) :
             /\ attributes' \in {reads[i], Nothing}
             /\ crossed' = \E n \in (reads[i] + 1)..category : ~Contains(reads, n)
             /\ reads' = RemoveAt(reads, i)
             /\ UNCHANGED <<searchVars, category>>
      BY <1>7 DEF AttributesAnswered
    <2>2. /\ reads' \in Seq(1..category)
          /\ \A n \in 1..category : Contains(reads, n) /\ reads[i] # n => Contains(reads', n)
      BY <2>1, Removed
    <2>3. reads[i] \in 1..category
      OBVIOUS
    <2>4. LaterAnswerComes'
      <3>1. CASE reads[i] = category
        BY <2>1, <3>1
      <3>2. CASE reads[i] # category /\ ~crossed'
        <4>1. category \in (reads[i] + 1)..category
          BY <2>3, <3>2
        <4>2. Contains(reads, category)
          BY <2>1, <3>2, <4>1
        <4>3. Contains(reads', category)
          BY <2>2, <2>3, <3>2, <4>2
        <4>4. QED
          BY <2>1, <4>3
      <3>3. QED
        BY <2>1, <3>1, <3>2
    <2>5. reads' = <<>> => ~Contains(reads', category')
      BY DEF Contains
    <2>6. SearchTypeOK' /\ OthersCancelled'
      BY <2>1, <2>2, <2>3
    <2>7. ListIsOfItsQuery'
      BY <2>1, <2>4, <2>5
    <2>8. QED
      BY <2>4, <2>6, <2>7
  <1>8. CASE UNCHANGED pickerVars
    BY <1>8 DEF pickerVars
  <1>9. QED
    BY <1>1, <1>2, <1>3, <1>4, <1>5, <1>6, <1>7, <1>8 DEF SearchNext

(* A picker that has stopped loading lists what belongs to its query, and  *)
(* attributes are those of the chosen category once no answer is on its    *)
(* way, unless an earlier choice's came last (Mappings.tsx:69-96, 536-559). *)
THEOREM PickersListWhatIsAsked == SearchSpec => []ListIsOfItsQuery
  <1>1. SearchIInv /\ [SearchNext]_pickerVars => SearchIInv'
    BY SearchStepIInv
  <1>2. SearchIInv => ListIsOfItsQuery
    BY DEF SearchIInv
  <1>3. QED
    BY SearchInitIInv, <1>1, <1>2, PTL DEF SearchSpec

HIDE SearchAssumption DEF Nothing

-----------------------------------------------------------------------------
(* Settings                                                                *)

USE SettingsAssumption DEF KeyForms, WizardForms

Statuses == {"NOT_CONFIGURED", "CONNECTED", "FAILED"}
Rows == [email : BOOLEAN, scope : Scopes, cursor : Nat, completed : BOOLEAN]
Bodies == [form : KeyForms \cup WizardForms \cup {"row", "none"}, key : ApiKeys \cup {NoKey},
           verdict : Statuses, row : Rows]
Later == {"business", "check", "golive"}
KeyPlaces == {"upsert", "test", "record", "tested", "read"}
FinishPlaces == {"updateChoices", "syncNow", "complete", "finished"}

SettingsTypeOK ==
    /\ connection \in [key : ApiKeys \cup {NoKey}, status : Statuses]
    /\ config \in Rows /\ loaded \in Rows
    /\ wizard \in {"closed", "stuck", "connect"} \cup Later
    /\ status \in Statuses
    /\ place \in [Slots -> {"idle", "updateBusiness", "saved", "updateRow"}
                               \cup KeyPlaces \cup FinishPlaces]
    /\ body \in [Slots -> Bodies]
    /\ asking \subseteq Slots /\ deaf \subseteq Slots /\ overwritten \subseteq Slots
    /\ unproven \in BOOLEAN /\ moved \in BOOLEAN /\ ahead \in BOOLEAN /\ edited \in BOOLEAN

(* Where a request is, is where its form takes it.                         *)
FormFits == \A n \in Slots :
    /\ place[n] \in KeyPlaces => body[n].form \in KeyForms
    /\ place[n] = "saved" => body[n].form = "business"
    /\ place[n] = "updateBusiness" => body[n].form = "business"
    /\ place[n] \in FinishPlaces => body[n].form = "golive"
    /\ place[n] = "read" => body[n].form = "wizardKey"

(* A verdict is about the key it was asked for. *)
VerdictIsTrue ==
    \A n \in Slots :
        place[n] = "record" /\ body[n].verdict = "CONNECTED" => body[n].key \in Accepted

(* An open wizard has read the status there is, unless a test was recorded *)
(* since; its later steps need a connection, and the last two an e-mail.   *)
WizardReads == wizard \in {"connect"} \cup Later => status = connection.status \/ moved
LaterIsConnected == wizard \in Later => ahead \/ ~InDoubt
LastHaveEmail == wizard \in {"check", "golive"} => config.email \/ edited

(* Nothing reaches a wizard that has been left. *)
LeftIsDeaf ==
    wizard \in {"closed", "stuck"} =>
        \A n \in Slots : place[n] # "idle" /\ body[n].form \in WizardForms => n \in deaf
SavedHasEmail ==
    \A n \in Slots : place[n] = "saved" /\ n \notin deaf => config.email \/ edited

(* A finish under way was begun in the last step, and has stored its choices. *)
FinishIsReady == \A n \in Slots :
    /\ place[n] \in FinishPlaces =>
          /\ connection.status = "CONNECTED" \/ moved \/ ahead
          /\ config.email \/ edited
    /\ place[n] \in {"syncNow", "complete"} =>
          config.scope = body[n].row.scope \/ edited \/ n \in overwritten

SettingsIInv ==
    /\ SettingsTypeOK /\ FormFits /\ VerdictIsTrue /\ ConnectedIsTrue
    /\ WizardReads /\ LaterIsConnected /\ LastHaveEmail
    /\ LeftIsDeaf /\ SavedHasEmail /\ FinishIsReady

-----------------------------------------------------------------------------
LEMMA SettingsInitIInv == SettingsInit => SettingsIInv
  <1> SUFFICES ASSUME SettingsInit PROVE SettingsIInv
    OBVIOUS
  <1> USE DEF SettingsInit, NewConfig, NoBody, Scopes, Statuses, Later, Rows, Bodies, KeyPlaces,
              FinishPlaces
  <1>1. SettingsTypeOK
    <2>1. config \in Rows
      <3>1. NewConfig \in Rows
        OBVIOUS
      <3>2. \A b \in BOOLEAN : [NewConfig EXCEPT !.email = b] \in Rows
        OBVIOUS
      <3>3. (connection.key # NoKey) \in BOOLEAN
        OBVIOUS
      <3>4. config = NewConfig \/ config = [NewConfig EXCEPT !.email = (connection.key # NoKey)]
        OBVIOUS
      <3>5. QED
        BY <3>1, <3>2, <3>3, <3>4
    <2>2. connection \in [key : ApiKeys \cup {NoKey}, status : Statuses]
      OBVIOUS
    <2>3. body \in [Slots -> Bodies]
      OBVIOUS
    <2>4. QED
      BY <2>1, <2>2, <2>3 DEF SettingsTypeOK
  <1>2. FormFits /\ VerdictIsTrue /\ ConnectedIsTrue
    BY DEF FormFits, VerdictIsTrue, ConnectedIsTrue
  <1>3. WizardReads /\ LaterIsConnected /\ LastHaveEmail
    BY DEF WizardReads, LaterIsConnected, LastHaveEmail
  <1>4. LeftIsDeaf /\ SavedHasEmail /\ FinishIsReady
    BY DEF LeftIsDeaf, SavedHasEmail, FinishIsReady
  <1>5. QED
    BY <1>1, <1>2, <1>3, <1>4 DEF SettingsIInv

AnyForm == KeyForms \cup WizardForms \cup {"row", "none"}
AnyPlace == {"idle", "updateBusiness", "saved", "updateRow"} \cup KeyPlaces \cup FinishPlaces

LEMMA BlankTyped ==
  /\ NewConfig \in Rows /\ NoBody \in Bodies
  /\ \A k \in ApiKeys : [NoBody EXCEPT !.key = k] \in Bodies
  /\ [NoBody EXCEPT !.row.email = TRUE] \in Bodies
  /\ \A sc \in Scopes : [NoBody EXCEPT !.row.scope = sc] \in Bodies
  /\ \A row \in Rows : [NoBody EXCEPT !.row = row] \in Bodies
<1>1. NewConfig \in Rows
  BY DEF NewConfig, Rows, Scopes
<1>2. \A sc \in Scopes : [NewConfig EXCEPT !.scope = sc] \in Rows
  BY DEF NewConfig, Rows, Scopes
<1>3. [NewConfig EXCEPT !.email = TRUE] \in Rows
  BY DEF NewConfig, Rows, Scopes
<1> QED
  BY <1>1, <1>2, <1>3 DEF NoBody, Bodies, Statuses

LEMMA SendTyped ==
  ASSUME SettingsTypeOK, NEW f \in AnyForm, NEW p \in AnyPlace, NEW b \in Bodies, Send(f, p, b)
  PROVE  /\ place' \in [Slots -> AnyPlace] /\ body' \in [Slots -> Bodies] /\ asking' \subseteq Slots
<1>1. [b EXCEPT !.form = f] \in Bodies
  BY DEF AnyForm, Bodies
<1> QED
  BY <1>1 DEF SettingsTypeOK, AnyPlace, Send, To

LEMMA EndTyped ==
  ASSUME SettingsTypeOK, NEW n \in Slots, End(n)
  PROVE  /\ place' \in [Slots -> AnyPlace] /\ body' \in [Slots -> Bodies]
         /\ deaf' \subseteq Slots /\ overwritten' \subseteq Slots
  BY BlankTyped DEF SettingsTypeOK, AnyPlace, End, To

LEMMA ToTyped ==
  ASSUME SettingsTypeOK, NEW n \in Slots, NEW p \in AnyPlace, To(n, p)
  PROVE  place' \in [Slots -> AnyPlace]
  BY DEF SettingsTypeOK, AnyPlace, To

LEMMA ShowTyped ==
  ASSUME SettingsTypeOK, NEW w \in {"connect"} \cup Later, Show(w)
  PROVE  wizard' \in {"connect"} \cup Later /\ asking' \subseteq Slots
  BY DEF SettingsTypeOK, Show

LEMMA SettingsTypeStep ==
  ASSUME SettingsTypeOK, [SettingsNext]_settingsVars
  PROVE  SettingsTypeOK'
  <1> USE DEF SettingsTypeOK, AnyPlace, AnyForm, Close, Lasting, InDoubt,
              Scopes, Statuses, Rows, Later, KeyPlaces, FinishPlaces, stored, screens,
              forms, ghosts
  <1>1. ASSUME NEW f \in KeyForms, NEW k \in ApiKeys, PostKey(f, k)
        PROVE  SettingsTypeOK'
    BY <1>1, BlankTyped, SendTyped DEF PostKey
  <1>2. ASSUME NEW sc \in Scopes, PostChoices(sc)
        PROVE  SettingsTypeOK'
    <2>1. "golive" \in AnyForm
      BY DEF WizardForms
    <2>2. QED
      BY <1>2, <2>1, BlankTyped, SendTyped DEF PostChoices
  <1>3. ASSUME NEW sc \in Scopes, ChangeScope(sc)
        PROVE  SettingsTypeOK'
    BY <1>3 DEF ChangeScope
  <1>4. ASSUME NEW email \in BOOLEAN, PostRow(email)
        PROVE  SettingsTypeOK'
    <2>1. [loaded EXCEPT !.email = email] \in Rows
      OBVIOUS
    <2>2. [NoBody EXCEPT !.row = [loaded EXCEPT !.email = email]] \in Bodies
      BY <2>1, BlankTyped
    <2>3. QED
      BY <1>4, <2>2, SendTyped DEF PostRow
  <1>5. CASE OpenWizard
    BY <1>5 DEF OpenWizard
  <1>6. CASE OpenWizardFails
    BY <1>6 DEF OpenWizardFails
  <1>7. CASE LeaveWizard
    BY <1>7 DEF LeaveWizard, Of
  <1>8. CASE NextFromConnect
    BY <1>8, ShowTyped DEF NextFromConnect
  <1>9. CASE NextFromCheck
    BY <1>9, ShowTyped DEF NextFromCheck
  <1>10. CASE GoBack
    <2>1. PICK i, j \in 1..Len(Steps) : Show(Steps[j])
      BY <1>10 DEF GoBack
    <2>2. Steps[j] \in {"connect"} \cup Later
      BY DEF Steps
    <2>3. QED
      BY <1>10, <2>1, <2>2, ShowTyped DEF GoBack
  <1>11. CASE PostBusiness
    <2>1. "business" \in AnyForm
      BY DEF WizardForms
    <2>2. QED
      BY <1>11, <2>1, BlankTyped, SendTyped DEF PostBusiness
  <1>12. CASE LoadRow
    BY <1>12 DEF LoadRow
  <1>13. CASE AdvanceCursor
    BY <1>13 DEF AdvanceCursor
  <1>14. ASSUME NEW n \in Slots, UpsertConnection(n)
        PROVE  SettingsTypeOK'
    <2>1. body[n].key \in ApiKeys \cup {NoKey}
      BY DEF Bodies
    <2>2. QED
      BY <1>14, <2>1, ToTyped DEF UpsertConnection
  <1>15. ASSUME NEW n \in Slots, TestKey(n)
        PROVE  SettingsTypeOK'
    <2>1. connection.key \in ApiKeys \cup {NoKey} /\ body[n] \in Bodies
      OBVIOUS
    <2>2. PICK v \in Statuses :
              body' = [body EXCEPT ![n].key = connection.key, ![n].verdict = v]
      BY <1>15 DEF TestKey
    <2>3. [body[n] EXCEPT !.key = connection.key, !.verdict = v] \in Bodies
      <3> HIDE DEF SettingsTypeOK
      <3> QED
        BY <2>1 DEF Bodies
    <2>4. body' = [body EXCEPT ![n] = [body[n] EXCEPT !.key = connection.key, !.verdict = v]]
      BY <2>2
    <2>5. body' \in [Slots -> Bodies]
      BY <2>3, <2>4
    <2>6. place' \in [Slots -> AnyPlace]
      BY <1>15, ToTyped DEF TestKey
    <2>7. QED
      BY <1>15, <2>5, <2>6 DEF TestKey
  <1>16. ASSUME NEW n \in Slots, RecordTestResult(n)
        PROVE  SettingsTypeOK'
    <2>1. body[n].verdict \in Statuses
      BY DEF Bodies
    <2>2. QED
      BY <1>16, <2>1, ToTyped DEF RecordTestResult
  <1>17. ASSUME NEW n \in Slots, ReadStatus(n)
        PROVE  SettingsTypeOK'
    <2>1. [body[n] EXCEPT !.verdict = connection.status] \in Bodies
      BY DEF Bodies
    <2>2. QED
      BY <1>17, <2>1, ToTyped DEF ReadStatus
  <1>18. ASSUME NEW n \in Slots, StatusRead(n)
        PROVE  SettingsTypeOK'
    <2>1. body[n].verdict \in Statuses
      BY DEF Bodies
    <2>2. /\ place' \in [Slots -> AnyPlace] /\ body' \in [Slots -> Bodies]
          /\ deaf' \subseteq Slots /\ overwritten' \subseteq Slots
      BY <1>18, EndTyped DEF StatusRead
    <2>3. moved' \in BOOLEAN
      BY <1>18 DEF StatusRead
    <2>4. status' \in Statuses
      BY <1>18, <2>1 DEF StatusRead
    <2>5. asking' \subseteq Slots
      BY <1>18 DEF StatusRead
    <2>6. QED
      BY <1>18, <2>2, <2>3, <2>4, <2>5 DEF StatusRead
  <1>19. ASSUME NEW n \in Slots, KeySaved(n)
        PROVE  SettingsTypeOK'
    BY <1>19, EndTyped DEF KeySaved
  <1>20. ASSUME NEW n \in Slots, SaveBusiness(n)
        PROVE  SettingsTypeOK'
    <2>1. config' \in Rows
      BY <1>20 DEF SaveBusiness
    <2>2. place' \in [Slots -> AnyPlace]
      BY <1>20, ToTyped DEF SaveBusiness
    <2>3. QED
      BY <1>20, <2>1, <2>2 DEF SaveBusiness
  <1>21. ASSUME NEW n \in Slots, BusinessSaved(n)
        PROVE  SettingsTypeOK'
    <2>1. /\ place' \in [Slots -> AnyPlace] /\ body' \in [Slots -> Bodies]
          /\ deaf' \subseteq Slots /\ overwritten' \subseteq Slots
      BY <1>21, EndTyped DEF BusinessSaved
    <2>2. asking' \subseteq Slots /\ ahead' \in BOOLEAN
      BY <1>21 DEF BusinessSaved
    <2>3. QED
      BY <1>21, <2>1, <2>2 DEF BusinessSaved
  <1>22. ASSUME NEW n \in Slots, SaveChoices(n)
        PROVE  SettingsTypeOK'
    <2>1. body[n].row.scope \in Scopes
      BY DEF Bodies
    <2>2. place' \in [Slots -> AnyPlace]
      BY <1>22, ToTyped DEF SaveChoices
    <2>3. config' \in Rows /\ overwritten' \subseteq Slots
      BY <1>22, <2>1 DEF SaveChoices
    <2>4. QED
      BY <1>22, <2>2, <2>3 DEF SaveChoices
  <1>23. ASSUME NEW n \in Slots, SyncProductsNow(n)
        PROVE  SettingsTypeOK'
    BY <1>23, ToTyped DEF SyncProductsNow
  <1>24. ASSUME NEW n \in Slots, CompleteSetup(n)
        PROVE  SettingsTypeOK'
    <2>1. config' \in Rows
      BY <1>24 DEF CompleteSetup
    <2>2. QED
      BY <1>24, <2>1, ToTyped DEF CompleteSetup
  <1>25. ASSUME NEW n \in Slots, Finished(n)
        PROVE  SettingsTypeOK'
    <2>1. body' \in [Slots -> Bodies]
      BY <1>25, BlankTyped DEF Finished
    <2>2. place' \in [Slots -> AnyPlace]
      BY <1>25, ToTyped DEF Finished
    <2>3. deaf' \subseteq Slots /\ overwritten' \subseteq Slots
      BY <1>25 DEF Finished, Of
    <2>4. QED
      BY <1>25, <2>1, <2>2, <2>3 DEF Finished
  <1>26. ASSUME NEW n \in Slots, SaveRow(n)
        PROVE  SettingsTypeOK'
    <2>1. config' \in Rows
      BY <1>26 DEF SaveRow, Editable, Bodies
    <2>2. QED
      BY <1>26, <2>1, EndTyped DEF SaveRow
  <1>27. ASSUME NEW n \in Slots, RequestFails(n)
        PROVE  SettingsTypeOK'
    BY <1>27, EndTyped DEF RequestFails
  <1>28. CASE UNCHANGED settingsVars
    BY <1>28 DEF settingsVars
  <1> HIDE DEF SettingsTypeOK, AnyPlace, AnyForm, Close, Lasting, InDoubt,
               Scopes, Statuses, Rows, Later, KeyPlaces, FinishPlaces, stored, screens,
               forms, ghosts
  <1>29. QED
    BY <1>1, <1>2, <1>3, <1>4, <1>5, <1>6, <1>7, <1>8, <1>9, <1>10, <1>11, <1>12, <1>13, <1>14,
       <1>15, <1>16, <1>17, <1>18, <1>19, <1>20, <1>21, <1>22, <1>23, <1>24, <1>25, <1>26, <1>27,
       <1>28 DEF SettingsNext

LEMMA SettingsFormStep ==
  ASSUME SettingsTypeOK, FormFits, [SettingsNext]_settingsVars
  PROVE  FormFits'
  <1> USE DEF SettingsTypeOK, FormFits, Send, To, End, Busy, Of, Show, Close, NoBody, NewConfig, Lasting, InDoubt,
              Steps, Later, KeyPlaces, FinishPlaces, stored, screens,
              forms, ghosts
  <1>1. ASSUME NEW f \in KeyForms, NEW k \in ApiKeys, PostKey(f, k)
        PROVE  FormFits'
    BY <1>1 DEF PostKey
  <1>2. ASSUME NEW sc \in Scopes, PostChoices(sc)
        PROVE  FormFits'
    BY <1>2 DEF PostChoices
  <1>3. ASSUME NEW sc \in Scopes, ChangeScope(sc)
        PROVE  FormFits'
    BY <1>3 DEF ChangeScope
  <1>4. ASSUME NEW email \in BOOLEAN, PostRow(email)
        PROVE  FormFits'
    BY <1>4 DEF PostRow
  <1>5. CASE OpenWizard
    BY <1>5 DEF OpenWizard
  <1>6. CASE OpenWizardFails
    BY <1>6 DEF OpenWizardFails
  <1>7. CASE LeaveWizard
    BY <1>7 DEF LeaveWizard
  <1>8. CASE NextFromConnect
    BY <1>8 DEF NextFromConnect
  <1>9. CASE NextFromCheck
    BY <1>9 DEF NextFromCheck
  <1>10. CASE GoBack
    BY <1>10 DEF GoBack
  <1>11. CASE PostBusiness
    BY <1>11 DEF PostBusiness
  <1>12. CASE LoadRow
    BY <1>12 DEF LoadRow
  <1>13. CASE AdvanceCursor
    BY <1>13 DEF AdvanceCursor
  <1>14. ASSUME NEW n \in Slots, UpsertConnection(n)
        PROVE  FormFits'
    BY <1>14 DEF UpsertConnection
  <1>15. ASSUME NEW n \in Slots, TestKey(n)
        PROVE  FormFits'
    BY <1>15 DEF TestKey
  <1>16. ASSUME NEW n \in Slots, RecordTestResult(n)
        PROVE  FormFits'
    BY <1>16 DEF RecordTestResult
  <1>17. ASSUME NEW n \in Slots, ReadStatus(n)
        PROVE  FormFits'
    BY <1>17 DEF ReadStatus
  <1>18. ASSUME NEW n \in Slots, StatusRead(n)
        PROVE  FormFits'
    BY <1>18 DEF StatusRead
  <1>19. ASSUME NEW n \in Slots, KeySaved(n)
        PROVE  FormFits'
    BY <1>19 DEF KeySaved
  <1>20. ASSUME NEW n \in Slots, SaveBusiness(n)
        PROVE  FormFits'
    BY <1>20 DEF SaveBusiness
  <1>21. ASSUME NEW n \in Slots, BusinessSaved(n)
        PROVE  FormFits'
    BY <1>21 DEF BusinessSaved
  <1>22. ASSUME NEW n \in Slots, SaveChoices(n)
        PROVE  FormFits'
    BY <1>22 DEF SaveChoices
  <1>23. ASSUME NEW n \in Slots, SyncProductsNow(n)
        PROVE  FormFits'
    BY <1>23 DEF SyncProductsNow
  <1>24. ASSUME NEW n \in Slots, CompleteSetup(n)
        PROVE  FormFits'
    BY <1>24 DEF CompleteSetup
  <1>25. ASSUME NEW n \in Slots, Finished(n)
        PROVE  FormFits'
    BY <1>25 DEF Finished
  <1>26. ASSUME NEW n \in Slots, SaveRow(n)
        PROVE  FormFits'
    BY <1>26 DEF SaveRow
  <1>27. ASSUME NEW n \in Slots, RequestFails(n)
        PROVE  FormFits'
    BY <1>27 DEF RequestFails
  <1>28. CASE UNCHANGED settingsVars
    BY <1>28 DEF settingsVars
  <1> HIDE DEF SettingsTypeOK, FormFits, Send, To, End, Busy, Of, Show, Close, NoBody, NewConfig, Lasting, InDoubt,
               Steps, Later, KeyPlaces, FinishPlaces, stored, screens,
               forms, ghosts
  <1>29. QED
    BY <1>1, <1>2, <1>3, <1>4, <1>5, <1>6, <1>7, <1>8, <1>9, <1>10, <1>11, <1>12, <1>13, <1>14,
       <1>15, <1>16, <1>17, <1>18, <1>19, <1>20, <1>21, <1>22, <1>23, <1>24, <1>25, <1>26, <1>27,
       <1>28 DEF SettingsNext

LEMMA SettingsKeyStep ==
  ASSUME SettingsTypeOK, SettingsTypeOK', VerdictIsTrue, ConnectedIsTrue,
         [SettingsNext]_settingsVars
  PROVE  VerdictIsTrue' /\ ConnectedIsTrue'
  <1> USE DEF SettingsTypeOK, VerdictIsTrue, ConnectedIsTrue, Send, To, End, Busy, Of, Show, Close, NoBody, NewConfig, Lasting, InDoubt,
              Steps, Later, KeyPlaces, FinishPlaces, stored, screens,
              forms, ghosts
  <1>1. ASSUME NEW f \in KeyForms, NEW k \in ApiKeys, PostKey(f, k)
        PROVE  VerdictIsTrue' /\ ConnectedIsTrue'
    BY <1>1 DEF PostKey
  <1>2. ASSUME NEW sc \in Scopes, PostChoices(sc)
        PROVE  VerdictIsTrue' /\ ConnectedIsTrue'
    BY <1>2 DEF PostChoices
  <1>3. ASSUME NEW sc \in Scopes, ChangeScope(sc)
        PROVE  VerdictIsTrue' /\ ConnectedIsTrue'
    BY <1>3 DEF ChangeScope
  <1>4. ASSUME NEW email \in BOOLEAN, PostRow(email)
        PROVE  VerdictIsTrue' /\ ConnectedIsTrue'
    BY <1>4 DEF PostRow
  <1>5. CASE OpenWizard
    BY <1>5 DEF OpenWizard
  <1>6. CASE OpenWizardFails
    BY <1>6 DEF OpenWizardFails
  <1>7. CASE LeaveWizard
    BY <1>7 DEF LeaveWizard
  <1>8. CASE NextFromConnect
    BY <1>8 DEF NextFromConnect
  <1>9. CASE NextFromCheck
    BY <1>9 DEF NextFromCheck
  <1>10. CASE GoBack
    BY <1>10 DEF GoBack
  <1>11. CASE PostBusiness
    BY <1>11 DEF PostBusiness
  <1>12. CASE LoadRow
    BY <1>12 DEF LoadRow
  <1>13. CASE AdvanceCursor
    BY <1>13 DEF AdvanceCursor
  <1>14. ASSUME NEW n \in Slots, UpsertConnection(n)
        PROVE  VerdictIsTrue' /\ ConnectedIsTrue'
    BY <1>14 DEF UpsertConnection
  <1>15. ASSUME NEW n \in Slots, TestKey(n)
        PROVE  VerdictIsTrue' /\ ConnectedIsTrue'
    BY <1>15 DEF TestKey
  <1>16. ASSUME NEW n \in Slots, RecordTestResult(n)
        PROVE  VerdictIsTrue' /\ ConnectedIsTrue'
    BY <1>16 DEF RecordTestResult
  <1>17. ASSUME NEW n \in Slots, ReadStatus(n)
        PROVE  VerdictIsTrue' /\ ConnectedIsTrue'
    BY <1>17 DEF ReadStatus
  <1>18. ASSUME NEW n \in Slots, StatusRead(n)
        PROVE  VerdictIsTrue' /\ ConnectedIsTrue'
    BY <1>18 DEF StatusRead
  <1>19. ASSUME NEW n \in Slots, KeySaved(n)
        PROVE  VerdictIsTrue' /\ ConnectedIsTrue'
    BY <1>19 DEF KeySaved
  <1>20. ASSUME NEW n \in Slots, SaveBusiness(n)
        PROVE  VerdictIsTrue' /\ ConnectedIsTrue'
    BY <1>20 DEF SaveBusiness
  <1>21. ASSUME NEW n \in Slots, BusinessSaved(n)
        PROVE  VerdictIsTrue' /\ ConnectedIsTrue'
    BY <1>21 DEF BusinessSaved
  <1>22. ASSUME NEW n \in Slots, SaveChoices(n)
        PROVE  VerdictIsTrue' /\ ConnectedIsTrue'
    BY <1>22 DEF SaveChoices
  <1>23. ASSUME NEW n \in Slots, SyncProductsNow(n)
        PROVE  VerdictIsTrue' /\ ConnectedIsTrue'
    BY <1>23 DEF SyncProductsNow
  <1>24. ASSUME NEW n \in Slots, CompleteSetup(n)
        PROVE  VerdictIsTrue' /\ ConnectedIsTrue'
    BY <1>24 DEF CompleteSetup
  <1>25. ASSUME NEW n \in Slots, Finished(n)
        PROVE  VerdictIsTrue' /\ ConnectedIsTrue'
    BY <1>25 DEF Finished
  <1>26. ASSUME NEW n \in Slots, SaveRow(n)
        PROVE  VerdictIsTrue' /\ ConnectedIsTrue'
    BY <1>26 DEF SaveRow
  <1>27. ASSUME NEW n \in Slots, RequestFails(n)
        PROVE  VerdictIsTrue' /\ ConnectedIsTrue'
    <2>1. /\ \A m \in Slots : IF m = n THEN place'[m] = "idle"
                                        ELSE place'[m] = place[m] /\ body'[m] = body[m]
          /\ connection' = connection
          /\ unproven' = (unproven \/ place[n] \in {"test", "record"})
      <3> HIDE DEF VerdictIsTrue, ConnectedIsTrue
      <3> QED
        BY <1>27 DEF RequestFails
    <2>2. VerdictIsTrue'
      BY <2>1
    <2>3. ConnectedIsTrue'
      BY <2>1
    <2>4. QED
      BY <2>2, <2>3
  <1>28. CASE UNCHANGED settingsVars
    BY <1>28 DEF settingsVars
  <1> HIDE DEF SettingsTypeOK, VerdictIsTrue, ConnectedIsTrue, Send, To, End, Busy, Of, Show, Close, NoBody, NewConfig, Lasting, InDoubt,
               Steps, Later, KeyPlaces, FinishPlaces, stored, screens,
               forms, ghosts
  <1>29. QED
    BY <1>1, <1>2, <1>3, <1>4, <1>5, <1>6, <1>7, <1>8, <1>9, <1>10, <1>11, <1>12, <1>13, <1>14,
       <1>15, <1>16, <1>17, <1>18, <1>19, <1>20, <1>21, <1>22, <1>23, <1>24, <1>25, <1>26, <1>27,
       <1>28 DEF SettingsNext

LEMMA SettingsWizardStep ==
  ASSUME SettingsIInv, SettingsTypeOK', [SettingsNext]_settingsVars
  PROVE  /\ WizardReads' /\ LaterIsConnected' /\ LastHaveEmail'
         /\ LeftIsDeaf' /\ SavedHasEmail' /\ FinishIsReady'
  <1> DEFINE Read == WizardReads /\ LaterIsConnected /\ LastHaveEmail
                     /\ LeftIsDeaf /\ SavedHasEmail /\ FinishIsReady
  <1> USE DEF SettingsIInv, SettingsTypeOK, FormFits, WizardReads, LaterIsConnected,
              LastHaveEmail, LeftIsDeaf, SavedHasEmail, FinishIsReady,
              Send, To, End, Busy, Of, Show, Close, NoBody, NewConfig, Lasting, InDoubt,
              Steps, Later, KeyPlaces, FinishPlaces, stored, screens,
              forms, ghosts
  <1>1. ASSUME NEW f \in KeyForms, NEW k \in ApiKeys, PostKey(f, k)
        PROVE  Read'
    BY <1>1 DEF PostKey
  <1>2. ASSUME NEW sc \in Scopes, PostChoices(sc)
        PROVE  Read'
    BY <1>2 DEF PostChoices
  <1>3. ASSUME NEW sc \in Scopes, ChangeScope(sc)
        PROVE  Read'
    BY <1>3 DEF ChangeScope
  <1>4. ASSUME NEW email \in BOOLEAN, PostRow(email)
        PROVE  Read'
    BY <1>4 DEF PostRow
  <1>5. CASE OpenWizard
    BY <1>5 DEF OpenWizard
  <1>6. CASE OpenWizardFails
    BY <1>6 DEF OpenWizardFails
  <1>7. CASE LeaveWizard
    BY <1>7 DEF LeaveWizard
  <1>8. CASE NextFromConnect
    BY <1>8 DEF NextFromConnect
  <1>9. CASE NextFromCheck
    BY <1>9 DEF NextFromCheck
  <1>10. CASE GoBack
    BY <1>10 DEF GoBack
  <1>11. CASE PostBusiness
    BY <1>11 DEF PostBusiness
  <1>12. CASE LoadRow
    BY <1>12 DEF LoadRow
  <1>13. CASE AdvanceCursor
    BY <1>13 DEF AdvanceCursor
  <1>14. ASSUME NEW n \in Slots, UpsertConnection(n)
        PROVE  Read'
    BY <1>14 DEF UpsertConnection
  <1>15. ASSUME NEW n \in Slots, TestKey(n)
        PROVE  Read'
    BY <1>15 DEF TestKey
  <1>16. ASSUME NEW n \in Slots, RecordTestResult(n)
        PROVE  Read'
    BY <1>16 DEF RecordTestResult
  <1>17. ASSUME NEW n \in Slots, ReadStatus(n)
        PROVE  Read'
    BY <1>17 DEF ReadStatus
  <1>18. ASSUME NEW n \in Slots, StatusRead(n)
        PROVE  Read'
    BY <1>18 DEF StatusRead
  <1>19. ASSUME NEW n \in Slots, KeySaved(n)
        PROVE  Read'
    BY <1>19 DEF KeySaved
  <1>20. ASSUME NEW n \in Slots, SaveBusiness(n)
        PROVE  Read'
    BY <1>20 DEF SaveBusiness
  <1>21. ASSUME NEW n \in Slots, BusinessSaved(n)
        PROVE  Read'
    BY <1>21 DEF BusinessSaved
  <1>22. ASSUME NEW n \in Slots, SaveChoices(n)
        PROVE  Read'
    BY <1>22 DEF SaveChoices
  <1>23. ASSUME NEW n \in Slots, SyncProductsNow(n)
        PROVE  Read'
    BY <1>23 DEF SyncProductsNow
  <1>24. ASSUME NEW n \in Slots, CompleteSetup(n)
        PROVE  Read'
    BY <1>24 DEF CompleteSetup
  <1>25. ASSUME NEW n \in Slots, Finished(n)
        PROVE  Read'
    BY <1>25 DEF Finished
  <1>26. ASSUME NEW n \in Slots, SaveRow(n)
        PROVE  Read'
    BY <1>26 DEF SaveRow
  <1>27. ASSUME NEW n \in Slots, RequestFails(n)
        PROVE  Read'
    BY <1>27 DEF RequestFails
  <1>28. CASE UNCHANGED settingsVars
    BY <1>28 DEF settingsVars
  <1> HIDE DEF SettingsIInv, SettingsTypeOK, FormFits, WizardReads, LaterIsConnected,
               LastHaveEmail, LeftIsDeaf, SavedHasEmail, FinishIsReady,
               Send, To, End, Busy, Of, Show, Close, NoBody, NewConfig, Lasting, InDoubt,
               Steps, Later, KeyPlaces, FinishPlaces, stored, screens,
               forms, ghosts
  <1>29. QED
    BY <1>1, <1>2, <1>3, <1>4, <1>5, <1>6, <1>7, <1>8, <1>9, <1>10, <1>11, <1>12, <1>13, <1>14,
       <1>15, <1>16, <1>17, <1>18, <1>19, <1>20, <1>21, <1>22, <1>23, <1>24, <1>25, <1>26, <1>27,
       <1>28 DEF SettingsNext

-----------------------------------------------------------------------------
LEMMA SettingsInductive == SettingsSpec => []SettingsIInv
  <1>1. SettingsIInv /\ [SettingsNext]_settingsVars => SettingsIInv'
    BY SettingsTypeStep, SettingsFormStep, SettingsKeyStep, SettingsWizardStep DEF SettingsIInv
  <1>2. QED
    BY SettingsInitIInv, <1>1, PTL DEF SettingsSpec

(* A connection shown as CONNECTED, with no test of it under way and none  *)
(* that broke off or was crossed by another key, holds a key Decathlon     *)
(* accepts (decathlon-connection.service.ts:30-59).                        *)
THEOREM KeyIsAccepted == SettingsSpec => []ConnectedIsTrue
  <1>1. SettingsIInv => ConnectedIsTrue
    BY DEF SettingsIInv
  <1>2. QED
    BY SettingsInductive, <1>1, PTL

(* A finish that marks the setup as completed has a connection, an e-mail  *)
(* and its own choices in the shop's row (Setup.tsx:418-435), except where *)
(* another page, a test the wizard has not read, a step taken too early or *)
(* a second finish came in between.                                        *)
THEOREM SetupIsReady == SettingsSpec => SetupEndsReady
  <1> DEFINE Ends == ~config.completed /\ config'.completed =>
        \E n \in Slots :
            /\ place[n] = "complete" /\ place'[n] = "finished"
            /\ connection.status = "CONNECTED" \/ moved \/ ahead
            /\ config.email \/ edited
            /\ config.scope = body[n].row.scope \/ edited \/ n \in overwritten
  <1>1. ASSUME SettingsIInv, [SettingsNext]_settingsVars
        PROVE  [Ends]_settingsVars
    <2> USE DEF SettingsIInv, SettingsTypeOK, Rows, FinishIsReady, FinishPlaces, stored, screens,
                forms, ghosts
    <2>1. CASE \E n \in Slots : CompleteSetup(n)
      BY <1>1, <2>1 DEF CompleteSetup, To
    <2>2. CASE ~\E n \in Slots : CompleteSetup(n)
      <3>1. config'.completed = config.completed
        BY <1>1, <2>2 DEF SettingsNext, settingsVars, PostKey, UpsertConnection, TestKey,
           RecordTestResult, ReadStatus, StatusRead, KeySaved, OpenWizard, OpenWizardFails,
           LeaveWizard, NextFromConnect, NextFromCheck, GoBack, PostBusiness, SaveBusiness,
           BusinessSaved, PostChoices, ChangeScope, SaveChoices, SyncProductsNow, Finished,
           LoadRow, PostRow, SaveRow, Editable, AdvanceCursor, RequestFails
      <3>2. QED
        BY <3>1
    <2>3. QED
      BY <2>1, <2>2
  <1>2. QED
    BY SettingsInductive, <1>1, PTL DEF SettingsSpec, SetupEndsReady

(* No settings save puts back the order-import cursor or the completed     *)
(* setup, however old the row it posts (sync-configuration.service.ts:25). *)
THEOREM InternalsKept == SettingsSpec => InternalStateKept
  <1> DEFINE Kept == /\ config'.cursor >= config.cursor
                     /\ config.completed => config'.completed
  <1>1. ASSUME SettingsIInv, [SettingsNext]_settingsVars
        PROVE  [Kept]_settingsVars
    <2> USE <1>1 DEF SettingsIInv, SettingsTypeOK, Rows, stored, forms, screens, ghosts
    <2> DEFINE Writes(n) == \/ SaveRow(n) \/ SaveBusiness(n) \/ SaveChoices(n)
                            \/ CompleteSetup(n)
    <2>1. ASSUME NEW n \in Slots, Writes(n)
          PROVE  Kept
      <3>1. CASE SaveRow(n)
        BY <3>1 DEF SaveRow, Editable
      <3>2. CASE SaveBusiness(n)
        BY <3>2 DEF SaveBusiness
      <3>3. CASE SaveChoices(n)
        BY <3>3 DEF SaveChoices
      <3>4. CASE CompleteSetup(n)
        BY <3>4 DEF CompleteSetup
      <3>5. QED
        BY <2>1, <3>1, <3>2, <3>3, <3>4
    <2>2. CASE AdvanceCursor
      BY <2>2 DEF AdvanceCursor
    <2>3. CASE \E sc \in Scopes : ChangeScope(sc)
      BY <2>3 DEF ChangeScope
    <2>4. CASE UNCHANGED config
      BY <2>4
    <2>5. \/ \E n \in Slots : Writes(n)
          \/ AdvanceCursor
          \/ \E sc \in Scopes : ChangeScope(sc)
          \/ UNCHANGED config
      BY DEF SettingsNext, settingsVars, PostKey, UpsertConnection, TestKey, RecordTestResult,
         ReadStatus, StatusRead, KeySaved, OpenWizard, OpenWizardFails, LeaveWizard,
         NextFromConnect, NextFromCheck, GoBack, PostBusiness, BusinessSaved, PostChoices,
         SyncProductsNow, Finished, LoadRow, PostRow, RequestFails
    <2>6. QED
      BY <2>1, <2>2, <2>3, <2>4, <2>5
  <1>2. QED
    BY SettingsInductive, <1>1, PTL DEF SettingsSpec, InternalStateKept

HIDE SettingsAssumption DEF KeyForms, WizardForms

-----------------------------------------------------------------------------
(* Mappings                                                                *)

(* What the buttons of the page ask for.                                   *)
Calls ==
    {NoCall}
      \cup [op : {"category"}, of : Types, to : Categories]
      \cup [op : {"details"}, of : Types, to : Charts \cup {None}]
      \cup [op : {"clearCategory"}, of : Types, to : {None}]
      \cup [op : {"save"}, of : Keys, to : Codes]
      \cup [op : {"clear"}, of : Keys, to : {None}]
      \cup [op : {"confirmAll"}, of : {None}, to : {None}]
      \cup [op : {"setType"}, of : {None}, to : Types]

MappingsTypeOK ==
    /\ rule \in [Types -> [category : Categories \cup {None}, chart : Charts \cup {None}]]
    /\ coded \in [Keys -> Codes \cup {None}]
    /\ typed \in [Products -> Types \cup {None}]
    /\ call \in [Requests -> Calls]
    /\ pc \in [Requests -> {"free", "write", "find", "rows", "confirm", "each", "ok", "refused"}]
    /\ todo \in [Requests -> SUBSET (Vendors \cup Products)]
    /\ wrote \in [Requests -> BOOLEAN]
    /\ since \in [Requests -> SUBSET Keys]
    /\ section \in Sections /\ asked \in Nat
    /\ late \in BOOLEAN /\ failed \in BOOLEAN /\ behind \in BOOLEAN /\ silent \in BOOLEAN

AnswersAreViews == \E V : answers \in Seq([view : V, old : BOOLEAN])

(* A handler is where its call takes it, and only a handler writes.        *)
CallFits == \A r \in Requests :
    /\ pc[r] = "write" => call[r] # NoCall
    /\ pc[r] = "find" => call[r].op = "details"
    /\ pc[r] \in {"rows", "confirm"} => call[r].op = "confirmAll"
    /\ pc[r] = "each" => call[r].op = "setType"
    /\ wrote[r] => pc[r] # "free"

(* Once the rows were read after the last change, the newest answer says   *)
(* what they are, whether it is on its way or is what the section shows.   *)
NewestIsTrue == ~behind =>
    \/ /\ answers # <<>>
       /\ answers[Len(answers)].view = View(section) /\ ~answers[Len(answers)].old
    \/ /\ \A n \in 1..Len(answers) : answers[n].old
       /\ late \/ failed \/ shown = View(section)

(* Until then a load is on its way, or one comes with the answer to a      *)
(* request that wrote, unless the page was not told or a load failed.      *)
ReloadComes == behind =>
    \/ silent \/ failed \/ asked > 0
    \/ \E r \in Requests : wrote[r] /\ Reloads(call[r]) > 0

(* What confirm-all has still to save was not mapped, or was left to the   *)
(* code it saves, when it read the rows.                                   *)
ChoicesMadeSince == \A r \in Requests : pc[r] = "confirm" =>
    \A v \in todo[r] \cap Vendors : coded[v] \in {None, Exact[v]} \/ v \in since[r]

MappingsIInv ==
    /\ MappingsTypeOK /\ AnswersAreViews /\ CallFits
    /\ NewestIsTrue /\ ReloadComes /\ ChoicesMadeSince

LEMMA MappingsInitIInv == MappingsInit => MappingsIInv
  <1> SUFFICES ASSUME MappingsInit PROVE MappingsIInv
    OBVIOUS
  <1>1. MappingsTypeOK
    BY DEF MappingsInit, MappingsTypeOK, Calls, NoRule, NoCall, Keys
  <1>2. AnswersAreViews
    <2>1. answers \in Seq([view : {}, old : BOOLEAN])
      BY DEF MappingsInit
    <2>2. QED
      BY <2>1 DEF AnswersAreViews
  <1>3. CallFits /\ NewestIsTrue /\ ReloadComes /\ ChoicesMadeSince
    BY DEF MappingsInit, CallFits, NewestIsTrue, ReloadComes, ChoicesMadeSince
  <1>4. QED
    BY <1>1, <1>2, <1>3 DEF MappingsIInv

(* What a section shows depends on the rows only.                          *)
LEMMA ViewKept ==
  ASSUME UNCHANGED <<database, section>>
  PROVE  View(section)' = View(section)
  BY DEF View, Ready, database

LEMMA ReloadsIsNat ==
  ASSUME NEW c
  PROVE  Reloads(c) \in Nat
  BY DEF Reloads

LEMMA ReloadsKept ==
  ASSUME UNCHANGED section, NEW c, NEW r \in Requests, c = call'[r]
  PROVE  Reloads(call[r])' = Reloads(c)
  BY DEF Reloads

(* A button asks for one thing, for which a free request is taken.         *)
Posts(r, c, ids) ==
    /\ pc[r] = "free"
    /\ call' = [call EXCEPT ![r] = c]
    /\ pc' = [pc EXCEPT ![r] = Start(c)]
    /\ todo' = [todo EXCEPT ![r] = ids]
    /\ UNCHANGED <<database, wrote, since, loads, behind, silent>>

LEMMA AskPosts ==
  ASSUME Ask
  PROVE  \E r \in Requests, c \in Calls \ {NoCall}, ids \in SUBSET Products : Posts(r, c, ids)
  <1> USE DEF Post, Posts, NoCall
  <1>1. ASSUME NEW c \in Calls \ {NoCall}, NEW ids \in SUBSET Products, Post(c, ids)
        PROVE  \E r \in Requests, d \in Calls \ {NoCall}, is \in SUBSET Products : Posts(r, d, is)
    BY <1>1
  <1> HIDE DEF Post, Posts
  <1>2. CASE \E t \in Types : \E c \in Categories : Pick(t, c)
    <2>1. PICK t \in Types, c \in Categories : Pick(t, c)
      BY <1>2
    <2>2. [op |-> "category", of |-> t, to |-> c] \in Calls \ {NoCall}
      BY DEF Calls
    <2>3. QED
      BY <1>1, <2>1, <2>2 DEF Pick
  <1>3. CASE \E t \in Types : \E d \in Charts \cup {None} : PickDetails(t, d)
    <2>1. PICK t \in Types, d \in Charts \cup {None} : PickDetails(t, d)
      BY <1>3
    <2>2. [op |-> "details", of |-> t, to |-> d] \in Calls \ {NoCall}
      BY DEF Calls
    <2>3. QED
      BY <1>1, <2>1, <2>2 DEF PickDetails
  <1>4. CASE \E t \in Types : ClearCategory(t)
    <2>1. PICK t \in Types : ClearCategory(t)
      BY <1>4
    <2>2. [op |-> "clearCategory", of |-> t, to |-> None] \in Calls \ {NoCall}
      BY DEF Calls
    <2>3. QED
      BY <1>1, <2>1, <2>2 DEF ClearCategory
  <1>5. CASE \E t \in Types : \E ids \in SUBSET Products : SetType(ids, t)
    <2>1. PICK t \in Types, ids \in SUBSET Products : SetType(ids, t)
      BY <1>5
    <2>2. [op |-> "setType", of |-> None, to |-> t] \in Calls \ {NoCall}
      BY DEF Calls
    <2>3. QED
      BY <1>1, <2>1, <2>2 DEF SetType
  <1>6. CASE \E k \in Keys : \E c \in Codes : PickCode(k, c)
    <2>1. PICK k \in Keys, c \in Codes : PickCode(k, c)
      BY <1>6
    <2>2. [op |-> "save", of |-> k, to |-> c] \in Calls \ {NoCall}
      BY DEF Calls
    <2>3. QED
      BY <1>1, <2>1, <2>2 DEF PickCode
  <1>7. CASE \E k \in Keys : ClearCode(k)
    <2>1. PICK k \in Keys : ClearCode(k)
      BY <1>7
    <2>2. [op |-> "clear", of |-> k, to |-> None] \in Calls \ {NoCall}
      BY DEF Calls
    <2>3. QED
      BY <1>1, <2>1, <2>2 DEF ClearCode
  <1>8. CASE ConfirmAll
    <2>1. [op |-> "confirmAll", of |-> None, to |-> None] \in Calls \ {NoCall}
      BY DEF Calls
    <2>2. QED
      BY <1>1, <1>8, <2>1 DEF ConfirmAll
  <1>9. QED
    BY <1>2, <1>3, <1>4, <1>5, <1>6, <1>7, <1>8 DEF Ask

(* What a call that starts somewhere is.                                   *)
LEMMA CallsStart ==
  ASSUME NEW c \in Calls
  PROVE  /\ Start(c) \in {"write", "find", "rows", "each"}
         /\ Start(c) = "find" => c.op = "details"
         /\ Start(c) = "rows" => c.op = "confirmAll"
         /\ Start(c) = "each" => c.op = "setType"
  BY DEF Start

LEMMA CallsOf ==
  ASSUME NEW c \in Calls
  PROVE  /\ c.op = "category" => c.of \in Types /\ c.to \in Categories
         /\ c.op = "details" => c.of \in Types /\ c.to \in Charts \cup {None}
         /\ c.op = "clearCategory" => c.of \in Types
         /\ c.op \in {"save", "clear"} => c.of \in Keys /\ c.to \in Codes \cup {None}
         /\ c.op = "setType" => c.to \in Types
  BY DEF Calls, NoCall

LEMMA ElementsOf ==
  ASSUME NEW S, NEW s \in Seq(S)
  PROVE  \A n \in 1..Len(s) : s[n] \in S
  OBVIOUS

(* An answer that is shown: those asked for before it are old from then on. *)
LEMMA AnswerShown ==
  ASSUME AnswersAreViews, ShowAnswer
  PROVE  /\ AnswersAreViews' /\ late' \in BOOLEAN
         /\ \E i \in 1..Len(answers) :
              /\ shown' = answers[i].view /\ late' = answers[i].old
              /\ Len(answers') = Len(answers) - 1
              /\ \A k \in 1..(i - 1) : answers'[k].old
              /\ \A k \in i..(Len(answers) - 1) : /\ answers'[k].view = answers[k + 1].view
                                                 /\ answers'[k].old = answers[k + 1].old
  <1>1. PICK V : answers \in Seq([view : V, old : BOOLEAN])
    BY DEF AnswersAreViews
  <1>a. Len(answers) \in Nat
    BY <1>1
  <1>2. PICK i \in 1..Len(answers) :
          /\ shown' = answers[i].view
          /\ late' = answers[i].old
          /\ answers' = RemoveAt([n \in 1..Len(answers) |->
                                     [answers[n] EXCEPT !.old = @ \/ n < i]], i)
    BY DEF ShowAnswer
  <1> DEFINE S == [view : V, old : BOOLEAN]
             m == [n \in 1..Len(answers) |-> [answers[n] EXCEPT !.old = @ \/ n < i]]
  <1>b. answers \in Seq(S)
    BY <1>1
  <1> HIDE DEF S
  <1>3. \A n \in 1..Len(answers) : answers[n] \in S
    BY <1>b, ElementsOf
  <1>4. \A n \in 1..Len(answers) :
          m[n] \in S /\ m[n].view = answers[n].view /\ m[n].old = (answers[n].old \/ n < i)
    BY <1>3 DEF S
  <1>5. m \in Seq(S) /\ Len(m) = Len(answers)
    BY <1>1, <1>4
  <1>6. answers' = RemoveAt(m, i)
    BY <1>2
  <1> HIDE DEF S, m
  <1>7. /\ answers' \in Seq(S) /\ Len(answers') = Len(answers) - 1
        /\ \A k \in 1..(i - 1) : answers'[k] = m[k]
        /\ \A k \in i..(Len(answers) - 1) : answers'[k] = m[k + 1]
    BY <1>5, <1>6, Removed
  <1>8. AnswersAreViews'
    BY <1>7 DEF AnswersAreViews, S
  <1>9. ASSUME NEW k \in 1..(i - 1)
        PROVE  answers'[k].old
    <2>1. k \in 1..Len(answers) /\ k < i
      BY <1>a
    <2>2. m[k].old = TRUE
      BY <1>4, <2>1
    <2>3. QED
      BY <1>7, <2>2
  <1>10. ASSUME NEW k \in i..(Len(answers) - 1)
         PROVE  answers'[k].view = answers[k + 1].view /\ answers'[k].old = answers[k + 1].old
    <2>1. k + 1 \in 1..Len(answers) /\ ~(k + 1 < i)
      BY <1>a
    <2>2. answers[k + 1].old \in BOOLEAN
      BY <1>3, <2>1 DEF S
    <2>3. QED
      BY <1>4, <1>7, <2>1, <2>2
  <1>11. late' \in BOOLEAN
    BY <1>2, <1>3 DEF S
  <1>12. QED
    BY <1>2, <1>7, <1>8, <1>9, <1>10, <1>11

LEMMA MappingsTypeStep ==
  ASSUME MappingsTypeOK, AnswersAreViews, CallFits, [MappingsNext]_mappingVars
  PROVE  MappingsTypeOK' /\ CallFits'
  <1> USE DEF MappingsTypeOK, CallFits, At, Goto, Changed, PutRow, database, handlers, loads
  <1>1. CASE Ask
    <2>1. PICK r \in Requests, c \in Calls \ {NoCall}, ids \in SUBSET Products : Posts(r, c, ids)
      BY <1>1, AskPosts
    <2>2. call' \in [Requests -> Calls] /\ \A q \in Requests : call'[q] = IF q = r THEN c ELSE call[q]
      BY <2>1 DEF Posts
    <2>3. /\ pc' \in [Requests -> {"free", "write", "find", "rows", "confirm", "each", "ok", "refused"}]
          /\ \A q \in Requests : pc'[q] = IF q = r THEN Start(c) ELSE pc[q]
      BY <2>1, CallsStart DEF Posts
    <2>4. MappingsTypeOK'
      BY <2>1, <2>2, <2>3 DEF Posts
    <2>5. CallFits'
      BY <2>1, <2>2, <2>3, CallsStart DEF Posts
    <2>6. QED
      BY <2>4, <2>5
  <1>2. ASSUME NEW r \in Requests, SaveCategory(r)
        PROVE  MappingsTypeOK' /\ CallFits'
    <2>1. call[r].of \in Types /\ call[r].to \in Categories
      BY <1>2, CallsOf DEF SaveCategory
    <2>2. rule' \in [Types -> [category : Categories \cup {None}, chart : Charts \cup {None}]]
      BY <1>2, <2>1 DEF SaveCategory
    <2>3. QED
      BY <1>2, <2>2 DEF SaveCategory
  <1>3. ASSUME NEW r \in Requests, FindRule(r)
        PROVE  MappingsTypeOK' /\ CallFits'
    BY <1>3 DEF FindRule, NoCall
  <1>4. ASSUME NEW r \in Requests, SaveDetails(r)
        PROVE  MappingsTypeOK' /\ CallFits'
    <2>1. call[r].of \in Types /\ call[r].to \in Charts \cup {None}
      BY <1>4, CallsOf DEF SaveDetails
    <2>2. rule' \in [Types -> [category : Categories \cup {None}, chart : Charts \cup {None}]]
      BY <1>4, <2>1 DEF SaveDetails
    <2>3. QED
      BY <1>4, <2>2 DEF SaveDetails
  <1>5. ASSUME NEW r \in Requests, RuleGone(r)
        PROVE  MappingsTypeOK' /\ CallFits'
    BY <1>5 DEF RuleGone
  <1>6. ASSUME NEW r \in Requests, DeleteCategory(r)
        PROVE  MappingsTypeOK' /\ CallFits'
    <2>1. rule' \in [Types -> [category : Categories \cup {None}, chart : Charts \cup {None}]]
      BY <1>6 DEF DeleteCategory, NoRule
    <2>2. QED
      BY <1>6, <2>1 DEF DeleteCategory
  <1>7. ASSUME NEW r \in Requests, SaveCode(r)
        PROVE  MappingsTypeOK' /\ CallFits'
    <2>1. call[r].of \in Keys /\ call[r].to \in Codes \cup {None}
      BY <1>7, CallsOf DEF SaveCode
    <2>2. coded' \in [Keys -> Codes \cup {None}] /\ since' \in [Requests -> SUBSET Keys]
      BY <1>7, <2>1 DEF SaveCode
    <2>3. QED
      BY <1>7, <2>2 DEF SaveCode
  <1>8. ASSUME NEW r \in Requests, Refuse(r)
        PROVE  MappingsTypeOK' /\ CallFits'
    BY <1>8 DEF Refuse
  <1>9. ASSUME NEW r \in Requests, ReadRows(r)
        PROVE  MappingsTypeOK' /\ CallFits'
    BY <1>9 DEF ReadRows, Unconfirmed
  <1>10. ASSUME NEW r \in Requests, NEW v \in Vendors, ConfirmRow(r, v)
         PROVE  MappingsTypeOK' /\ CallFits'
    <2>1. v \in Keys /\ Exact[v] \in Codes \cup {None}
      BY MappingsAssumption DEF Keys
    <2>2. coded' \in [Keys -> Codes \cup {None}] /\ since' \in [Requests -> SUBSET Keys]
      BY <1>10, <2>1 DEF ConfirmRow
    <2>3. QED
      BY <1>10, <2>2 DEF ConfirmRow
  <1>11. ASSUME NEW r \in Requests, ConfirmStops(r)
         PROVE  MappingsTypeOK' /\ CallFits'
    BY <1>11 DEF ConfirmStops
  <1>12. ASSUME NEW r \in Requests, NEW p \in Products, SetOneType(r, p)
         PROVE  MappingsTypeOK' /\ CallFits'
    <2>1. call[r].to \in Types
      BY <1>12, CallsOf DEF SetOneType
    <2>2. typed' \in [Products -> Types \cup {None}]
      BY <1>12, <2>1 DEF SetOneType
    <2>3. todo' \in [Requests -> SUBSET (Vendors \cup Products)]
      BY <1>12 DEF SetOneType
    <2>4. wrote' \in [Requests -> BOOLEAN] /\ behind' \in BOOLEAN /\ silent' \in BOOLEAN
      BY <1>12 DEF SetOneType
    <2>5. CallFits'
      BY <1>12 DEF SetOneType
    <2>6. QED
      BY <1>12, <2>2, <2>3, <2>4, <2>5 DEF SetOneType
  <1>13. ASSUME NEW r \in Requests, AllWritten(r)
         PROVE  MappingsTypeOK' /\ CallFits'
    BY <1>13 DEF AllWritten
  <1>14. ASSUME NEW r \in Requests, Free(r), asked' \in Nat, silent' \in BOOLEAN
         PROVE  MappingsTypeOK' /\ CallFits'
    <2>1. call' \in [Requests -> Calls]
      BY <1>14 DEF Free, Calls
    <2>2. QED
      BY <1>14, <2>1 DEF Free
  <1>15. ASSUME NEW r \in Requests, Done(r) \/ Refused(r) \/ AnswerLost(r)
         PROVE  MappingsTypeOK' /\ CallFits'
    <2>1. Free(r)
      BY <1>15 DEF Done, Refused, AnswerLost
    <2>2. asked' \in Nat
      BY <1>15, ReloadsIsNat DEF Done, Refused, AnswerLost
    <2>3. silent' \in BOOLEAN
      BY <1>15 DEF Done, Refused, AnswerLost
    <2>4. QED
      BY <1>14, <2>1, <2>2, <2>3
  <1>16. CASE ReadRowsFor
    <2>1. asked' \in Nat
      BY <1>16 DEF ReadRowsFor
    <2>2. CallFits'
      BY <1>16 DEF ReadRowsFor
    <2>3. QED
      BY <1>16, <2>1, <2>2 DEF ReadRowsFor
  <1>17. CASE LoadFails
    BY <1>17 DEF LoadFails
  <1>18. CASE ShowAnswer
    <2>1. late' \in BOOLEAN
      BY <1>18, AnswerShown
    <2>2. UNCHANGED <<database, handlers, section, asked, failed, behind, silent>>
      BY <1>18 DEF ShowAnswer
    <2>3. QED
      BY <2>1, <2>2
  <1>19. CASE UNCHANGED mappingVars
    BY <1>19 DEF mappingVars
  <1>20. QED
    BY <1>1, <1>2, <1>3, <1>4, <1>5, <1>6, <1>7, <1>8, <1>9, <1>10, <1>11, <1>12, <1>13, <1>15,
       <1>16, <1>17, <1>18, <1>19 DEF MappingsNext, Handle, Hear

(* The steps that read or show rows are the only ones to bring a section   *)
(* up to date, and those that write rows the only ones to leave it behind. *)
LEMMA MappingsNewestStep ==
  ASSUME MappingsTypeOK, AnswersAreViews, NewestIsTrue, [MappingsNext]_mappingVars
  PROVE  AnswersAreViews' /\ NewestIsTrue'
  <1>1. CASE ReadRowsFor
    <2>1. PICK V : answers \in Seq([view : V, old : BOOLEAN])
      BY DEF AnswersAreViews
    <2> DEFINE W == V \cup {View(section)}
               S == [view : W, old : BOOLEAN]
               a == [view |-> View(section), old |-> FALSE]
    <2>2. answers \in Seq(S)
      <3>1. [view : V, old : BOOLEAN] \subseteq S
        OBVIOUS
      <3>2. QED
        BY <2>1, <3>1, SeqMonotonic
    <2>3. a \in S /\ a.view = View(section) /\ a.old = FALSE
      OBVIOUS
    <2>4. answers' = Append(answers, a)
      BY <1>1 DEF ReadRowsFor
    <2>5. View(section)' = View(section)
      BY <1>1, ViewKept DEF ReadRowsFor
    <2> HIDE DEF S, a
    <2>6. /\ answers' \in Seq(S) /\ answers' # <<>>
          /\ answers'[Len(answers')] = a
      BY <2>2, <2>3, <2>4
    <2>7. AnswersAreViews'
      BY <2>6 DEF AnswersAreViews, S
    <2>8. NewestIsTrue'
      BY <2>3, <2>5, <2>6 DEF NewestIsTrue
    <2>9. QED
      BY <2>7, <2>8
  <1>2. CASE ShowAnswer
    <2>1. PICK i \in 1..Len(answers) :
            /\ shown' = answers[i].view /\ late' = answers[i].old
            /\ Len(answers') = Len(answers) - 1
            /\ \A k \in 1..(i - 1) : answers'[k].old
            /\ \A k \in i..(Len(answers) - 1) : /\ answers'[k].view = answers[k + 1].view
                                               /\ answers'[k].old = answers[k + 1].old
      BY <1>2, AnswerShown
    <2>2. View(section)' = View(section) /\ behind' = behind
      BY <1>2, ViewKept DEF ShowAnswer
    <2>3. AnswersAreViews'
      BY <1>2, AnswerShown
    <2>4. Len(answers) \in Nat /\ Len(answers') \in Nat /\ (answers' # <<>> <=> Len(answers') # 0)
      BY <2>3 DEF AnswersAreViews
    <2> DEFINE n == Len(answers)
    <2>5. ASSUME ~behind, answers[n].view = View(section), ~answers[n].old, i = n
          PROVE  NewestIsTrue'
      <3>1. \A k \in 1..Len(answers') : answers'[k].old
        BY <2>1, <2>4, <2>5
      <3>2. shown' = View(section)'
        BY <2>1, <2>2, <2>5
      <3>3. QED
        BY <3>1, <3>2 DEF NewestIsTrue
    <2>6. ASSUME ~behind, answers[n].view = View(section), ~answers[n].old, i # n
          PROVE  NewestIsTrue'
      <3>1. n - 1 \in i..(n - 1) /\ Len(answers') = n - 1 /\ n - 1 + 1 = n /\ n - 1 # 0
        BY <2>1, <2>4, <2>6
      <3>2. answers'[n - 1].view = answers[n].view /\ answers'[n - 1].old = answers[n].old
        BY <2>1, <3>1
      <3>3. /\ answers' # <<>> /\ ~answers'[Len(answers')].old
            /\ answers'[Len(answers')].view = View(section)'
        BY <2>2, <2>4, <2>6, <3>1, <3>2
      <3>4. QED
        BY <3>3 DEF NewestIsTrue
    <2>7. ASSUME ~behind, \A k \in 1..n : answers[k].old
          PROVE  NewestIsTrue'
      <3>1. late'
        BY <2>1, <2>7
      <3>2. ASSUME NEW k \in 1..Len(answers')
            PROVE  answers'[k].old
        <4>1. CASE k < i
          BY <2>1, <2>4, <4>1
        <4>2. CASE ~(k < i)
          <5>1. k \in i..(n - 1) /\ k + 1 \in 1..n
            BY <2>1, <2>4, <4>2
          <5>2. QED
            BY <2>1, <2>7, <5>1
        <4>3. QED
          BY <4>1, <4>2
      <3>3. QED
        BY <3>1, <3>2 DEF NewestIsTrue
    <2>8. CASE behind
      BY <2>2, <2>3, <2>8 DEF NewestIsTrue
    <2>9. CASE ~behind
      BY <2>3, <2>5, <2>6, <2>7, <2>9 DEF NewestIsTrue
    <2>10. QED
      BY <2>3, <2>8, <2>9
  <1>3. ASSUME UNCHANGED <<database, section, answers, behind>>, failed' \/ UNCHANGED <<shown, late, failed>>
        PROVE  AnswersAreViews' /\ NewestIsTrue'
    <2>1. View(section)' = View(section)
      BY <1>3, ViewKept
    <2>2. QED
      BY <1>3, <2>1 DEF AnswersAreViews, NewestIsTrue
  <1>4. ASSUME behind', UNCHANGED answers
        PROVE  AnswersAreViews' /\ NewestIsTrue'
    BY <1>4 DEF AnswersAreViews, NewestIsTrue
  <1>5. CASE Ask
    BY <1>3, <1>5, AskPosts DEF Posts, loads
  <1>6. ASSUME NEW r \in Requests, Handle(r)
        PROVE  AnswersAreViews' /\ NewestIsTrue'
    <2>1. CASE FindRule(r) \/ RuleGone(r) \/ Refuse(r) \/ ReadRows(r) \/ ConfirmStops(r) \/ AllWritten(r)
      BY <1>3, <2>1 DEF FindRule, RuleGone, Refuse, ReadRows, ConfirmStops, AllWritten, loads
    <2>2. CASE SaveCategory(r) \/ SaveDetails(r) \/ DeleteCategory(r) \/ SaveCode(r)
      BY <1>4, <2>2 DEF SaveCategory, SaveDetails, DeleteCategory, SaveCode, Changed, loads
    <2>3. CASE \E v \in Vendors : ConfirmRow(r, v)
      BY <1>4, <2>3 DEF ConfirmRow, Changed, loads
    <2>4. CASE \E p \in Products : SetOneType(r, p)
      BY <1>3, <1>4, <2>4 DEF SetOneType, Changed, loads, database
    <2>5. QED
      BY <1>6, <2>1, <2>2, <2>3, <2>4 DEF Handle
  <1>7. CASE \E r \in Requests : Done(r) \/ Refused(r) \/ AnswerLost(r)
    BY <1>3, <1>7 DEF Done, Refused, AnswerLost, Free
  <1>8. CASE LoadFails
    BY <1>3, <1>8 DEF LoadFails
  <1>9. CASE UNCHANGED mappingVars
    BY <1>3, <1>9 DEF mappingVars, loads
  <1>10. QED
    BY <1>1, <1>2, <1>5, <1>6, <1>7, <1>8, <1>9 DEF MappingsNext, Hear

LEMMA MappingsReloadStep ==
  ASSUME MappingsTypeOK, CallFits, ReloadComes, [MappingsNext]_mappingVars
  PROVE  ReloadComes'
  <1>1. ASSUME NEW r \in Requests, Changed(r)
        PROVE  ReloadComes'
    <2>1. /\ wrote'[r] = TRUE /\ call'[r] = call[r]
          /\ silent' = (silent \/ Reloads(call[r]) = 0)
          /\ UNCHANGED section
      BY <1>1 DEF Changed, loads, MappingsTypeOK
    <2>2. Reloads(call[r])' = Reloads(call[r])
      BY <2>1, ReloadsKept
    <2>3. Reloads(call[r]) = 0 \/ Reloads(call[r]) > 0
      BY ReloadsIsNat
    <2>4. silent' \/ (wrote[r] /\ Reloads(call[r]) > 0)'
      BY <2>1, <2>2, <2>3
    <2>5. QED
      BY <2>4 DEF ReloadComes
  <1>2. ASSUME UNCHANGED <<section, behind, silent>>, failed' \/ failed' = failed,
               \/ failed' \/ asked' = asked,
               \A q \in Requests : wrote[q] => wrote'[q] /\ call'[q] = call[q]
        PROVE  ReloadComes'
    <2>1. CASE behind /\ ~silent /\ ~failed /\ asked = 0
      <3>1. PICK q \in Requests : wrote[q] /\ Reloads(call[q]) > 0
        BY <2>1 DEF ReloadComes, MappingsTypeOK
      <3>2. Reloads(call[q])' = Reloads(call[q])
        BY <1>2, <3>1, ReloadsKept
      <3>3. (wrote[q] /\ Reloads(call[q]) > 0)'
        BY <1>2, <3>1, <3>2
      <3>4. QED
        BY <3>3 DEF ReloadComes
    <2>2. CASE ~(behind /\ ~silent /\ ~failed /\ asked = 0)
      BY <1>2, <2>2 DEF ReloadComes, MappingsTypeOK
    <2>3. QED
      BY <2>1, <2>2
  <1>3. CASE Ask
    <2>1. PICK r \in Requests, c \in Calls \ {NoCall}, ids \in SUBSET Products : Posts(r, c, ids)
      BY <1>3, AskPosts
    <2>2. \A q \in Requests : wrote[q] => wrote'[q] /\ call'[q] = call[q]
      BY <2>1 DEF Posts, CallFits, MappingsTypeOK
    <2>3. QED
      BY <1>2, <2>1, <2>2 DEF Posts, loads
  <1>4. ASSUME NEW r \in Requests, Handle(r)
        PROVE  ReloadComes'
    <2>1. CASE FindRule(r) \/ RuleGone(r) \/ Refuse(r) \/ ReadRows(r) \/ ConfirmStops(r) \/ AllWritten(r)
      BY <1>2, <2>1 DEF FindRule, RuleGone, Refuse, ReadRows, ConfirmStops, AllWritten, loads
    <2>2. CASE SaveCategory(r) \/ SaveDetails(r) \/ DeleteCategory(r) \/ SaveCode(r)
      BY <1>1, <2>2 DEF SaveCategory, SaveDetails, DeleteCategory, SaveCode
    <2>3. CASE \E v \in Vendors : ConfirmRow(r, v)
      BY <1>1, <2>3 DEF ConfirmRow
    <2>4. CASE \E p \in Products : SetOneType(r, p)
      BY <1>1, <1>2, <2>4 DEF SetOneType, loads
    <2>5. QED
      BY <1>4, <2>1, <2>2, <2>3, <2>4 DEF Handle
  <1>5. ASSUME NEW r \in Requests, Free(r),
               asked' = asked + Reloads(call[r]) \/ (asked' = asked /\ (wrote[r] /\ behind => silent')),
               silent => silent'
        PROVE  ReloadComes'
    <2>1. /\ UNCHANGED <<section, failed, behind>>
          /\ \A q \in Requests \ {r} : wrote'[q] = wrote[q] /\ call'[q] = call[q]
      BY <1>5 DEF Free, MappingsTypeOK
    <2>2. CASE behind /\ ~silent /\ ~failed /\ asked = 0
      <3>1. PICK q \in Requests : wrote[q] /\ Reloads(call[q]) > 0
        BY <2>2 DEF ReloadComes, MappingsTypeOK
      <3>2. CASE q = r
        BY <1>5, <2>2, <3>1, <3>2, ReloadsIsNat DEF ReloadComes
      <3>3. CASE q # r
        <4>1. Reloads(call[q])' = Reloads(call[q])
          BY <2>1, <3>3, ReloadsKept
        <4>2. (wrote[q] /\ Reloads(call[q]) > 0)'
          BY <2>1, <3>1, <3>3, <4>1
        <4>3. QED
          BY <4>2 DEF ReloadComes
      <3>4. QED
        BY <3>2, <3>3
    <2>3. CASE ~(behind /\ ~silent /\ ~failed /\ asked = 0)
      <3>1. asked # 0 => asked' > 0
        BY <1>5, ReloadsIsNat DEF MappingsTypeOK
      <3>2. behind' => silent' \/ failed' \/ asked' > 0
        BY <1>5, <2>1, <2>3, <3>1
      <3>3. QED
        BY <3>2 DEF ReloadComes
    <2>4. QED
      BY <2>2, <2>3
  <1>6. CASE \E r \in Requests : Done(r) \/ Refused(r) \/ AnswerLost(r)
    <2>1. ASSUME NEW r \in Requests, Done(r)
          PROVE  ReloadComes'
      BY <1>5, <2>1 DEF Done
    <2>2. ASSUME NEW r \in Requests, Refused(r) \/ AnswerLost(r)
          PROVE  ReloadComes'
      BY <1>5, <2>2 DEF Refused, AnswerLost
    <2>3. QED
      BY <1>6, <2>1, <2>2
  <1>7. CASE ReadRowsFor
    BY <1>7 DEF ReadRowsFor, ReloadComes
  <1>8. CASE ShowAnswer
    BY <1>2, <1>8 DEF ShowAnswer, handlers
  <1>9. CASE LoadFails
    BY <1>2, <1>9 DEF LoadFails, handlers
  <1>10. CASE UNCHANGED mappingVars
    BY <1>2, <1>10 DEF mappingVars, handlers, loads
  <1>11. QED
    BY <1>3, <1>4, <1>6, <1>7, <1>8, <1>9, <1>10 DEF MappingsNext, Hear

LEMMA MappingsChoicesStep ==
  ASSUME MappingsTypeOK, CallFits, ChoicesMadeSince, [MappingsNext]_mappingVars
  PROVE  ChoicesMadeSince'
  <1> USE DEF MappingsTypeOK
  <1>1. ASSUME UNCHANGED <<coded, since, todo>>,
               \A q \in Requests : pc'[q] = "confirm" => pc[q] = "confirm"
        PROVE  ChoicesMadeSince'
    BY <1>1 DEF ChoicesMadeSince
  <1>2. ASSUME NEW r \in Requests, NEW k, NEW c, PutRow(r, k, c),
               \A q \in Requests \ {r} : todo'[q] = todo[q] /\ pc'[q] = pc[q],
               pc'[r] = "confirm" => pc[r] = "confirm" /\ todo'[r] = todo[r] \ {k}
        PROVE  ChoicesMadeSince'
    <2> SUFFICES ASSUME NEW q \in Requests, pc'[q] = "confirm", NEW v \in todo'[q] \cap Vendors
                 PROVE  coded'[v] \in {None, Exact[v]} \/ v \in since'[q]
      BY DEF ChoicesMadeSince
    <2>1. v \in Keys
      BY DEF Keys
    <2>2. /\ v # k => coded'[v] = coded[v]
          /\ since[q] \subseteq since'[q]
          /\ q # r /\ call[q].op = "confirmAll" => k \in since'[q]
      BY <1>2, <2>1 DEF PutRow
    <2>3. CASE q = r
      BY <1>2, <2>2, <2>3 DEF ChoicesMadeSince, CallFits, PutRow
    <2>4. CASE q # r
      <3>1. pc[q] = "confirm" /\ v \in todo[q] \cap Vendors /\ call[q].op = "confirmAll"
        BY <1>2, <2>4 DEF CallFits
      <3>2. QED
        BY <2>2, <2>4, <3>1 DEF ChoicesMadeSince
    <2>5. QED
      BY <2>3, <2>4
  <1>3. CASE Ask
    <2>1. PICK r \in Requests, c \in Calls \ {NoCall}, ids \in SUBSET Products : Posts(r, c, ids)
      BY <1>3, AskPosts
    <2>2. Start(c) # "confirm"
      BY CallsStart
    <2>3. QED
      BY <2>1, <2>2 DEF Posts, ChoicesMadeSince, database
  <1>4. ASSUME NEW r \in Requests, Handle(r)
        PROVE  ChoicesMadeSince'
    <2>1. CASE FindRule(r) \/ RuleGone(r) \/ Refuse(r) \/ ConfirmStops(r) \/ AllWritten(r)
      BY <1>1, <2>1 DEF FindRule, RuleGone, Refuse, ConfirmStops, AllWritten, database, Goto
    <2>2. CASE SaveCategory(r) \/ SaveDetails(r) \/ DeleteCategory(r)
      BY <1>1, <2>2 DEF SaveCategory, SaveDetails, DeleteCategory, Goto
    <2>3. CASE SaveCode(r)
      <3>1. PutRow(r, call[r].of, call[r].to) /\ Goto(r, "ok") /\ UNCHANGED todo
        BY <2>3 DEF SaveCode
      <3>2. QED
        BY <1>2, <3>1 DEF Goto
    <2>4. CASE ReadRows(r)
      BY <2>4 DEF ReadRows, Unconfirmed, ChoicesMadeSince, database, Goto
    <2>5. CASE \E v \in Vendors : ConfirmRow(r, v)
      BY <1>2, <2>5 DEF ConfirmRow
    <2>6. CASE \E p \in Products : SetOneType(r, p)
      BY <2>6 DEF SetOneType, ChoicesMadeSince
    <2>7. QED
      BY <1>4, <2>1, <2>2, <2>3, <2>4, <2>5, <2>6 DEF Handle
  <1>5. CASE \E r \in Requests : Done(r) \/ Refused(r) \/ AnswerLost(r)
    BY <1>5 DEF Done, Refused, AnswerLost, Free, ChoicesMadeSince, database
  <1>6. CASE ReadRowsFor \/ ShowAnswer \/ LoadFails
    BY <1>1, <1>6 DEF ReadRowsFor, ShowAnswer, LoadFails, handlers, database
  <1>7. CASE UNCHANGED mappingVars
    BY <1>1, <1>7 DEF mappingVars, handlers, database
  <1>8. QED
    BY <1>3, <1>4, <1>5, <1>6, <1>7 DEF MappingsNext, Hear

LEMMA MappingsInductive == MappingsSpec => []MappingsIInv
  <1>1. MappingsIInv /\ [MappingsNext]_mappingVars => MappingsIInv'
    BY MappingsTypeStep, MappingsNewestStep, MappingsReloadStep, MappingsChoicesStep DEF MappingsIInv
  <1>2. QED
    BY MappingsInitIInv, <1>1, PTL DEF MappingsSpec

(* Once no change and no load is under way, a section of the Mappings page *)
(* shows the rows as they are, unless an older answer overtook a newer     *)
(* one, its load failed, or it was not told of the last change             *)
(* (Mappings.tsx:1010 calls for a refresh after each).                     *)
THEOREM SectionsAreFresh == MappingsSpec => []StaleHasCause
  <1>1. MappingsIInv => StaleHasCause
    <2> SUFFICES ASSUME MappingsIInv, Settled, shown # View(section), ~late, ~failed, ~silent
                 PROVE  FALSE
      BY DEF StaleHasCause
    <2>1. CASE behind
      <3>1. PICK r \in Requests : wrote[r] /\ Reloads(call[r]) > 0
        BY <2>1 DEF MappingsIInv, ReloadComes, Settled
      <3>2. QED
        BY <3>1 DEF Settled
    <2>2. CASE ~behind
      BY <2>2 DEF MappingsIInv, NewestIsTrue, Settled
    <2>3. QED
      BY <2>1, <2>2
  <1>2. QED
    BY MappingsInductive, <1>1, PTL

(* Confirm-all (mappings.service.ts:407) replaces what a merchant chose    *)
(* only where it was chosen after confirm-all had read the rows.           *)
THEOREM ChoicesSurvive == MappingsSpec => ConfirmKeepsChoices
  <1> DEFINE Keeps == \A r \in Requests, v \in Vendors :
        ConfirmRow(r, v) /\ coded[v] \notin {None, Exact[v]} => v \in since[r]
  <1>1. MappingsIInv => Keeps
    BY DEF MappingsIInv, ChoicesMadeSince, ConfirmRow
  <1>2. QED
    BY MappingsInductive, <1>1, PTL DEF MappingsSpec, ConfirmKeepsChoices
=============================================================================
