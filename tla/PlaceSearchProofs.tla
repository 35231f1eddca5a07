-------------------------- MODULE PlaceSearchProofs --------------------------
(* Proofs about PlaceSearch, for every set of texts and options and any     *)
(* number of changes.                                                       *)
EXTENDS PlaceSearch, SequenceTheorems, TLAPS

SearchRecord == [query : Query, options : Option, aborted : BOOLEAN, over : BOOLEAN]

ShapeOK ==
    /\ mounted \in BOOLEAN /\ isControlled \in BOOLEAN /\ keys \in 0..MaxKeys
    /\ value \in Text /\ text \in Text /\ searchQuery \in Text /\ debounced \in Text
    /\ timer \in Text \cup {Idle} /\ options \in Option
    /\ searches \in Seq(SearchRecord)
    /\ results \in [of : 0..Len(searches), count : {0, 1}]
    /\ isLoading \in BOOLEAN /\ error \in BOOLEAN /\ hasSearched \in BOOLEAN

(* A search that is not aborted is the last one, asks for what the box asks *)
(* for now, and has no result and no error yet.                             *)
CurrentInv ==
    \A f \in Current : /\ f = Len(searches) /\ mounted
                       /\ AnswerTo(f) /\ results.of < f /\ ~error

(* Without one, what is shown answers what the box asks for now.            *)
ShownInv ==
    /\ results.count > 0 => results.of > 0 /\ ~error
    /\ mounted /\ Current = {} /\ results.count > 0 => AnswerTo(results.of)
    /\ mounted /\ isLoading => Len(searches) \in Current
    /\ hasSearched <=> debounced # Blank

(* The pending timer brings the text that is searched for.                  *)
TypedInv ==
    /\ mounted => (timer # Idle => timer = searchQuery)
                  /\ (timer = Idle => debounced = searchQuery)
    /\ ~isControlled => searchQuery = Blank \/ text = searchQuery
    /\ ~mounted => timer = Idle

SearchInv == ShapeOK /\ CurrentInv /\ ShownInv /\ TypedInv

-----------------------------------------------------------------------------
(* The list of searches.                                                   *)

LEMMA AbortedProperties ==
    ASSUME ShapeOK
    PROVE  /\ Aborted \in Seq(SearchRecord) /\ Len(Aborted) = Len(searches)
           /\ \A f \in Search : /\ Aborted[f].over = searches[f].over
                                /\ Aborted[f].query = searches[f].query
                                /\ Aborted[f].options = searches[f].options
                                /\ ~Aborted[f].over => Aborted[f].aborted
<1>1. /\ Len(searches) \in Nat /\ searches \in Seq(SearchRecord)
      /\ \A f \in Search : searches[f] \in SearchRecord
  BY DEF ShapeOK, Search
<1>2. \A f \in Search :
          /\ Aborted[f] = [searches[f] EXCEPT !.aborted = @ \/ f \in Running]
          /\ Aborted[f] \in SearchRecord
  BY <1>1 DEF Aborted, SearchRecord
<1>3. Aborted \in Seq(SearchRecord) /\ Len(Aborted) = Len(searches)
  BY <1>1, <1>2 DEF Aborted, Search
<1> QED BY <1>1, <1>2, <1>3 DEF Running, SearchRecord

LEMMA FetchProperties ==
    ASSUME ShapeOK, NEW q \in Query, options' \in Option, Fetch(q)
    PROVE  /\ searches' \in Seq(SearchRecord) /\ Len(searches') = Len(searches) + 1
           /\ Current' = {Len(searches) + 1}
           /\ searches'[Len(searches) + 1].query = q
           /\ searches'[Len(searches) + 1].options = options'
<1>1. /\ Aborted \in Seq(SearchRecord) /\ NewSearch(q) \in SearchRecord
      /\ Len(Aborted) = Len(searches) /\ Len(searches) \in Nat
  BY AbortedProperties DEF NewSearch, SearchRecord, ShapeOK
<1>2. searches' = Append(Aborted, NewSearch(q))
  BY DEF Fetch
<1>3. /\ searches' \in Seq(SearchRecord) /\ Len(searches') = Len(searches) + 1
      /\ \A f \in Search : searches'[f] = Aborted[f]
      /\ searches'[Len(searches) + 1] = NewSearch(q)
  BY <1>1, <1>2, AppendProperties DEF Search
<1>4. Search' = Search \cup {Len(searches) + 1}
  BY <1>1, <1>3 DEF Search
<1>5. /\ searches'[Len(searches) + 1].query = q
      /\ searches'[Len(searches) + 1].options = options'
      /\ ~searches'[Len(searches) + 1].over /\ ~searches'[Len(searches) + 1].aborted
  BY <1>3 DEF NewSearch
<1>6. \A f \in Search : f \notin Current'
  BY <1>3, AbortedProperties DEF Current, Running
<1> QED BY <1>3, <1>4, <1>5, <1>6 DEF Current, Running

LEMMA AbortProperties ==
    ASSUME ShapeOK, searches' = Aborted
    PROVE  /\ searches' \in Seq(SearchRecord) /\ Len(searches') = Len(searches)
           /\ Current' = {}
BY AbortedProperties DEF Current, Running, Search

LEMMA OverProperties ==
    ASSUME ShapeOK, NEW f \in Search, Over(f)
    PROVE  /\ searches' \in Seq(SearchRecord) /\ Len(searches') = Len(searches)
           /\ Current' = Current \ {f}
           /\ \A g \in Search : /\ searches'[g].query = searches[g].query
                                /\ searches'[g].options = searches[g].options
<1>1. /\ Len(searches) \in Nat /\ searches \in Seq(SearchRecord)
      /\ \A g \in Search : searches[g] \in SearchRecord
  BY DEF ShapeOK, Search
<1>2. \A g \in Search : searches'[g] = IF g = f THEN [searches[f] EXCEPT !.over = TRUE]
                                       ELSE searches[g]
  BY <1>1 DEF Over, Search
<1>3. /\ searches' \in Seq(SearchRecord) /\ Len(searches') = Len(searches)
  <2>1. [searches[f] EXCEPT !.over = TRUE] \in SearchRecord
    BY <1>1 DEF SearchRecord
  <2> QED BY <1>1, <2>1, ExceptSeq DEF Over, Search
<1>4. \A g \in Search : /\ searches'[g].query = searches[g].query
                        /\ searches'[g].options = searches[g].options
                        /\ searches'[g].aborted = searches[g].aborted
                        /\ searches'[g].over <=> searches[g].over \/ g = f
  <2>1. ASSUME NEW g \in Search, g # f PROVE searches'[g] = searches[g]
    BY <1>2, <2>1
  <2>2. searches'[f] = [searches[f] EXCEPT !.over = TRUE] /\ searches[f] \in SearchRecord
    BY <1>1, <1>2
  <2>3. /\ searches'[f].query = searches[f].query
        /\ searches'[f].options = searches[f].options
        /\ searches'[f].aborted = searches[f].aborted
        /\ searches'[f].over
    BY <2>2 DEF SearchRecord
  <2> QED BY <2>1, <2>3
<1> QED BY <1>3, <1>4 DEF Current, Running, Search
-----------------------------------------------------------------------------
(* The effect of usePlaceSearch, which every change of the query or of the  *)
(* options comes down to.                                                   *)

LEMMA EffectStep ==
    ASSUME SearchInv, mounted, mounted', NEW q \in Text, debounced' = q,
           options' \in Option, Effect(q)
    PROVE  /\ searches' \in Seq(SearchRecord)
           /\ results' \in [of : 0..Len(searches'), count : {0, 1}]
           /\ isLoading' \in BOOLEAN /\ error' \in BOOLEAN /\ hasSearched' \in BOOLEAN
           /\ CurrentInv' /\ ShownInv'
<1>1. ShapeOK /\ Len(searches) \in Nat
  BY DEF SearchInv, ShapeOK
<1>2. CASE q = Blank
  <2>1. Clear
    BY <1>2 DEF Effect
  <2>2. searches' \in Seq(SearchRecord) /\ Len(searches') = Len(searches) /\ Current' = {}
    BY <1>1, <2>1, AbortProperties DEF Clear
  <2>3. /\ results' = [of |-> 0, count |-> 0] /\ isLoading' = FALSE
        /\ hasSearched' = FALSE /\ error' = error
    BY <2>1 DEF Clear, NoResults
  <2>4. results' \in [of : 0..Len(searches'), count : {0, 1}] /\ results'.count = 0
    BY <1>1, <2>2, <2>3
  <2>5. error' \in BOOLEAN
    BY <1>1, <2>3 DEF ShapeOK
  <2>6. CurrentInv'
    BY <2>2 DEF CurrentInv
  <2>7. ShownInv'
    BY <1>2, <2>3, <2>4 DEF ShownInv
  <2> QED BY <2>2, <2>3, <2>4, <2>5, <2>6, <2>7
<1>3. CASE q # Blank
  <2>1. Fetch(q) /\ q \in Query
    BY <1>3 DEF Effect, Text
  <2>2. /\ searches' \in Seq(SearchRecord) /\ Len(searches') = Len(searches) + 1
        /\ Current' = {Len(searches) + 1}
        /\ searches'[Len(searches) + 1].query = q
        /\ searches'[Len(searches) + 1].options = options'
    BY <1>1, <2>1, FetchProperties
  <2>3. /\ results' = results /\ isLoading' = TRUE /\ error' = FALSE /\ hasSearched' = TRUE
    BY <2>1 DEF Fetch
  <2>4. /\ results \in [of : 0..Len(searches), count : {0, 1}]
        /\ results.of \in 0..Len(searches) /\ results.of < Len(searches) + 1
        /\ results.count > 0 => results.of > 0
    BY <1>1 DEF ShapeOK, SearchInv, ShownInv
  <2>5. results' \in [of : 0..Len(searches'), count : {0, 1}]
    BY <1>1, <2>2, <2>3, <2>4
  <2>6. CurrentInv'
    BY <2>2, <2>3, <2>4 DEF CurrentInv, AnswerTo
  <2>7. ShownInv'
    BY <1>3, <2>2, <2>3, <2>4 DEF ShownInv
  <2> QED BY <2>2, <2>3, <2>5, <2>6, <2>7
<1> QED BY <1>2, <1>3

-----------------------------------------------------------------------------
(* Every step keeps the invariant.                                         *)

LEMMA SearchInvInit == Init => SearchInv
<1> SUFFICES ASSUME Init PROVE SearchInv
  OBVIOUS
<1>1. ShapeOK
  <2>1. results \in [of : 0..Len(searches), count : {0, 1}] /\ searches \in Seq(SearchRecord)
    BY DEF Init, NoResults
  <2>2. value \in Text /\ text \in Text
    BY DEF Init, Text
  <2>3. keys \in 0..MaxKeys
    BY SearchAssumption DEF Init
  <2>4. /\ mounted \in BOOLEAN /\ isControlled \in BOOLEAN /\ isLoading \in BOOLEAN
        /\ error \in BOOLEAN /\ hasSearched \in BOOLEAN
    BY DEF Init
  <2>5. /\ searchQuery \in Text /\ debounced \in Text /\ timer \in Text \cup {Idle}
        /\ options \in Option
    BY DEF Init, Text
  <2> QED BY <2>1, <2>2, <2>3, <2>4, <2>5 DEF ShapeOK
<1>2. Search = {} /\ Current = {}
  BY DEF Init, Search, Current, Running
<1> QED BY <1>1, <1>2, SearchAssumption
        DEF Init, SearchInv, CurrentInv, ShownInv, TypedInv, NoResults, Text

(* What the user and the page do without a search.                          *)
LEMMA TypingStep ==
    ASSUME SearchInv, Type \/ Select \/ PageSetsValue \/ SetDebounceMs
    PROVE  SearchInv'
<1>1. /\ mounted /\ mounted' = mounted /\ isControlled' = isControlled
      /\ UNCHANGED <<debounced, options, searches, shown>>
  BY DEF Type, Select, PageSetsValue, SetDebounceMs, Change
<1>2. ShapeOK /\ keys' \in 0..MaxKeys
  BY SearchAssumption DEF SearchInv, ShapeOK, Type, Select, PageSetsValue, SetDebounceMs, Change
<1>3. /\ value' \in Text /\ text' \in Text /\ searchQuery' \in Text
      /\ timer' \in Text \cup {Idle}
  BY <1>2, SearchAssumption
     DEF ShapeOK, Type, Select, PageSetsValue, SetDebounceMs, SetValue, SetSearchQuery, Text
<1>4. ShapeOK'
  BY <1>1, <1>2, <1>3 DEF ShapeOK, shown
<1>5. CurrentInv' /\ ShownInv'
  BY <1>1 DEF SearchInv, CurrentInv, ShownInv, AnswerTo, Current, Running, Search, shown
<1>6. TypedInv'
  BY <1>1, <1>2, SearchAssumption
     DEF SearchInv, TypedInv, Type, Select, PageSetsValue, SetDebounceMs, SetValue,
         SetSearchQuery, Text, ShapeOK
<1> QED BY <1>4, <1>5, <1>6 DEF SearchInv

LEMMA TimerStep ==
    ASSUME SearchInv, TimerFires
    PROVE  SearchInv'
<1>1. /\ ShapeOK /\ mounted /\ timer \in Text /\ timer = searchQuery
      /\ timer' = Idle /\ debounced' = timer
      /\ UNCHANGED <<mounted, options, typing>>
  BY DEF SearchInv, TypedInv, ShapeOK, TimerFires
<1>2. TypedInv'
  BY <1>1 DEF SearchInv, TypedInv, typing
<1>3. CASE timer = debounced
  <2>1. UNCHANGED <<searches, shown>>
    BY <1>3 DEF TimerFires
  <2>2. ShapeOK'
    BY <1>1, <2>1 DEF ShapeOK, shown, typing
  <2>3. CurrentInv' /\ ShownInv'
    BY <1>1, <1>3, <2>1
       DEF SearchInv, CurrentInv, ShownInv, AnswerTo, Current, Running, Search, shown
  <2> QED BY <1>2, <2>2, <2>3 DEF SearchInv
<1>4. CASE timer # debounced
  <2>1. Effect(timer) /\ options' \in Option
    BY <1>1, <1>4 DEF TimerFires, ShapeOK
  <2>2. /\ searches' \in Seq(SearchRecord)
        /\ results' \in [of : 0..Len(searches'), count : {0, 1}]
        /\ isLoading' \in BOOLEAN /\ error' \in BOOLEAN /\ hasSearched' \in BOOLEAN
        /\ CurrentInv' /\ ShownInv'
    BY <1>1, <2>1, EffectStep
  <2>3. ShapeOK'
    BY <1>1, <2>2 DEF ShapeOK, typing
  <2> QED BY <1>2, <2>2, <2>3 DEF SearchInv
<1> QED BY <1>3, <1>4

LEMMA OptionsStep ==
    ASSUME SearchInv, SetOptions
    PROVE  SearchInv'
<1>1. /\ ShapeOK /\ mounted /\ debounced \in Text /\ options' \in Option
      /\ Effect(debounced)
      /\ UNCHANGED <<mounted, isControlled, value, text, searchQuery, timer, debounced>>
  BY DEF SearchInv, ShapeOK, SetOptions, Change
<1>2. keys' \in 0..MaxKeys
  BY <1>1, SearchAssumption DEF ShapeOK, SetOptions, Change
<1>3. TypedInv'
  BY <1>1 DEF SearchInv, TypedInv
<1>4. /\ searches' \in Seq(SearchRecord)
      /\ results' \in [of : 0..Len(searches'), count : {0, 1}]
      /\ isLoading' \in BOOLEAN /\ error' \in BOOLEAN /\ hasSearched' \in BOOLEAN
      /\ CurrentInv' /\ ShownInv'
  BY <1>1, EffectStep
<1>5. ShapeOK'
  BY <1>1, <1>2, <1>4 DEF ShapeOK
<1> QED BY <1>3, <1>4, <1>5 DEF SearchInv

(* A search settles.                                                        *)
LEMMA FetchStep ==
    ASSUME SearchInv, NEW f \in Search, fetchResults(f)
    PROVE  SearchInv'
<1>1. /\ ShapeOK /\ Over(f) /\ Len(searches) \in Nat /\ f \in 1..Len(searches)
      /\ UNCHANGED <<mounted, typing, timer, debounced, options, hasSearched>>
  <2>1. ShapeOK /\ Len(searches) \in Nat /\ f \in 1..Len(searches)
    BY DEF SearchInv, ShapeOK, Search
  <2>2. CASE Answered(f)
    BY <2>1, <2>2 DEF Answered
  <2>3. CASE Fails(f)
    BY <2>1, <2>3 DEF Fails
  <2>4. CASE AbortArrives(f)
    BY <2>1, <2>4 DEF AbortArrives
  <2> QED BY <2>2, <2>3, <2>4 DEF fetchResults
<1>2. /\ searches' \in Seq(SearchRecord) /\ Len(searches') = Len(searches)
      /\ Current' = Current \ {f} /\ Search' = Search
      /\ \A g \in Search : /\ searches'[g].query = searches[g].query
                           /\ searches'[g].options = searches[g].options
  BY <1>1, OverProperties DEF Search
<1>3. TypedInv'
  BY <1>1 DEF SearchInv, TypedInv, typing
<1>4. \A g \in Search : AnswerTo(g)' <=> AnswerTo(g)
  BY <1>1, <1>2 DEF AnswerTo
<1>5. CASE Answered(f)
  <2>1. PICK n \in {0, 1} : results' = [of |-> f, count |-> n]
    BY <1>5 DEF Answered
  <2>2. /\ f \in Current /\ isLoading' = FALSE /\ error' = error
    BY <1>5 DEF Answered
  <2>3. f = Len(searches) /\ mounted /\ AnswerTo(f) /\ ~error /\ Current' = {}
    BY <1>2, <2>2 DEF SearchInv, CurrentInv
  <2>4. results'.of = f /\ results' \in [of : 0..Len(searches'), count : {0, 1}]
    BY <1>1, <1>2, <2>1
  <2>5. ShapeOK'
    BY <1>1, <1>2, <2>2, <2>4 DEF ShapeOK, typing
  <2>6. CurrentInv'
    BY <2>3 DEF CurrentInv
  <2>7. AnswerTo(f)'
    BY <1>4, <2>3
  <2>8. ShownInv'
    BY <1>1, <2>2, <2>3, <2>4, <2>7 DEF ShownInv, SearchInv, AnswerTo
  <2> QED BY <1>3, <2>5, <2>6, <2>8 DEF SearchInv
<1>6. CASE Fails(f)
  <2>1. /\ f \in Current /\ isLoading' = FALSE /\ error' = TRUE
        /\ results' = [of |-> 0, count |-> 0]
    BY <1>6 DEF Fails, NoResults
  <2>2. Current' = {}
    BY <1>2, <2>1 DEF SearchInv, CurrentInv
  <2>3. results' \in [of : 0..Len(searches'), count : {0, 1}] /\ results'.count = 0
    BY <1>1, <1>2, <2>1
  <2>4. ShapeOK'
    BY <1>1, <1>2, <2>1, <2>3 DEF ShapeOK, typing
  <2>5. CurrentInv' /\ ShownInv'
    BY <1>1, <2>1, <2>2, <2>3 DEF CurrentInv, ShownInv, SearchInv
  <2> QED BY <1>3, <2>4, <2>5 DEF SearchInv
<1>7. CASE AbortArrives(f)
  <2>1. /\ f \notin Current /\ UNCHANGED <<results, error>> /\ isLoading' \in BOOLEAN
        /\ mounted => isLoading' = FALSE
    BY <1>1, <1>7 DEF AbortArrives, ShapeOK
  <2>2. Current' = Current /\ Current \subseteq Search
    BY <1>2, <2>1 DEF Current, Running
  <2>3. ShapeOK'
    BY <1>1, <1>2, <2>1 DEF ShapeOK, typing
  <2>4. CurrentInv'
    BY <1>1, <1>2, <1>4, <2>1, <2>2 DEF SearchInv, CurrentInv
  <2>5. results.count > 0 => results.of \in Search
    BY <1>1 DEF SearchInv, ShownInv, ShapeOK, Search
  <2>6. ShownInv'
    BY <1>1, <1>4, <2>1, <2>2, <2>5 DEF SearchInv, ShownInv, AnswerTo
  <2> QED BY <1>3, <2>3, <2>4, <2>6 DEF SearchInv
<1> QED BY <1>5, <1>6, <1>7 DEF fetchResults

LEMMA UnmountStep ==
    ASSUME SearchInv, Unmount
    PROVE  SearchInv'
<1>1. /\ ShapeOK /\ mounted' = FALSE /\ timer' = Idle /\ searches' = Aborted
      /\ UNCHANGED <<typing, debounced, options, shown>>
  BY DEF SearchInv, Unmount
<1>2. searches' \in Seq(SearchRecord) /\ Len(searches') = Len(searches) /\ Current' = {}
  BY <1>1, AbortProperties
<1>3. ShapeOK'
  BY <1>1, <1>2 DEF ShapeOK, typing, shown
<1>4. CurrentInv' /\ ShownInv'
  BY <1>1, <1>2 DEF SearchInv, CurrentInv, ShownInv, shown
<1>5. TypedInv'
  BY <1>1 DEF SearchInv, TypedInv, typing
<1> QED BY <1>3, <1>4, <1>5 DEF SearchInv

LEMMA SearchInvStep == SearchInv /\ [Next]_vars => SearchInv'
<1> SUFFICES ASSUME SearchInv, [Next]_vars PROVE SearchInv'
  OBVIOUS
<1>1. CASE UNCHANGED vars
  BY <1>1
     DEF vars, typing, shown, SearchInv, ShapeOK, CurrentInv, ShownInv, TypedInv, AnswerTo,
         Current, Running, Search
<1> QED BY <1>1, TypingStep, TimerStep, OptionsStep, FetchStep, UnmountStep DEF Next

-----------------------------------------------------------------------------
(* The theorems.                                                           *)

(* The search box keeps its shape, and at most one search, the last one, is *)
(* not aborted.                                                             *)
THEOREM BoxTypeCorrect == Spec => []TypeOK
<1>1. SearchInv => TypeOK
  <2> SUFFICES ASSUME SearchInv PROVE TypeOK
    OBVIOUS
  <2>1. ShapeOK /\ results.of \in 0..Len(searches) /\ results.count \in {0, 1}
    BY DEF SearchInv, ShapeOK
  <2>2. Current \subseteq {Len(searches)}
    BY DEF SearchInv, CurrentInv
  <2>3. /\ mounted \in BOOLEAN /\ isControlled \in BOOLEAN
        /\ {isLoading, error, hasSearched} \subseteq BOOLEAN
    BY <2>1 DEF ShapeOK
  <2> QED BY <2>1, <2>2, <2>3 DEF ShapeOK, TypeOK, SearchRecord
<1> QED BY <1>1, SearchInvInit, SearchInvStep, PTL DEF Spec

(* When nothing is pending, what the box shows and says is about what was   *)
(* typed and asked, however the searches before it ended.                   *)
THEOREM RestingBoxIsCurrent == Spec => []QuietIsCurrent
<1>1. SearchInv => QuietIsCurrent
  <2> SUFFICES ASSUME SearchInv, mounted, ~Pending PROVE QuietIsCurrent
    BY DEF QuietIsCurrent
  <2>1. timer = Idle /\ Current = {}
    BY DEF Pending, Current
  <2>2. debounced = searchQuery /\ (hasSearched <=> debounced # Blank) /\ ~isLoading
        /\ (results.count > 0 => AnswerTo(results.of))
    BY <2>1 DEF SearchInv, TypedInv, ShownInv
  <2>3. hasNoResults /\ ~isControlled => text = debounced
    BY <2>2 DEF hasNoResults, SearchInv, TypedInv
  <2>4. hasSearched = (debounced # Blank)
    BY <2>2 DEF SearchInv, ShapeOK
  <2> QED BY <2>2, <2>3, <2>4 DEF QuietIsCurrent
<1> QED BY <1>1, SearchInvInit, SearchInvStep, PTL DEF Spec

(* Features never stand beside an error.                                    *)
THEOREM BoxHasOneVerdict == Spec => []OneVerdict
<1>1. SearchInv => OneVerdict
  BY DEF SearchInv, ShownInv, OneVerdict
<1> QED BY <1>1, SearchInvInit, SearchInvStep, PTL DEF Spec

(* Results only ever give way to those of a later search, which asks for    *)
(* what the box asks for now.                                               *)
THEOREM LateAnswersAreDiscarded == Spec => LateAnswersDiscarded
<1>1. SearchInv /\ [Next]_vars =>
          [results'.count > 0 /\ results' # results =>
               results'.of > results.of /\ AnswerTo(results'.of)]_vars
  <2> SUFFICES ASSUME SearchInv, Next, results'.count > 0, results' # results
               PROVE  results'.of > results.of /\ AnswerTo(results'.of)
    OBVIOUS
  <2>1. ASSUME NEW q, Effect(q) PROVE results' = results \/ results'.count = 0
    BY <2>1 DEF Effect, Clear, Fetch, NoResults
  <2>2. PICK f \in Search : fetchResults(f)
    BY <2>1 DEF Next, Type, Select, PageSetsValue, SetOptions, SetDebounceMs, TimerFires,
                Unmount, shown
  <2>3. Answered(f)
    <3>1. ~Fails(f)
      <4>1. NoResults.count = 0
        BY DEF NoResults
      <4> QED BY <4>1 DEF Fails
    <3>2. ~AbortArrives(f)
      BY DEF AbortArrives
    <3> QED BY <2>2, <3>1, <3>2 DEF fetchResults
  <2>4. f \in Current /\ results'.of = f
    BY <2>3 DEF Answered
  <2>5. results.of \in Int /\ f \in Int
    BY DEF SearchInv, ShapeOK, Search
  <2> QED BY <2>4, <2>5 DEF SearchInv, CurrentInv
<1> QED BY <1>1, SearchInvInit, SearchInvStep, PTL DEF Spec, LateAnswersDiscarded
=============================================================================
