----------------------------- MODULE PlaceSearch -----------------------------
(***************************************************************************)
(* The search box of src/components/ui/place-autocomplete.tsx: typing is   *)
(* debounced, every debounced query and every change of the search options *)
(* aborts the search before it and starts its own, and answers arrive in   *)
(* any order.  The box keeps the text itself, or the page does.            *)
(*                                                                         *)
(* JavaScript runs one callback at a time; a callback together with the    *)
(* React effects it triggers is one action.  A search is named by its      *)
(* number.                                                                 *)
(***************************************************************************)
EXTENDS Integers, Sequences

CONSTANTS
    Query,          \* texts a user types and searches for
    Address,        \* what formatAddress makes of a result, nothing perhaps
    Blank,          \* the empty text
    Option,         \* values of lang, limit, bbox and the others together
    Idle,           \* no timer is pending
    MaxKeys         \* bound: changes a user makes

ASSUME SearchAssumption ==
    /\ Blank \notin Query /\ Idle \notin Query \cup {Blank}
    /\ Address \subseteq Query \cup {Blank}
    /\ MaxKeys \in Nat

Text == Query \cup {Blank}

VARIABLES
    mounted,
    keys,           \* changes made so far
    isControlled,   \* the page gives a value
    value,          \* that value
    text,           \* internalValue
    searchQuery,
    timer,          \* what the pending timeout of useDebounce will set
    debounced,      \* debouncedQuery
    options,        \* the search options of the last render
    searches,       \* every fetch: what it asks for, whether it was aborted, is over
    results,        \* the search whose features are shown, and how many
    isLoading, error, hasSearched

typing == <<keys, isControlled, value, text, searchQuery>>
shown  == <<results, isLoading, error, hasSearched>>
vars   == <<mounted, typing, timer, debounced, options, searches, shown>>

NoResults == [of |-> 0, count |-> 0]
Search == 1..Len(searches)
Running == {f \in Search : ~searches[f].over}
Current == {f \in Running : ~searches[f].aborted}

Init ==
    /\ mounted = TRUE /\ keys = 0 /\ options \in Option
    /\ isControlled \in BOOLEAN
    /\ value \in IF isControlled THEN Text ELSE {Blank}
    /\ text \in IF isControlled THEN {Blank} ELSE Text     \* defaultValue
    /\ searchQuery = Blank /\ debounced = Blank
    /\ timer = Blank                    \* the effect ran on mount
    /\ searches = <<>>
    /\ results = NoResults
    /\ isLoading = FALSE /\ error = FALSE /\ hasSearched = FALSE

(* useDebounce's effect: a changed query replaces the pending timeout.      *)
SetSearchQuery(q) ==
    /\ searchQuery' = q
    /\ timer' = IF q = searchQuery THEN timer ELSE q

displayValue == IF isControlled THEN value ELSE text

(* setInternalValue or onChange, of which a page may make nothing.          *)
SetValue(q) ==
    IF isControlled THEN value' \in {value, q} /\ UNCHANGED text
    ELSE text' = q /\ UNCHANGED value

Change == mounted /\ keys < MaxKeys /\ keys' = keys + 1 /\ UNCHANGED <<mounted, isControlled>>

(* The input's onChange, called with a text that differs from the shown one.*)
Type ==
    /\ Change
    /\ \E q \in Text \ {displayValue} : SetValue(q) /\ SetSearchQuery(q)
    /\ UNCHANGED <<debounced, options, searches, shown>>

(* onSelect of a result that is on the list.                                *)
Select ==
    /\ Change /\ results.count > 0
    /\ \E q \in Address : SetValue(q)
    /\ SetSearchQuery(Blank)
    /\ UNCHANGED <<debounced, options, searches, shown>>

(* The page sets the value itself, which searches for nothing.              *)
PageSetsValue ==
    /\ Change /\ isControlled
    /\ value' \in Text \ {value}
    /\ UNCHANGED <<text, searchQuery, timer, debounced, options, searches, shown>>

-----------------------------------------------------------------------------
(* usePlaceSearch.                                                         *)

Aborted == [f \in Search |-> [searches[f] EXCEPT !.aborted = @ \/ f \in Running]]

ClearNothing ==                         \* a blank query only returns
    /\ searches' = Aborted
    /\ UNCHANGED shown

(* The effect of a new debouncedQuery, after the cleanup of the one before. *)
Clear ==
    /\ searches' = Aborted
    /\ results' = NoResults
    /\ isLoading' = FALSE /\ hasSearched' = FALSE
    /\ UNCHANGED error

NewSearch(q) == [query |-> q, options |-> options', aborted |-> FALSE, over |-> FALSE]

FetchUnaborted(q) ==                    \* the search before is not aborted
    /\ searches' = Append(searches, NewSearch(q))
    /\ isLoading' = TRUE /\ error' = FALSE /\ hasSearched' = TRUE
    /\ UNCHANGED results

Fetch(q) ==
    /\ searches' = Append(Aborted, NewSearch(q))
    /\ isLoading' = TRUE /\ error' = FALSE /\ hasSearched' = TRUE
    /\ UNCHANGED results

Effect(q) == IF q = Blank THEN Clear ELSE Fetch(q)

TimerFires ==
    /\ timer # Idle
    /\ timer' = Idle
    /\ debounced' = timer
    /\ UNCHANGED options
    /\ IF timer = debounced THEN UNCHANGED <<searches, shown>> ELSE Effect(timer)
    /\ UNCHANGED <<mounted, typing>>

(* The options are dependencies of the effect, the delay is one of the      *)
(* debouncing effect only.                                                  *)
SetOptions ==
    /\ Change
    /\ options' \in Option \ {options}
    /\ Effect(debounced)
    /\ UNCHANGED <<value, text, searchQuery, timer, debounced>>

SetDebounceMs ==
    /\ Change
    /\ timer' = searchQuery
    /\ UNCHANGED <<value, text, searchQuery, debounced, options, searches, shown>>

Over(f) == searches' = [searches EXCEPT ![f].over = TRUE]

(* The answer of a search that was not aborted: features, none included.    *)
Answered(f) ==
    /\ f \in Current
    /\ Over(f)
    /\ \E n \in {0, 1} : results' = [of |-> f, count |-> n]
    /\ isLoading' = FALSE
    /\ UNCHANGED <<mounted, typing, timer, debounced, options, error, hasSearched>>

FailsLoading(f) ==                      \* finally forgotten
    /\ f \in Current
    /\ Over(f)
    /\ error' = TRUE /\ results' = NoResults
    /\ UNCHANGED <<mounted, typing, timer, debounced, options, isLoading, hasSearched>>

(* No answer, or one that is no success.                                    *)
Fails(f) ==
    /\ f \in Current
    /\ Over(f)
    /\ error' = TRUE /\ results' = NoResults
    /\ isLoading' = FALSE
    /\ UNCHANGED <<mounted, typing, timer, debounced, options, hasSearched>>

(* AbortError is swallowed, but `finally` runs for it too.                  *)
AbortArrives(f) ==
    /\ f \in Running \ Current
    /\ Over(f)
    /\ isLoading' = IF mounted THEN FALSE ELSE isLoading
    /\ UNCHANGED <<mounted, typing, timer, debounced, options, results, error,
                   hasSearched>>

fetchResults(f) == Answered(f) \/ Fails(f) \/ AbortArrives(f)

Unmount ==
    /\ mounted
    /\ mounted' = FALSE
    /\ timer' = Idle /\ searches' = Aborted
    /\ UNCHANGED <<typing, debounced, options, shown>>

Next ==
    \/ Type \/ Select \/ PageSetsValue \/ SetOptions \/ SetDebounceMs
    \/ TimerFires \/ Unmount
    \/ \E f \in Search : fetchResults(f)

(* The event loop fires timeouts and every fetch settles.                   *)
Spec == Init /\ [][Next]_vars
FairSpec ==
    /\ Spec
    /\ WF_vars(TimerFires)
    /\ \A f \in 1..MaxKeys : WF_vars(f \in Search /\ fetchResults(f))

(* What the list says of a search without features.                         *)
hasNoResults == hasSearched /\ ~isLoading /\ ~error /\ results.count = 0

-----------------------------------------------------------------------------
(* What the search box is checked for.                                     *)

(* The shape of the state; one search at most is not aborted, and it is the *)
(* last one.                                                                *)
TypeOK ==
    /\ mounted \in BOOLEAN /\ isControlled \in BOOLEAN /\ keys \in 0..MaxKeys
    /\ {value, text, searchQuery, debounced} \subseteq Text /\ timer \in Text \cup {Idle}
    /\ options \in Option
    /\ searches \in Seq([query : Query, options : Option, aborted : BOOLEAN, over : BOOLEAN])
    /\ results.of \in 0..Len(searches) /\ results.count \in {0, 1}
    /\ {isLoading, error, hasSearched} \subseteq BOOLEAN
    /\ Current \subseteq {Len(searches)}

AnswerTo(f) == searches[f].query = debounced /\ searches[f].options = options

(* An answer that arrives late never replaces what a later search showed,   *)
(* nor brings results back to a box that was cleared or that searches with  *)
(* other options now.                                                       *)
LateAnswersDiscarded ==
    [][results'.count > 0 /\ results' # results =>
           results'.of > results.of /\ AnswerTo(results'.of)]_vars

(* When nothing is pending the box agrees with what was typed and asked:    *)
(* its features are those of this query and these options, there are none   *)
(* for a blank one, it says that it has searched exactly if there is a      *)
(* query, and the text it cannot find is the one it has searched for.       *)
Pending == timer # Idle \/ Running # {}
QuietIsCurrent ==
    mounted /\ ~Pending =>
        /\ debounced = searchQuery
        /\ hasSearched = (debounced # Blank) /\ ~isLoading
        /\ results.count > 0 => AnswerTo(results.of)
        /\ hasNoResults /\ ~isControlled => text = debounced

(* The list has one verdict: features, or an error, or that nothing was     *)
(* found; features of one search never appear under the error of another.   *)
OneVerdict == ~(error /\ results.count > 0)

(* Once the user stops typing the box comes to rest, its spinner off.       *)
ComesToRest == <>[](~mounted \/ (~Pending /\ ~isLoading))
=============================================================================
