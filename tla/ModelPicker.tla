------------------------------ MODULE ModelPicker ------------------------------
(***************************************************************************)
(* The model picker of the assistant's panel (internal/editor/assistant.js). *)
(* The list is fetched once per connection to OpenRouter and kept; logging   *)
(* out forgets it, but not the request that is under way.  A fetch is one    *)
(* request; what waits for it is the render that openModelPicker has asked   *)
(* for.                                                                      *)
(***************************************************************************)
EXTENDS Integers, Sequences, FiniteSets, TLC

CONSTANTS
    Catalog,      \* what the server lists, by name
    Limit,        \* MODEL_OPTION_LIMIT
    Families,     \* the quick filters
    Queries,      \* what is typed into the search field, "" for nothing
    MaxFetches    \* bound on the requests for the list

Unpriced == -1

Models == [id : Nat \ {0}, price : Nat \cup {Unpriced}, family : STRING,
           matches : SUBSET Queries]

ASSUME PickerAssumption ==
    /\ Limit \in Nat \ {0} /\ MaxFetches \in Nat
    /\ Catalog \in Seq(Models)
    /\ Catalog # <<>>
    /\ \A i, j \in DOMAIN Catalog : Catalog[i].id = Catalog[j].id => i = j

VARIABLES
    login,       \* connected
    cache,       \* modelsCache, <<>> for null
    loading,     \* modelsLoading: the number of the fetch, 0 for null
    failed,      \* the status line shows modelsError
    fetches,     \* the requests under way, each with the page's answer to it
    made,        \* the fetches made
    overlapped,  \* two fetches were under way at once
    unheard,     \* the list came while the picker was open and did not wait for it
    open, search, filter, sort,
    options,     \* the models the list shows
    selected     \* selectedModel, 0 for the default

pickerVars == <<login, cache, loading, failed, fetches, made, overlapped,
                unheard, open, search, filter, sort, options, selected>>

NoFilter == "none"

-------------------------------------------------------------------------------
(* modelTotalCost and compareNullable: a missing price comes last.           *)
Cheaper(m, n) ==
    \/ m.price # Unpriced /\ n.price = Unpriced
    \/ m.price # Unpriced /\ n.price # Unpriced /\ m.price < n.price

Dearer(m, n) ==
    \/ m.price # Unpriced /\ n.price = Unpriced
    \/ m.price # Unpriced /\ n.price # Unpriced /\ m.price > n.price

(* The comparator of each sort mode; JavaScript's sort is stable.            *)
Before(mode, m, n) ==
    CASE mode = "cost-asc"  -> Cheaper(m, n)
      [] mode = "cost-desc" -> Dearer(m, n)
      [] mode = "default"   -> FALSE

(* The place a comes before the place b once the list is sorted.             *)
Precedes(list, a, b) == \/ Before(sort, list[a], list[b])
                        \/ ~Before(sort, list[b], list[a]) /\ a < b

Rank(list, places, p) == Cardinality({a \in places : Precedes(list, a, p)})

(* What is at the places of a list, sorted.                                  *)
Sorted(list, places) ==
    [k \in 1..Cardinality(places) |->
        list[CHOOSE p \in places : Rank(list, places, p) = k - 1]]

Passes(m) == /\ filter # NoFilter => m.family = filter
             /\ search # "" => search \in m.matches

Passing(list) == {p \in 1..Len(list) : Passes(list[p])}

Truncated(s) == IF Len(s) > Limit THEN [k \in 1..Limit |-> s[k]] ELSE s

(* Mutant: the list is cut before it is sorted.                              *)
FilterCutFirst(list) ==
    Sorted(list, {p \in Passing(list) : Cardinality({a \in Passing(list) : a < p}) < Limit})

(* filterModels                                                              *)
FilterModels(list) == Truncated(Sorted(list, Passing(list)))

(* renderModelOptions, with the values of the state it is called in.         *)
RenderModelOptions == options' = FilterModels(cache)' /\ unheard' = FALSE

-------------------------------------------------------------------------------
PickerInit ==
    /\ login = FALSE /\ cache = <<>> /\ loading = 0 /\ failed = FALSE
    /\ fetches = {} /\ made = 0 /\ overlapped = FALSE /\ unheard = FALSE
    /\ open = FALSE /\ search = "" /\ filter = NoFilter /\ sort = "default"
    /\ options = <<>> /\ selected = 0

(* fetchModels.  "waits": the picker renders when this fetch has succeeded.  *)
FetchModels(waits) ==
    IF cache # <<>>
    THEN UNCHANGED <<loading, failed, fetches, made>>
    ELSE IF loading # 0
    THEN /\ fetches' = {IF q.id = loading /\ waits THEN [q EXCEPT !.waits = TRUE] ELSE q :
                          q \in fetches}
         /\ UNCHANGED <<loading, failed, made>>
    ELSE /\ made < MaxFetches
         /\ made' = made + 1 /\ loading' = made' /\ failed' = FALSE
         /\ fetches' = fetches \cup {[id |-> made', waits |-> waits]}

(* setConnected(true)                                                        *)
Connected ==
    /\ login' = TRUE
    /\ FetchModels(FALSE)
    /\ overlapped' = (overlapped \/ Cardinality(fetches') > 1)
    /\ UNCHANGED <<cache, unheard, open, search, filter, sort, options, selected>>

(* setConnected(false): the picker closes and the list is forgotten.         *)
Disconnected ==
    /\ login' = FALSE
    /\ open' = FALSE
    /\ cache' = <<>> /\ loading' = 0
    /\ UNCHANGED <<failed, fetches, made, overlapped, unheard, search, filter, sort,
                   options, selected>>

(* The answer to a fetch, whichever it is: an old one fills the list too,    *)
(* and takes the place of a newer one that is still under way.               *)
FetchAnswered(q) ==
    /\ cache' = Catalog /\ failed' = FALSE
    /\ loading' = 0 /\ fetches' = fetches \ {q}
    /\ UNCHANGED <<login, made, overlapped, open, search, filter, sort, selected>>
    /\ IF q.waits /\ open THEN RenderModelOptions
       ELSE options' = options /\ unheard' = (unheard \/ open)

FetchFailed(q) ==
    /\ failed' = TRUE
    /\ loading' = 0 /\ fetches' = fetches \ {q}
    /\ UNCHANGED <<login, cache, made, overlapped, unheard, open, search, filter, sort,
                   options, selected>>

-------------------------------------------------------------------------------
(* The form with the picker is hidden while the page is not connected.       *)
OpenModelPicker ==
    /\ login /\ ~open
    /\ open' = TRUE /\ search' = ""
    /\ FetchModels(TRUE)
    /\ overlapped' = (overlapped \/ Cardinality(fetches') > 1)
    /\ UNCHANGED <<login, cache, filter, sort, selected>>
    /\ RenderModelOptions

(* By the trigger, Escape or a click elsewhere.                              *)
CloseModelPicker ==
    /\ open /\ open' = FALSE
    /\ UNCHANGED <<login, cache, loading, failed, fetches, made, overlapped, unheard, search,
                   filter, sort, options, selected>>

Narrow ==
    /\ open
    /\ UNCHANGED <<login, cache, loading, failed, fetches, made, overlapped, open, selected>>

SearchModels(text) ==
    /\ Narrow
    /\ search' = text /\ UNCHANGED <<filter, sort>>
    /\ RenderModelOptions

(* A quick filter that is active is taken off again.                         *)
ToggleChip(f) ==
    /\ Narrow
    /\ filter' = (IF filter = f THEN NoFilter ELSE f) /\ UNCHANGED <<search, sort>>
    /\ RenderModelOptions

CycleSortMode ==
    /\ Narrow
    /\ sort' = (CASE sort = "default" -> "cost-asc" [] sort = "cost-asc" -> "cost-desc"
                  [] sort = "cost-desc" -> "default")
    /\ UNCHANGED <<search, filter>>
    /\ RenderModelOptions

(* By a click, or by Enter in the search field for the first one.            *)
SelectModel(i) ==
    /\ open /\ i \in 1..Len(options)
    /\ selected' = options[i].id
    /\ open' = FALSE
    /\ UNCHANGED <<login, cache, loading, failed, fetches, made, overlapped, unheard, search,
                   filter, sort, options>>

PickerNext ==
    \/ Connected \/ Disconnected
    \/ \E q \in fetches : FetchAnswered(q) \/ FetchFailed(q)
    \/ OpenModelPicker \/ CloseModelPicker \/ CycleSortMode
    \/ \E t \in Queries : SearchModels(t)
    \/ \E f \in Families : ToggleChip(f)
    \/ \E i \in 1..Limit : SelectModel(i)

PickerSpec == PickerInit /\ [][PickerNext]_pickerVars

-------------------------------------------------------------------------------
(* Properties *)

Shown == {options[i] : i \in 1..Len(options)}
Matching == {Catalog[i] : i \in Passing(Catalog)}

(* An open picker that has the list shows as many of the matching models as  *)
(* it may, in the chosen order, and none that it leaves out would come       *)
(* before one it shows - unless it came with a fetch the picker has not      *)
(* asked for; and it reports no error over a list, unless two fetches were   *)
(* under way at once (assistant.js:1216, 1251, 1282).                        *)
PickerOffersBest == open /\ cache # <<>> =>
    /\ failed => overlapped
    /\ unheard \/
       /\ Shown \subseteq Matching
       /\ Len(options) =
            (IF Cardinality(Matching) < Limit THEN Cardinality(Matching) ELSE Limit)
       /\ \A i, j \in 1..Len(options) : i < j => ~Before(sort, options[j], options[i])
       /\ \A m \in Matching \ Shown : \A n \in Shown : ~Before(sort, m, n)
===============================================================================
