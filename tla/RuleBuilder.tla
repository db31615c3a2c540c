------------------------------ MODULE RuleBuilder ------------------------------
(***************************************************************************)
(* The rules on the edit page of a flag (internal/editor/editor.js): the     *)
(* tree of rules the builder edits, the hidden textarea that is submitted,   *)
(* the overview and its search, the context rows of the tester, the guard    *)
(* against leaving with unsaved changes, and the requests that save and test *)
(* the flag.  Handlers run one at a time; what they put off waits in timers, *)
(* which are counted in ticks of 40 ms: a tick comes when none is due.       *)
(*                                                                           *)
(* Rules are numbered in the order in which they are made.  As rules are     *)
(* only ever added at the end of a list, that is also their order in it.     *)
(***************************************************************************)
EXTENDS Integers, FiniteSets

CONSTANTS
    MaxRules,   \* bound on the rules made
    Names,      \* a rule's key and variant, one name for both; not ""
    NewKinds,   \* what the "Add rule" menu offers
    Pages,      \* the rules flags are loaded with, see Page
    MaxMoves    \* bound on what the user and the network do

Rules == 1..MaxRules
Kinds == {"leaf", "list", "not"}    \* andRule and orRule are a list

Top == 0         \* the parent of a top-level rule
Unused == -1
Gone == -2

(* What a flag is loaded with: its rules, each after the one that holds it;  *)
(* a leaf holds none and a notRule one at most.                              *)
Page == {p \in UNION {[1..n -> [parent : 0..n, kind : Kinds, name : Names \cup {""}]] :
                       n \in 0..MaxRules} :
           \A r \in DOMAIN p : p[r].parent # Top =>
              /\ p[r].parent < r /\ p[p[r].parent].kind # "leaf"
              /\ p[p[r].parent].kind = "not" =>
                    \A q \in DOMAIN p : p[q].parent = p[r].parent => q = r}

ASSUME BuilderAssumption ==
    /\ MaxRules \in Nat \ {0} /\ MaxMoves \in Nat
    /\ "" \notin Names /\ NewKinds \subseteq Kinds
    /\ \A p \in Pages : p \in Page

VARIABLES
    parent, kind, name,   \* the rules
    index,       \* data-toplevel-index of a rule's element, -1 for none
    hidden,      \* the elements the search hides
    meta,        \* the names below a rule, data-toc-meta
    toc,         \* the rules of the overview
    query,       \* the search
    textarea,    \* the rules as JSON
    timers,      \* the debounced calls that are pending: ticks left
    leaving,     \* the deleted rules whose 160 ms are not over
    source,      \* the tester's source, "draft" or "saved"
    rows,        \* its context rows: a key and the rule it is linked to
    savedRows,   \* data-saved-context-fields
    dirty,
    stored,      \* the rules in the database
    requests,    \* the requests under way
    cleared,     \* how dirty was cleared last
    restructured,   \* rules came or went since the rows were up to date
    shortened,   \* a top-level rule has been removed
    clicks,      \* how often a rule's delete button was clicked
    moves

treeVars == <<parent, kind, name, index>>
viewVars == <<hidden, meta, toc, query>>
testerVars == <<source, rows, savedRows>>
saveVars == <<stored, requests, cleared>>
pageVars == <<treeVars, viewVars, testerVars, saveVars, textarea, timers, leaving, dirty,
              restructured, shortened, clicks, moves>>

Off == 9
SyncDelay == 3     \* 120 ms
TocDelay == 2      \* 80 ms
RemoveDelay == 4   \* 160 ms

(* Mutant: the tester does not wait for the textarea.                        *)
HastyDelay == 2

TesterDelay == 5   \* 200 ms

-------------------------------------------------------------------------------
(* A rule and the rules above it, the smallest set that has the rule and,    *)
(* with each rule in it, the one that holds it.                              *)
Path(up, r) == {a \in DOMAIN up : \A S \in SUBSET DOMAIN up :
    r \in S /\ (\A s \in S : up[s] \in DOMAIN up => up[s] \in S) => a \in S}

(* The rules that are on the page: a rule that is gone takes those below it. *)
OnPage == {r \in Rules : \E a \in Path(parent, r) : parent[a] = Top}

Doc == [r \in OnPage |-> [parent |-> parent[r], kind |-> kind[r], name |-> name[r]]]

(* collectContextKeyFieldsFromRules: the keys of the rules, each with the    *)
(* place of the top-level rule it occurs in.                                 *)
Fields(doc) ==
    LET up == [r \in DOMAIN doc |-> doc[r].parent]
        tops == {r \in DOMAIN doc : up[r] = Top}
        place(t) == Cardinality({r \in tops : r < t})
    IN UNION {{<<doc[r].name, place(t)>> : t \in tops \cap Path(up, r)} :
              r \in {q \in DOMAIN doc : doc[q].name # ""}}

(* computeVariant: the variants of a rule and of those below it.             *)
NamesBelow(r) == {name[q] : q \in {p \in OnPage : r \in Path(parent, p)}} \ {""}

(* ruleSearchText: a query is a name or the type of a rule.                  *)
Found(r, q, metas) == q = "" \/ q = kind[r] \/ q \in metas[r]

(* applyRuleSearch: what does not match is hidden, but for what matches is   *)
(* below it.                                                                 *)
ApplyRuleSearch(q, metas) ==
    OnPage \ UNION {Path(parent, r) : r \in {p \in OnPage : Found(p, q, metas)}}

Rows(src, fields) == IF src = "draft" THEN fields ELSE savedRows

-------------------------------------------------------------------------------
BuilderInit ==
    \E p \in Pages :
        LET there == DOMAIN p IN
        /\ parent = [r \in Rules |-> IF r \in there THEN p[r].parent ELSE Unused]
        /\ kind = [r \in Rules |-> IF r \in there THEN p[r].kind ELSE "leaf"]
        /\ name = [r \in Rules |-> IF r \in there THEN p[r].name ELSE ""]
        /\ index = [r \in Rules |->
              IF r \in there /\ p[r].parent = Top
              THEN Cardinality({q \in there : p[q].parent = Top /\ q < r}) ELSE -1]
        /\ hidden = {} /\ toc = OnPage /\ query = ""
        /\ meta = [r \in Rules |-> IF r \in OnPage THEN NamesBelow(r) ELSE {}]
        /\ textarea = Doc /\ stored = Doc
        /\ timers = [sync |-> Off, toc |-> Off, tester |-> Off]
        /\ leaving = {}
        /\ source = "draft" /\ rows = Fields(Doc) /\ savedRows = Fields(Doc)
        /\ dirty = FALSE /\ requests = {} /\ cleared = "never"
        /\ restructured = FALSE /\ shortened = FALSE
        /\ clicks = [r \in Rules |-> 0] /\ moves = 0

Move == moves < MaxMoves /\ moves' = moves + 1

(* Mutants: each leaves one of notifyChange's calls out.                     *)
NotifyNoSync(t) ==
    /\ timers' = [t EXCEPT !.toc = TocDelay]
    /\ dirty' = TRUE
    /\ rows' = IF source = "draft" THEN Fields(textarea) ELSE rows

NotifyNotDirty(t) ==
    /\ timers' = [t EXCEPT !.sync = SyncDelay, !.toc = TocDelay]
    /\ rows' = IF source = "draft" THEN Fields(textarea) ELSE rows
    /\ UNCHANGED dirty

NotifyNoToc(t) ==
    /\ timers' = [t EXCEPT !.sync = SyncDelay]
    /\ dirty' = TRUE
    /\ rows' = IF source = "draft" THEN Fields(textarea) ELSE rows

(* notifyChange: the textarea and the overview are put off, and the tester   *)
(* reads the textarea at once, as it was before the change.                  *)
NotifyChange(t) ==
    /\ timers' = [t EXCEPT !.sync = SyncDelay, !.toc = TocDelay]
    /\ dirty' = TRUE
    /\ rows' = IF source = "draft" THEN Fields(textarea) ELSE rows

-------------------------------------------------------------------------------
(* The rules *)

(* textField and the other fields: the event also bubbles to the builder,    *)
(* where the tester puts its own refresh off.                                *)
EditField(r, n) ==
    /\ Move
    /\ r \in OnPage /\ kind[r] = "leaf" /\ name[r] # n
    /\ name' = [name EXCEPT ![r] = n]
    /\ NotifyChange([timers EXCEPT !.tester = TesterDelay])
    /\ restructured' = FALSE
    /\ UNCHANGED <<parent, kind, index, viewVars, source, savedRows, saveVars, textarea,
                   leaving, shortened, clicks>>

Free(l) == \/ l = Top
           \/ l \in OnPage /\ kind[l] = "list"
           \/ l \in OnPage /\ kind[l] = "not" /\ ~\E r \in Rules : parent[r] = l

(* The pick of the "Add rule" menu of a list: the index of the new element   *)
(* counts the rules there are, not those whose elements have one.            *)
AddRule(l, k) ==
    /\ Move
    /\ Free(l)
    /\ \E r \in Rules :
         /\ parent[r] = Unused /\ \A q \in Rules : q < r => parent[q] # Unused
         /\ parent' = [parent EXCEPT ![r] = l]
         /\ kind' = [kind EXCEPT ![r] = k]
         /\ index' = [index EXCEPT ![r] =
              IF l = Top THEN Cardinality({q \in Rules : parent[q] = Top}) ELSE -1]
    /\ NotifyChange(timers)
    /\ restructured' = TRUE
    /\ UNCHANGED <<name, viewVars, source, savedRows, saveVars, textarea, leaving,
                   shortened, clicks>>

(* The delete button of a rule can be clicked again while the rule leaves.   *)
DeleteRule(r) ==
    /\ Move
    /\ r \in OnPage /\ clicks[r] < 2
    /\ leaving' = leaving \cup {[rule |-> r, list |-> parent[r], left |-> RemoveDelay]}
    /\ clicks' = [clicks EXCEPT ![r] = @ + 1]
    /\ UNCHANGED <<treeVars, viewVars, testerVars, saveVars, textarea, timers, dirty,
                   restructured, shortened>>

(* Mutant: the rule at the place it was rendered at is removed.              *)
RemovedAtIndex(d) ==
    IF d.list = Top
    THEN {q \in Rules : parent[q] = Top /\
            Cardinality({p \in Rules : parent[p] = Top /\ p < q}) = index[d.rule]}
    ELSE {d.rule}

(* onRemove: a list loses the rule, a notRule whatever it holds.             *)
Removed(d) ==
    IF d.list # Top /\ kind[d.list] = "not"
    THEN {q \in Rules : parent[q] = d.list}
    ELSE {d.rule}

RemoveRule(d) ==
    /\ d.left = 0
    /\ leaving' = leaving \ {d}
    /\ parent' = [q \in Rules |-> IF q \in Removed(d) THEN Gone ELSE parent[q]]
    /\ NotifyChange(timers)
    /\ restructured' = TRUE
    /\ shortened' = (shortened \/ d.list = Top)
    /\ UNCHANGED <<kind, name, index, viewVars, source, savedRows, saveVars, textarea,
                   clicks, moves>>

-------------------------------------------------------------------------------
(* What was put off *)

SyncTextarea ==
    /\ timers.sync = 0
    /\ timers' = [timers EXCEPT !.sync = Off]
    /\ textarea' = Doc
    /\ UNCHANGED <<treeVars, viewVars, testerVars, saveVars, leaving, dirty, restructured,
                   shortened, clicks, moves>>

(* refreshRuleTOC: the search is applied again, unless there are no rules.   *)
RefreshRuleTOC ==
    /\ timers.toc = 0
    /\ timers' = [timers EXCEPT !.toc = Off]
    /\ toc' = OnPage
    /\ meta' = [r \in Rules |-> IF r \in OnPage THEN NamesBelow(r) ELSE meta[r]]
    /\ hidden' = IF OnPage = {} THEN hidden ELSE ApplyRuleSearch(query, meta')
    /\ UNCHANGED <<treeVars, query, testerVars, saveVars, textarea, leaving, dirty,
                   restructured, shortened, clicks, moves>>

RefreshTester ==
    /\ timers.tester = 0
    /\ timers' = [timers EXCEPT !.tester = Off]
    /\ rows' = IF source = "draft" THEN Fields(textarea) ELSE rows
    /\ UNCHANGED <<treeVars, viewVars, source, savedRows, saveVars, textarea, leaving, dirty,
                   restructured, shortened, clicks, moves>>

Due == 0 \in {timers.sync, timers.toc, timers.tester} \cup {d.left : d \in leaving}
Pending == leaving # {} \/ \E t \in {"sync", "toc", "tester"} : timers[t] # Off

Tick ==
    /\ Pending /\ ~Due
    /\ timers' = [t \in DOMAIN timers |-> IF timers[t] = Off THEN Off ELSE timers[t] - 1]
    /\ leaving' = {[d EXCEPT !.left = @ - 1] : d \in leaving}
    /\ UNCHANGED <<treeVars, viewVars, testerVars, saveVars, textarea, dirty, restructured,
                   shortened, clicks, moves>>

-------------------------------------------------------------------------------
(* The search and the tester's source *)

SearchRules(q) ==
    /\ Move
    /\ query # q
    /\ query' = q
    /\ hidden' = ApplyRuleSearch(q, meta)
    /\ UNCHANGED <<treeVars, meta, toc, testerVars, saveVars, textarea, timers, leaving,
                   dirty, restructured, shortened, clicks>>

ChooseSource(s) ==
    /\ Move
    /\ source # s
    /\ source' = s
    /\ rows' = Rows(s, Fields(textarea))
    /\ restructured' = (restructured /\ timers.sync # Off)
    /\ UNCHANGED <<treeVars, viewVars, savedRows, saveVars, textarea, timers, leaving, dirty,
                   shortened, clicks>>

-------------------------------------------------------------------------------
(* Saving and testing.  htmx collects the values of the form before it       *)
(* raises configRequest, where the textarea is brought up to date.           *)

Send(what) ==
    /\ Move
    /\ ~\E q \in requests : q.what = what
    /\ requests' = requests \cup
         {[what |-> what, body |-> textarea, doc |-> Doc, answer |-> "none"]}
    /\ textarea' = Doc
    /\ UNCHANGED <<treeVars, viewVars, testerVars, stored, cleared, timers, leaving, dirty,
                   restructured, shortened, clicks>>

Answers(q, how) == requests' = (requests \ {q}) \cup {[q EXCEPT !.answer = how]}

(* HandleSaveFlag: a save that fails is answered with status 200, too.       *)
HandleSaveFlag(q) ==
    /\ q.what = "save" /\ q.answer = "none"
    /\ \/ Answers(q, "done") /\ stored' = q.body /\ UNCHANGED moves
       \/ Answers(q, "refused") /\ Move /\ UNCHANGED stored
    /\ UNCHANGED <<treeVars, viewVars, testerVars, cleared, textarea, timers, leaving, dirty,
                   restructured, shortened, clicks>>

HandleTestFlag(q) ==
    /\ q.what = "test" /\ q.answer = "none"
    /\ Answers(q, "done")
    /\ UNCHANGED <<treeVars, viewVars, testerVars, stored, cleared, textarea, timers, leaving,
                   dirty, restructured, shortened, clicks, moves>>

(* No answer, or one that says that the request failed.                      *)
LoseRequest(q) ==
    /\ Move
    /\ requests' = requests \ {q}
    /\ UNCHANGED <<treeVars, viewVars, testerVars, stored, cleared, textarea, timers, leaving,
                   dirty, restructured, shortened, clicks>>

(* How an answer clears dirty: "saved" if what was saved is what the page    *)
(* has, or else why it is not.                                               *)
Clears(q) ==
    IF q.what = "test" THEN "by a test"
    ELSE IF q.answer = "refused" THEN "by a refusal"
    ELSE IF q.body # q.doc THEN "by an old textarea"
    ELSE IF q.doc # Doc THEN "by a save before an edit"
    ELSE "saved"

(* clearDirtyOnSuccessfulSave and the tester's listener take every request   *)
(* from an element of the form for a save, and the test button is one.       *)
RequestAnswered(q) ==
    /\ q.answer # "none"
    /\ requests' = requests \ {q}
    /\ dirty' = FALSE /\ cleared' = Clears(q)
    /\ textarea' = Doc
    /\ savedRows' = Fields(Doc) /\ rows' = Fields(Doc)
    /\ restructured' = FALSE
    /\ UNCHANGED <<treeVars, viewVars, source, stored, timers, leaving, shortened, clicks,
                   moves>>

BuilderNext ==
    \/ SyncTextarea \/ RefreshRuleTOC \/ RefreshTester \/ Tick
    \/ \E d \in leaving : RemoveRule(d)
    \/ \E r \in Rules : DeleteRule(r) \/ \E n \in Names : EditField(r, n)
    \/ \E l \in Rules \cup {Top}, k \in NewKinds : AddRule(l, k)
    \/ \E q \in Names \cup Kinds \cup {""} : SearchRules(q)
    \/ \E s \in {"draft", "saved"} : ChooseSource(s)
    \/ \E what \in {"save", "test"} : Send(what)
    \/ \E q \in requests : HandleSaveFlag(q) \/ HandleTestFlag(q) \/ LoseRequest(q)
                           \/ RequestAnswered(q)

BuilderSpec == BuilderInit /\ [][BuilderNext]_pageVars

-------------------------------------------------------------------------------
(* Properties *)

(* What would be submitted is what the builder shows, as soon as no sync is  *)
(* pending (editor.js:1127, 1324).                                           *)
TextareaFollows == timers.sync = Off => textarea = Doc

(* A page that may be left without a question shows the rules the database   *)
(* got from it, and the tester's saved rows are theirs; unless dirty was     *)
(* cleared by the answer to a test, to a save that was refused or carried    *)
(* an older textarea, or to one that was overtaken by an edit                *)
(* (editor.js:614, 811, 831, editor.go:146).                                 *)
CleanIsSaved == ~dirty /\ cleared \in {"never", "saved"} =>
    Doc = stored /\ savedRows = Fields(stored)

(* At rest, the overview lists the rules of the page, and the search shows a *)
(* rule if and only if it or a rule below it matches (editor.js:1171, 1258). *)
SearchShowsPaths == timers.toc = Off /\ OnPage # {} =>
    /\ toc = OnPage
    /\ \A r \in OnPage : r \notin hidden <=>
         \E d \in OnPage : r \in Path(parent, d)
                           /\ (query \in {"", kind[d]} \/ query \in NamesBelow(d))

(* At rest, the tester asks for the keys of the rules on the page, unless    *)
(* the last change was an addition or a removal; and the rule each key is    *)
(* linked to uses it, unless a top-level rule has been removed               *)
(* (editor.js:795, 802, 880, 2404, 2426).                                    *)
TesterFollows ==
    source = "draft" /\ timers.sync = Off /\ timers.tester = Off /\ ~restructured =>
    /\ rows = Fields(Doc)
    /\ shortened \/ \A row \in rows : \E r \in OnPage :
          index[r] = row[2] /\ row[1] \in NamesBelow(r)

(* A rule goes only if its delete button, or that of a rule above it, was    *)
(* clicked; but one that was put into a notRule goes with the second click   *)
(* on the rule before it (editor.js:2404, 2520, 2649).                       *)
RemovesTheClicked == [][\A r \in OnPage \ OnPage' :
    \E a \in Path(parent, r) :
       \/ clicks[a] > 0
       \/ parent[a] # Top /\ kind[parent[a]] = "not" /\
            \E s \in Rules : parent[s] = Gone /\ clicks[s] = 2]_parent
===============================================================================
