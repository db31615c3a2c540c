----------------------------- MODULE EditorWidgets -----------------------------
(***************************************************************************)
(* Two widgets of the editor's pages (internal/editor/editor.js): the button *)
(* that deletes on a second click, and the combobox for a flag's category.   *)
(***************************************************************************)
EXTENDS Integers, FiniteSets

CONSTANTS
    Buttons,      \* the confirm buttons of the page
    MaxConfirms,  \* bound on the deletions that are sent
    Options,      \* how many categories there are, the empty one first
    Texts         \* what the input may hold: the options that match, and the
                  \* one whose value it is, 0 for none

NoOption == 0

ASSUME WidgetAssumption ==
    /\ MaxConfirms \in Nat /\ Options \in Nat
    /\ \A t \in Texts : t.matches \subseteq 1..Options /\ t.value \in 0..Options
    /\ \A i \in 1..Options : \E t \in Texts : t.value = i /\ i \in t.matches

VARIABLES
    armed,       \* the buttons whose next click deletes
    pending,     \* the timers of a button: the seconds each has left
    since,       \* the seconds since a button was armed
    focused,     \* the button that has the focus
    confirmed,   \* how often a button has sent its deletion
    removing,    \* the buttons whose rows have faded
    expanded, typed, offered,   \* the combobox: its menu, text and shown options
    activeIndex, highlighted,   \* the place among the shown options, the option
    chosen,      \* the options marked as selected
    caret        \* what has the focus: the input, the toggle, neither

confirmVars == <<armed, pending, since, focused, confirmed, removing>>
comboVars == <<expanded, typed, offered, activeIndex, highlighted, chosen, caret>>

-------------------------------------------------------------------------------
(* wireConfirmButton *)

Hold == 3
Nobody == "nobody"

ConfirmInit ==
    /\ armed = {} /\ pending = [b \in Buttons |-> {}] /\ since = [b \in Buttons |-> 0]
    /\ focused = Nobody /\ confirmed = [b \in Buttons |-> 0] /\ removing = {}

(* Mutant: the timer is not cleared.                                         *)
DisarmOnly(b) == armed' = armed \ {b} /\ UNCHANGED pending

Disarm(b) == armed' = armed \ {b} /\ pending' = [pending EXCEPT ![b] = {}]

Arm(b) ==
    /\ b \notin armed
    /\ armed' = armed \cup {b}
    /\ pending' = [pending EXCEPT ![b] = @ \cup {Hold}]
    /\ since' = [since EXCEPT ![b] = 0]
    /\ UNCHANGED <<focused, confirmed, removing>>

(* The row fades whatever becomes of the deletion.                           *)
Confirm(b) ==
    /\ b \in armed /\ confirmed[b] < MaxConfirms
    /\ Disarm(b)
    /\ confirmed' = [confirmed EXCEPT ![b] = @ + 1]
    /\ removing' = removing \cup {b}
    /\ UNCHANGED <<since, focused>>

(* A button that loses the focus is disarmed; one that a click has not given *)
(* the focus, as in some browsers, has none to lose.                         *)
MoveFocus(to) ==
    /\ focused # to /\ focused' = to
    /\ IF focused \in armed THEN Disarm(focused) ELSE UNCHANGED <<armed, pending>>
    /\ UNCHANGED <<since, confirmed, removing>>

TimeOut(b) ==
    /\ 0 \in pending[b]
    /\ Disarm(b)
    /\ UNCHANGED <<since, focused, confirmed, removing>>

Second ==
    /\ armed # {} /\ \A b \in Buttons : 0 \notin pending[b]
    /\ pending' = [b \in Buttons |-> {left - 1 : left \in pending[b]}]
    /\ since' = [b \in Buttons |-> IF b \in armed THEN since[b] + 1 ELSE since[b]]
    /\ UNCHANGED <<armed, focused, confirmed, removing>>

ConfirmNext ==
    \/ Second
    \/ \E b \in Buttons : Arm(b) \/ Confirm(b) \/ TimeOut(b)
    \/ \E to \in Buttons \cup {Nobody} : MoveFocus(to)

ConfirmSpec == ConfirmInit /\ [][ConfirmNext]_confirmVars

-------------------------------------------------------------------------------
(* setupCategoryCombobox.  Places among the shown options count from 1, and  *)
(* 0 is the code's -1.                                                       *)

ComboInit ==
    /\ typed \in Texts /\ expanded = FALSE /\ offered = 1..Options
    /\ activeIndex = 0 /\ highlighted = {} /\ caret = "neither"
    /\ chosen = {typed.value} \ {NoOption}

Nth(shown, n) == CHOOSE i \in shown : Cardinality({j \in shown : j <= i}) = n

(* Mutant: the place is kept while the options around it change.             *)
ApplyFilterInPlace(t) ==
    /\ offered' = t.matches /\ chosen' = {t.value} \ {NoOption}
    /\ UNCHANGED <<activeIndex, highlighted>>

ApplyFilter(t) ==
    /\ offered' = t.matches /\ chosen' = {t.value} \ {NoOption}
    /\ activeIndex' = 0 /\ highlighted' = {}

OpenMenu == expanded' = TRUE /\ ApplyFilter(typed) /\ UNCHANGED typed

CloseMenu ==
    /\ expanded' = FALSE /\ activeIndex' = 0 /\ highlighted' = {}
    /\ UNCHANGED <<typed, offered, chosen>>

FocusInput == caret # "input" /\ caret' = "input" /\ OpenMenu

ToggleMenu == caret' = "toggle" /\ IF expanded THEN CloseMenu ELSE OpenMenu

TypeText(t) ==
    /\ caret = "input" /\ typed # t
    /\ typed' = t /\ expanded' = TRUE /\ ApplyFilter(t)
    /\ UNCHANGED caret

(* moveActive: from nowhere, up goes past the last option.                   *)
MoveActive(delta) ==
    LET from == IF expanded THEN activeIndex ELSE 0
        shown == IF expanded THEN offered ELSE typed.matches
        n == Cardinality(shown)
        to == ((from - 1 + delta + n) % n) + 1
    IN /\ caret = "input"
       /\ expanded' = TRUE /\ offered' = shown
       /\ activeIndex' = IF n = 0 THEN from ELSE to
       /\ highlighted' = IF n = 0 THEN {} ELSE {Nth(shown, to)}
       /\ UNCHANGED <<typed, chosen, caret>>

(* chooseOption: the input gets the focus, and opens the menu again if it    *)
(* did not have it.                                                          *)
ChooseOption(i) ==
    \E t \in Texts :
        /\ t.value = i
        /\ typed' = t /\ ApplyFilter(t)
        /\ caret' = "input" /\ expanded' = (caret # "input")

ClickOption(i) == expanded /\ i \in offered /\ ChooseOption(i)

PressEnter ==
    /\ caret = "input"
    /\ \/ expanded /\ activeIndex # 0 /\ ChooseOption(Nth(offered, activeIndex))
       \/ ~(expanded /\ activeIndex # 0) /\ CloseMenu /\ UNCHANGED caret

PressEscape == caret = "input" /\ CloseMenu /\ UNCHANGED caret

(* A click elsewhere closes the menu, leaving by the keyboard does not.      *)
ClickElsewhere == caret' = "neither" /\ CloseMenu
TabAway ==
    /\ caret # "neither" /\ caret' = "neither"
    /\ UNCHANGED <<expanded, typed, offered, activeIndex, highlighted, chosen>>

ComboNext ==
    \/ FocusInput \/ ToggleMenu \/ PressEnter \/ PressEscape \/ ClickElsewhere \/ TabAway
    \/ \E t \in Texts : TypeText(t)
    \/ \E d \in {1, -1} : MoveActive(d)
    \/ \E i \in 1..Options : ClickOption(i)

ComboSpec == ComboInit /\ [][ComboNext]_comboVars

-------------------------------------------------------------------------------
(* Properties *)

(* A second click deletes only within three seconds of the first: an armed   *)
(* button has one timer, which counts from the click that armed it, and one  *)
(* that is not armed has none that could disarm it early the next time       *)
(* (editor.js:141, 144, 161).                                                *)
ArmedForThreeSeconds ==
    \A b \in Buttons : pending[b] = IF b \in armed THEN {Hold - since[b]} ELSE {}

(* The option Enter would choose is the one that is highlighted, among those *)
(* that match what is typed, and what is marked as selected is the category  *)
(* the flag would be saved with (editor.js:435, 482, 520).                   *)
EnterTakesTheHighlighted ==
    /\ expanded => offered = typed.matches
    /\ activeIndex = 0 => highlighted = {}
    /\ activeIndex # 0 => /\ expanded /\ activeIndex <= Cardinality(offered)
                          /\ highlighted = {Nth(offered, activeIndex)}
    /\ chosen = {typed.value} \ {NoOption}
===============================================================================
