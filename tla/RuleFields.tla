------------------------------ MODULE RuleFields ------------------------------
(***************************************************************************)
(* The fields a rule is edited with (the field factories of                 *)
(* internal/editor/editor.js).  Each keeps what its inputs show beside the  *)
(* value in the rule, and converts the one into the other; a field is built *)
(* from the value the flag was loaded with.  Every edit that changes a      *)
(* value also calls notifyChange, which RuleBuilder models.                 *)
(***************************************************************************)
EXTENDS Integers, Sequences

CONSTANTS
    Seconds,   \* the durations a rule is loaded with
    Hours, Minutes,   \* what is typed into the parts of a duration
    Scale,     \* how finely the fractional numbers below are counted
    Percents,  \* the percentages loaded and typed, in 1/Scale of a percent
    Lengths,   \* the radii loaded, in 8/Scale micrometres
    Numbers,   \* what is typed for a radius, in 1/Scale of a thousandth of a unit
    Lists,     \* the lists a rule is loaded with
    Items,     \* what is typed into the rows of a list
    MaxItems   \* bound on the rows

Strings  == {"", " ", "word", "word ", "null", "true", "42", "42.0", "{}", "'true'"}
Literals == {"null", "true", "42", "{}"}

(* An item of a list: a string, or what JSON writes as a literal.            *)
ItemValues == [string : {TRUE}, text : Strings] \cup [string : {FALSE}, text : Literals]

ASSUME FieldsAssumption ==
    /\ Seconds \subseteq Nat /\ Hours \subseteq Nat /\ Minutes \subseteq Nat
    /\ Scale \in Nat \ {0} /\ Percents \subseteq Int
    /\ Lengths \subseteq Int /\ Numbers \subseteq Int
    /\ Lists \subseteq Seq(ItemValues) /\ Items \subseteq Strings /\ MaxItems \in Nat

VARIABLES
    valueData,   \* valueDataField
    duration,    \* durationField
    date,        \* dateTimeField
    percentage,  \* percentageField
    cron,        \* cronSpecField
    radius,      \* the radius of appendGeoFenceFields
    items        \* listField

fieldVars == <<valueData, duration, date, percentage, cron, radius, items>>

-------------------------------------------------------------------------------
(* ValueData.  A value is named by its kind; "text" is a string that no      *)
(* literal looks like, "booltext" and "numbertext" are the strings true and  *)
(* 42.  An input's text is the text itself.                                  *)
Values == {"undefined", "null", "bool", "number", "text", "booltext", "numbertext", "object"}
SimpleTexts == {"", "word", "true", "42", "null"}
JsonTexts == {"", "word", "true", "42", "null", "{}", "'word'", "'true'", "'42'"}

Simple(v) == v # "object"

(* String(value), and nothing for a value that is not there.                 *)
AsText(v) == CASE v \in {"undefined", "null"} -> "" [] v \in {"bool", "booltext"} -> "true"
               [] v \in {"number", "numbertext"} -> "42" [] v = "text" -> "word"

(* syncSimple *)
FromText(t) == CASE t = "" -> "undefined" [] t = "true" -> "bool" [] t = "null" -> "null"
                 [] t = "42" -> "number" [] t = "word" -> "text"

(* JSON.stringify as a textarea shows it: "undefined" for undefined.         *)
AsJson(v) == CASE v \in {"undefined", "null"} -> v [] v = "object" -> "{}"
               [] v = "bool" -> "true" [] v = "booltext" -> "'true'"
               [] v = "number" -> "42" [] v = "numbertext" -> "'42'" [] v = "text" -> "'word'"

(* JSON.parse, where it does not throw                                       *)
FromJson(t) == CHOOSE v \in Values \ {"undefined"} : AsJson(v) = t
IsJson(t) == \E v \in Values \ {"undefined"} : AsJson(v) = t

(* loadFromObj: what is shown for a value, given what was shown.             *)
LoadFromObj(v, was) ==
    [value |-> v, invalid |-> was.invalid,
     simple |-> IF Simple(v) THEN AsText(v) ELSE was.simple,
     json |-> IF v = "undefined" THEN "" ELSE AsJson(v),
     mode |-> IF Simple(v) THEN "simple" ELSE "json"]

NewField == [value |-> "undefined", invalid |-> FALSE, simple |-> "", json |-> "", mode |-> "json"]

TypeSimple(t) ==
    /\ valueData.mode = "simple"
    /\ valueData' = [valueData EXCEPT !.simple = t, !.value = FromText(t), !.invalid = FALSE]

(* Mutant: a text that is no JSON is not marked.                             *)
TypeJsonUnmarked(t) ==
    /\ valueData.mode = "json"
    /\ valueData' = [valueData EXCEPT !.json = t,
                       !.value = IF t = "" THEN "undefined" ELSE IF IsJson(t) THEN FromJson(t) ELSE @]

(* syncJson: the value stays what it was while the text is no JSON.          *)
TypeJson(t) ==
    /\ valueData.mode = "json"
    /\ valueData' =
         IF t = "" \/ IsJson(t)
         THEN [valueData EXCEPT !.json = t, !.invalid = FALSE,
                 !.value = IF t = "" THEN "undefined" ELSE FromJson(t)]
         ELSE [valueData EXCEPT !.json = t, !.invalid = TRUE]

(* Mutant: a text that is no JSON does not stop the switch.                  *)
SwitchAnyway ==
    /\ valueData.mode = "json"
    /\ valueData' = [LoadFromObj(IF IsJson(valueData.json) THEN FromJson(valueData.json)
                                 ELSE "undefined", valueData) EXCEPT !.mode = "simple"]

(* Refused, without a mark, as long as the text is no JSON.                  *)
SwitchToSimple ==
    /\ valueData.mode = "json"
    /\ valueData.json = "" \/ IsJson(valueData.json)
    /\ valueData' = [LoadFromObj(IF valueData.json = "" THEN valueData.value
                                 ELSE FromJson(valueData.json), valueData) EXCEPT !.mode = "simple"]

(* The simple text is parsed again first, whatever the value was.            *)
SwitchToJson ==
    /\ valueData.mode = "simple"
    /\ LET v == FromText(valueData.simple)
       IN valueData' = [valueData EXCEPT !.value = v, !.json = AsJson(v), !.invalid = FALSE,
                                         !.mode = "json"]

-------------------------------------------------------------------------------
(* Durations and dates: what is smaller than a minute is not shown, and an   *)
(* edit of one part writes the others as they are shown.                     *)

LoadDuration(s) == [value |-> s, hours |-> s \div 3600, minutes |-> (s \div 60) % 60]

EditDuration(h, m) ==
    /\ h = duration.hours \/ m = duration.minutes
    /\ duration' = [value |-> h * 3600 + m * 60, hours |-> h, minutes |-> m]

NoDate == [day |-> 0, minute |-> 0, second |-> 0]

(* rfc3339ToDateTimeParts: no time is shown for midnight.                    *)
LoadDate(d) ==
    [value |-> d, day |-> d.day,
     time |-> IF d.day = 0 \/ (d.minute = 0 /\ d.second = 0) THEN -1 ELSE d.minute]

(* dateTimePartsToRFC3339: no date, no value; no time, midnight.             *)
EditDate(day, time) ==
    /\ day = date.day \/ time = date.time
    /\ date' = [day |-> day, time |-> time,
                value |-> IF day = 0 THEN NoDate
                          ELSE [day |-> day, minute |-> IF time = -1 THEN 0 ELSE time, second |-> 0]]

-------------------------------------------------------------------------------
(* Percentages and radii are fractions; the rounding of floating-point       *)
(* arithmetic is left out.                                                   *)

(* n in steps, to the nearest one, halves up                                 *)
Nearest(n, step) == (2 * n + step) \div (2 * step)

Clamp(n) == IF n < 0 THEN 0 ELSE IF n > 100 * Scale THEN 100 * Scale ELSE n

(* What a range input from 0 to 100 with step 1 makes of a value.            *)
Slider(n) == Scale * Nearest(Clamp(n), Scale)

(* The slider clamps and rounds what it is given, the number does not.       *)
LoadPercentage(n) == [value |-> n, slider |-> Slider(n), number |-> n]

EditPercentage(n) ==
    percentage' = [value |-> Clamp(n), slider |-> Slider(Clamp(n)), number |-> Clamp(n)]

Specs == {"", "preset", "other preset", "own"}
Presets == {"preset", "other preset"}

LoadCron(s) == [value |-> s, text |-> s, active |-> {s} \cap Presets]

SetSpec(preset) == cron' = [value |-> preset, text |-> preset, active |-> {preset}]

(* A preset that is typed is not marked.                                     *)
TypeSpec(s) == cron' = [value |-> s, text |-> s, active |-> {}]

(* A unit is named by the length of the 1/Scale of a thousandth of it.       *)
Meters == 125
Kilometers == 125000
Miles == 201168
Units == {Meters, Kilometers, Miles}

BestUnit(v) == IF v >= 1000 * Scale * Miles THEN Miles
               ELSE IF v >= 1000 * Scale * Kilometers THEN Kilometers ELSE Meters

(* The largest unit that is not more than the radius, and the number in it,  *)
(* rounded to thousandths.                                                   *)
LoadRadius(v) == [value |-> v, unit |-> BestUnit(v),
                  shown |-> Scale * Nearest(v, Scale * BestUnit(v))]

(* syncRadius: another unit leaves the number and scales the radius.         *)
EditRadius(n, unit) ==
    /\ n = radius.shown \/ unit = radius.unit
    /\ radius' = [value |-> n * unit, unit |-> unit, shown |-> n]

-------------------------------------------------------------------------------
(* A list, of values (parses) or of strings.  A row is committed on Enter,   *)
(* and when it loses the focus with another text than it was found with; a   *)
(* change of the number of rows renders them again.  was is the text of the  *)
(* row with the focus when it got that; entered says that Enter was pressed  *)
(* last on another one.                                                      *)

String(t)  == [string |-> TRUE, text |-> t]
Literal(t) == [string |-> FALSE, text |-> t]
Blank == String("")
Null  == Literal("null")
NoText == ""

(* trim()                                                                    *)
Trim(t) == CASE t = " " -> "" [] t = "word " -> "word" [] OTHER -> t

(* parseListItemValue: JSON, or else the text.  Infinity, which JSON refuses *)
(* and Number takes, is left out.                                            *)
ParseListItemValue(raw) ==
    LET t == Trim(raw)
    IN CASE t = "" -> Null [] t \in Literals -> Literal(t) [] t = "42.0" -> Literal("42")
         [] t = "'true'" -> String("true") [] OTHER -> String(t)

(* valueToListItemString                                                     *)
ListItemString(v) == IF v = Null THEN "" ELSE v.text

(* What a row is saved as.                                                   *)
Parsed(t) == IF items.parses THEN ParseListItemValue(t) ELSE String(Trim(t))

Rendered(parses, s) ==
    [parses |-> parses, value |-> s, rows |-> [i \in 1..Len(s) |-> ListItemString(s[i])],
     typing |-> 0, was |-> NoText, entered |-> FALSE, reverted |-> {}]

Cut(s, i) == SubSeq(s, 1, i - 1) \o SubSeq(s, i + 1, Len(s))

HasFocus(i) == i \in 1..Len(items.rows) /\ items.typing \in {0, i}
AsFound(i) == IF items.typing = 0 THEN items.rows[i] ELSE items.was

TypeItem(i, t) ==
    /\ HasFocus(i)
    /\ items' = [items EXCEPT !.rows[i] = t, !.typing = i, !.was = AsFound(i)]

(* A blank row goes.                                                         *)
CommitRow(i, committed) ==
    items' = IF Trim(items.rows[i]) = NoText THEN Rendered(items.parses, Cut(items.value, i))
             ELSE committed

(* The row keeps the focus.                                                  *)
EnterItem(i) ==
    /\ HasFocus(i)
    /\ CommitRow(i, [items EXCEPT !.value[i] = Parsed(items.rows[i]), !.typing = i,
                        !.was = AsFound(i), !.entered = items.rows[i] # AsFound(i),
                        !.reverted = @ \ {i}])

(* The row loses the focus: the browser reports a change only from the text  *)
(* it was found with, so one that was changed, entered and changed back is   *)
(* left as it is.                                                            *)
LeaveItem == LET i == items.typing IN
    /\ i # 0
    /\ IF items.rows[i] # items.was
       THEN CommitRow(i, [items EXCEPT !.value[i] = Parsed(items.rows[i]), !.typing = 0,
                            !.was = NoText, !.entered = FALSE, !.reverted = @ \ {i}])
       ELSE items' = [items EXCEPT !.typing = 0, !.was = NoText, !.entered = FALSE,
                        !.reverted = IF items.entered THEN @ \cup {i} ELSE @]

(* A click on a button takes the focus from the row first.                   *)
RemoveItem(i) ==
    /\ items.typing = 0 /\ i \in 1..Len(items.rows)
    /\ items' = Rendered(items.parses, Cut(items.value, i))

AddItem ==
    /\ items.typing = 0 /\ Len(items.value) < MaxItems
    /\ items' = Rendered(items.parses, Append(items.value, Blank))

-------------------------------------------------------------------------------
FieldInit ==
    /\ valueData \in {LoadFromObj(v, NewField) : v \in Values}
    /\ duration \in {LoadDuration(s) : s \in Seconds}
    /\ date \in {LoadDate(d) : d \in {NoDate} \cup [day : {1}, minute : {0, 90}, second : {0, 30}]}
    /\ percentage \in {LoadPercentage(n) : n \in Percents}
    /\ cron \in {LoadCron(s) : s \in Specs}
    /\ radius \in {LoadRadius(n) : n \in Lengths}
    /\ \E parses \in BOOLEAN, s \in Lists :
          /\ \A i \in 1..Len(s) : parses \/ s[i].string
          /\ items = Rendered(parses, s)

ValueDataNext ==
    \/ SwitchToSimple \/ SwitchToJson
    \/ \E t \in SimpleTexts : TypeSimple(t)
    \/ \E t \in JsonTexts : TypeJson(t)

DurationNext == \E h \in Hours \cup {duration.hours}, m \in Minutes \cup {duration.minutes} :
    EditDuration(h, m)

DateNext == \E day \in 0..2, time \in {-1, 0, 90} : EditDate(day, time)

CronNext == \E s \in Specs : TypeSpec(s) \/ (s \in Presets /\ SetSpec(s))

(* Typed, or moved on the slider                                             *)
PercentageNext == \E n \in Percents \cup {Scale * k : k \in 0..100} : EditPercentage(n)

RadiusNext == \E n \in Numbers \cup {radius.shown}, u \in Units : EditRadius(n, u)

ItemsNext ==
    \/ LeaveItem \/ AddItem
    \/ \E i \in 1..MaxItems : EnterItem(i) \/ RemoveItem(i) \/ \E t \in Items : TypeItem(i, t)

(* A rule's fields do not touch each other.                                  *)
FieldNext ==
    \/ /\ ValueDataNext
       /\ UNCHANGED <<duration, date, percentage, cron, radius, items>>
    \/ /\ DurationNext
       /\ UNCHANGED <<valueData, date, percentage, cron, radius, items>>
    \/ /\ DateNext
       /\ UNCHANGED <<valueData, duration, percentage, cron, radius, items>>
    \/ /\ PercentageNext
       /\ UNCHANGED <<valueData, duration, date, cron, radius, items>>
    \/ /\ CronNext
       /\ UNCHANGED <<valueData, duration, date, percentage, radius, items>>
    \/ /\ RadiusNext
       /\ UNCHANGED <<valueData, duration, date, percentage, cron, items>>
    \/ /\ ItemsNext
       /\ UNCHANGED <<valueData, duration, date, percentage, cron, radius>>

FieldSpec == FieldInit /\ [][FieldNext]_fieldVars

-------------------------------------------------------------------------------
(* Properties *)

ValueShown == LET f == valueData IN
    /\ f.mode = "simple" /\ Simple(f.value) =>
          f.simple = AsText(f.value) \/ FromText(f.simple) = f.value
    /\ f.mode = "json" /\ ~f.invalid =>
          f.json = AsJson(f.value) \/ (f.json = "" /\ f.value = "undefined")

DateShown == date.value.day = date.day /\
    (date.day # 0 => date.value.minute = IF date.time = -1 THEN 0 ELSE date.time)

(* |a - b| <= half of step                                                   *)
Near(a, b, step) == 2 * (a - b) <= step /\ 2 * (b - a) <= step

(* The number is the value; the slider is the whole percent next to it,      *)
(* within its ends.                                                          *)
PercentageShown ==
    /\ percentage.number = percentage.value
    /\ \E k \in 0..100 : percentage.slider = Scale * k
    /\ Near(percentage.slider, Clamp(percentage.value), Scale)

RadiusShown == Near(radius.shown * radius.unit, radius.value, Scale * radius.unit)

(* A row shows its item, or a text that stands for it.                       *)
RowsShown ==
    /\ Len(items.rows) = Len(items.value)
    /\ \A i \in 1..Len(items.rows) : i # items.typing /\ i \notin items.reverted =>
          items.rows[i] = ListItemString(items.value[i]) \/ Parsed(items.rows[i]) = items.value[i]

(* What the inputs of a rule show is what the rule is saved with: to the     *)
(* minute for times, to a thousandth of the unit for a radius, to a whole    *)
(* percent for a slider, but for the row that is being typed into or was     *)
(* entered and changed back, for a ValueData that is marked as invalid, and  *)
(* for an object in the simple mode (editor.js:2255, 2314, 1613, 1720, 1793, *)
(* 1974).                                                                    *)
FieldsShowRule ==
    /\ ValueShown /\ DateShown /\ PercentageShown /\ RadiusShown /\ RowsShown
    /\ duration.hours * 60 + duration.minutes = duration.value \div 60
    /\ cron.text = cron.value /\ cron.active \subseteq {cron.value}

Ambiguous == {"null", "booltext", "numbertext", "object"}

(* To look at a ValueData in the other mode changes it only from the simple  *)
(* mode, and only where the text shown there stands for another value: null, *)
(* a string that looks like a literal, an object (editor.js:2242, 2259).     *)
SwitchKeepsValue == [][valueData'.mode # valueData.mode =>
    \/ valueData'.value = valueData.value
    \/ valueData.mode = "simple" /\ valueData.value \in Ambiguous]_valueData
===============================================================================
