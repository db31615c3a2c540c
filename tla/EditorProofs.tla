----------------------------- MODULE EditorProofs -----------------------------
(***************************************************************************)
(* Theorems about the parts of the pages (RuleFields, RuleBuilder,           *)
(* EditorWidgets, ModelPicker), for every value of their constants: any      *)
(* durations, percentages, radii and items, any names, rules and moves, any  *)
(* buttons, options and models.                                              *)
(***************************************************************************)
EXTENDS RuleFields, RuleBuilder, EditorWidgets, ModelPicker, FiniteSetTheorems, TLAPS

-------------------------------------------------------------------------------
(* RuleFields: the types of the fields                                       *)

ValueTypeOK == valueData \in
    [value : Values, invalid : BOOLEAN, simple : SimpleTexts, json : JsonTexts \cup {"undefined"},
     mode : {"simple", "json"}]

TimesTypeOK ==
    /\ duration \in [value : Nat, hours : Nat, minutes : Nat]
    /\ date \in [value : [day : 0..2, minute : Nat, second : Nat], day : 0..2, time : Int]

NumbersTypeOK ==
    /\ percentage \in [value : Int, slider : Int, number : Int]
    /\ radius \in [value : Int, unit : Units, shown : Int]

CronTypeOK == cron \in [value : Specs, text : Specs, active : SUBSET Specs]

ListFields ==
    [parses : BOOLEAN, value : Seq(ItemValues), rows : Seq(Strings), typing : Nat,
     was : Strings, entered : BOOLEAN, reverted : SUBSET Nat]

ListTypeOK ==
    /\ items \in ListFields
    /\ items.typing \in 0..Len(items.rows)

-------------------------------------------------------------------------------
(* ValueData *)

(* A field is marked only while it shows what is no JSON.                    *)
MarkedIsInvalid == valueData.invalid =>
    valueData.mode = "json" /\ valueData.json # "" /\ ~IsJson(valueData.json)

ValueInv == ValueTypeOK /\ ValueShown /\ MarkedIsInvalid

LEMMA TextsAreTyped ==
  ASSUME NEW t \in SimpleTexts
  PROVE  FromText(t) \in {"undefined", "bool", "null", "number", "text"}
BY DEF FromText, SimpleTexts

LEMMA JsonIsParsed ==
  ASSUME NEW t, IsJson(t)
  PROVE  FromJson(t) \in Values \ {"undefined"} /\ AsJson(FromJson(t)) = t
BY DEF IsJson, FromJson

LEMMA ValuesAreShown ==
  ASSUME NEW v \in Values
  PROVE  /\ AsJson(v) \in JsonTexts \cup {"undefined"}
         /\ Simple(v) => AsText(v) \in SimpleTexts
<1>1. v \in {"undefined", "null"} => AsJson(v) = v /\ AsText(v) = ""
  BY DEF AsJson, AsText
<1>2. v \in {"bool", "booltext"} => AsJson(v) \in {"true", "'true'"} /\ AsText(v) = "true"
  BY DEF AsJson, AsText
<1>3. v \in {"number", "numbertext"} => AsJson(v) \in {"42", "'42'"} /\ AsText(v) = "42"
  BY DEF AsJson, AsText
<1>4. v = "text" => AsJson(v) = "'word'" /\ AsText(v) = "word"
  BY DEF AsJson, AsText
<1>5. v = "object" => AsJson(v) = "{}"
  BY DEF AsJson
<1> USE DEF JsonTexts, SimpleTexts
<1>6. CASE v \in {"undefined", "null"}
  BY <1>1, <1>6
<1>7. CASE v \in {"bool", "booltext"}
  BY <1>2, <1>7
<1>8. CASE v \in {"number", "numbertext"}
  BY <1>3, <1>8
<1>9. CASE v = "text"
  BY <1>4, <1>9
<1>10. CASE v = "object"
  BY <1>5, <1>10 DEF Simple
<1> QED
  BY <1>6, <1>7, <1>8, <1>9, <1>10 DEF Values

LEMMA JsonTellsApart ==
  ASSUME NEW v \in Values, NEW w \in Values, AsJson(v) = AsJson(w)
  PROVE  v = w
BY DEF Values, AsJson

(* Only an ambiguous value is read back as another one.                      *)
LEMMA TextsStand ==
  ASSUME NEW v \in Values, Simple(v)
  PROVE  FromText(AsText(v)) = v \/ v \in Ambiguous
BY DEF Values, AsText, FromText, Simple, Ambiguous

(* What loadFromObj leaves in a field, whatever it showed.                   *)
LEMMA Loading ==
  ASSUME NEW v \in Values, NEW was,
         was.invalid \in BOOLEAN, was.simple \in SimpleTexts, was.json \in JsonTexts \cup {"undefined"}
  PROVE  LET f == LoadFromObj(v, was)
         IN /\ f \in [value : Values, invalid : BOOLEAN, simple : SimpleTexts,
                      json : JsonTexts \cup {"undefined"}, mode : {"simple", "json"}]
            /\ f.value = v /\ f.invalid = was.invalid /\ f.mode = (IF Simple(v) THEN "simple" ELSE "json")
            /\ Simple(v) => f.simple = AsText(v)
            /\ ~Simple(v) => f.json = AsJson(v)
<1>1. AsJson(v) \in JsonTexts \cup {"undefined"} /\ (Simple(v) => AsText(v) \in SimpleTexts)
  BY ValuesAreShown
<1>2. "" \in JsonTexts
  BY DEF JsonTexts
<1>3. ~Simple(v) => v # "undefined"
  BY DEF Simple
<1> QED
  BY <1>1, <1>2, <1>3 DEF LoadFromObj

LEMMA ValueStep == ValueInv /\ ValueDataNext => ValueInv'
<1> SUFFICES ASSUME ValueInv, ValueDataNext
             PROVE  ValueInv'
  OBVIOUS
<1> USE DEF ValueInv, ValueTypeOK, MarkedIsInvalid
<1>1. CASE SwitchToSimple
  <2> DEFINE v == IF valueData.json = "" THEN valueData.value ELSE FromJson(valueData.json)
             f == LoadFromObj(v, valueData)
  <2>1. v \in Values
    BY <1>1, JsonIsParsed DEF SwitchToSimple
  <2>2. /\ f \in [value : Values, invalid : BOOLEAN, simple : SimpleTexts,
                  json : JsonTexts \cup {"undefined"}, mode : {"simple", "json"}]
        /\ f.value = v /\ f.invalid = FALSE /\ (Simple(v) => f.simple = AsText(v))
    <3>1. /\ valueData.invalid \in BOOLEAN /\ valueData.simple \in SimpleTexts
          /\ valueData.json \in JsonTexts \cup {"undefined"}
      OBVIOUS
    <3>2. valueData.invalid = FALSE
      BY <1>1, <3>1 DEF SwitchToSimple
    <3> HIDE DEF v, ValueTypeOK, MarkedIsInvalid
    <3> QED
      BY <2>1, <3>1, <3>2, Loading
  <2>3. valueData' = [f EXCEPT !.mode = "simple"]
    BY <1>1 DEF SwitchToSimple
  <2> HIDE DEF v, f
  <2> QED
    BY <2>2, <2>3 DEF ValueShown, Simple
<1>2. CASE SwitchToJson
  <2>1. FromText(valueData.simple) \in Values
    BY TextsAreTyped DEF Values
  <2>2. AsJson(FromText(valueData.simple)) \in JsonTexts \cup {"undefined"}
    BY <2>1, ValuesAreShown
  <2> QED
    BY <1>2, <2>1, <2>2 DEF SwitchToJson, ValueShown
<1>3. ASSUME NEW t \in SimpleTexts, TypeSimple(t)
      PROVE  ValueInv'
  <2>1. FromText(t) \in Values
    BY TextsAreTyped DEF Values
  <2> QED
    BY <1>3, <2>1 DEF TypeSimple, ValueShown
<1>4. ASSUME NEW t \in JsonTexts, TypeJson(t)
      PROVE  ValueInv'
  <2>1. CASE t = ""
    BY <1>4, <2>1 DEF TypeJson, ValueShown, Values
  <2>2. CASE t # "" /\ IsJson(t)
    <3>1. FromJson(t) \in Values \ {"undefined"} /\ AsJson(FromJson(t)) = t
      BY <2>2, JsonIsParsed
    <3> QED
      BY <1>4, <2>2, <3>1 DEF TypeJson, ValueShown
  <2>3. CASE t # "" /\ ~IsJson(t)
    BY <1>4, <2>3 DEF TypeJson, ValueShown
  <2> QED
    BY <2>1, <2>2, <2>3
<1> QED
  BY <1>1, <1>2, <1>3, <1>4 DEF ValueDataNext

-------------------------------------------------------------------------------
(* The fields with numbers *)

TimesInv ==
    /\ TimesTypeOK /\ DateShown
    /\ duration.hours * 60 + duration.minutes = duration.value \div 60

NumbersInv == NumbersTypeOK /\ PercentageShown /\ RadiusShown

CronInv == CronTypeOK /\ cron.text = cron.value /\ cron.active \subseteq {cron.value}

LEMMA TimesStart == FieldInit => TimesInv
<1> SUFFICES ASSUME FieldInit
             PROVE  TimesInv
  OBVIOUS
<1>1. PICK s \in Seconds : duration = LoadDuration(s)
  BY DEF FieldInit
<1>2. s \in Nat
  BY FieldsAssumption DEF FieldsAssumption
<1>3. /\ duration \in [value : Nat, hours : Nat, minutes : Nat]
      /\ duration.hours * 60 + duration.minutes = duration.value \div 60
  BY <1>1, <1>2 DEF LoadDuration
<1>4. PICK d \in {NoDate} \cup [day : {1}, minute : {0, 90}, second : {0, 30}] :
        date = LoadDate(d)
  BY DEF FieldInit
<1>5. d \in [day : 0..2, minute : Nat, second : Nat]
  BY <1>4 DEF NoDate
<1>6. /\ date \in [value : [day : 0..2, minute : Nat, second : Nat], day : 0..2, time : Int]
      /\ DateShown
  BY <1>4, <1>5 DEF LoadDate, DateShown, NoDate
<1> QED
  BY <1>3, <1>6 DEF TimesInv, TimesTypeOK

LEMMA DurationStep == TimesInv /\ DurationNext /\ UNCHANGED date => TimesInv'
<1> SUFFICES ASSUME TimesInv, DurationNext, UNCHANGED date
             PROVE  TimesInv'
  OBVIOUS
<1>1. PICK h \in Hours \cup {duration.hours}, m \in Minutes \cup {duration.minutes} :
        duration' = [value |-> h * 3600 + m * 60, hours |-> h, minutes |-> m]
  BY DEF DurationNext, EditDuration
<1>2. h \in Nat /\ m \in Nat
  BY FieldsAssumption DEF FieldsAssumption, TimesInv, TimesTypeOK
<1>3. (h * 3600 + m * 60) \div 60 = h * 60 + m /\ h * 3600 + m * 60 \in Nat
  BY <1>2
<1> QED
  BY <1>1, <1>2, <1>3 DEF TimesInv, TimesTypeOK, DateShown

LEMMA DateStep == TimesInv /\ DateNext /\ UNCHANGED duration => TimesInv'
<1> SUFFICES ASSUME TimesInv, DateNext, UNCHANGED duration
             PROVE  TimesInv'
  OBVIOUS
<1>1. PICK day \in 0..2, time \in {-1, 0, 90} : EditDate(day, time)
  BY DEF DateNext
<1> QED
  BY <1>1 DEF EditDate, NoDate, DateShown, TimesInv, TimesTypeOK

(* Integer division, by any divisor                                         *)
LEMMA Division ==
  ASSUME NEW a \in Int, NEW b \in Nat \ {0}
  PROVE  /\ a \div b \in Int
         /\ b * (a \div b) <= a /\ a < b * (a \div b) + b
OBVIOUS

LEMMA Cancel ==
  ASSUME NEW s \in Nat \ {0}, NEW a \in Int, NEW b \in Int, s * a < s * b
  PROVE  a < b
OBVIOUS

(* Rounding is to within half a step, and keeps a percentage one.            *)
LEMMA NearestIsNear ==
  ASSUME NEW n \in Int, NEW s \in Nat \ {0}
  PROVE  Nearest(n, s) \in Int /\ Near(s * Nearest(n, s), n, s)
<1> DEFINE q == (2 * n + s) \div (2 * s)
<1>1. /\ q \in Int
      /\ (2 * s) * q <= 2 * n + s /\ 2 * n + s < (2 * s) * q + 2 * s
  BY Division, 2 * n + s \in Int, 2 * s \in Nat \ {0}
<1> HIDE DEF q
<1>2. s * q \in Int /\ (2 * s) * q = 2 * (s * q)
  BY <1>1
<1>3. 2 * (s * q - n) <= s /\ 2 * (n - s * q) <= s
  BY <1>1, <1>2
<1>4. q = Nearest(n, s)
  BY DEF q, Nearest
<1> QED
  BY <1>1, <1>3, <1>4 DEF Near

LEMMA NearestInRange ==
  ASSUME NEW s \in Nat \ {0}, NEW n \in 0..(100 * s)
  PROVE  Nearest(n, s) \in 0..100
<1> DEFINE q == Nearest(n, s)
<1>1. q \in Int /\ 2 * (s * q - n) <= s /\ 2 * (n - s * q) <= s
  BY NearestIsNear DEF Near
<1> HIDE DEF q
<1>2. s * q \in Int /\ s * (2 * q) = 2 * (s * q) /\ s * 202 = 202 * s /\ s * (-2) = -2 * s
  BY <1>1
<1>3. s * (2 * q) < s * 202 /\ s * (-2) < s * (2 * q)
  <2> DEFINE x == s * q
  <2>1. x \in Int /\ 2 * (x - n) <= s /\ 2 * (n - x) <= s
    BY <1>1, <1>2
  <2> HIDE DEF x
  <2>2. 2 * x < 202 * s /\ -2 * s < 2 * x
    BY <2>1
  <2> QED
    BY <1>2, <2>2 DEF x
<1>4. 2 * q < 202 /\ -2 < 2 * q
  BY <1>1, <1>3, Cancel
<1>5. q \in 0..100
  BY <1>1, <1>4
<1> QED
  BY <1>5 DEF q

LEMMA Clamped ==
  ASSUME NEW n \in Int
  PROVE  Clamp(n) \in 0..(100 * Scale) /\ Clamp(Clamp(n)) = Clamp(n)
<1>1. Scale \in Nat \ {0}
  BY FieldsAssumption DEF FieldsAssumption
<1>2. 100 * Scale \in Nat \ {0}
  BY <1>1
<1> DEFINE most == 100 * Scale
<1> HIDE DEF most
<1>3. most \in Nat \ {0}
  BY <1>2 DEF most
<1>4. Clamp(n) = IF n < 0 THEN 0 ELSE IF n > most THEN most ELSE n
  BY DEF Clamp, most
<1>5. Clamp(n) \in 0..most
  BY <1>3, <1>4
<1>6. Clamp(Clamp(n)) = IF Clamp(n) < 0 THEN 0 ELSE IF Clamp(n) > most THEN most ELSE Clamp(n)
  BY DEF Clamp, most
<1>7. Clamp(Clamp(n)) = Clamp(n)
  BY <1>3, <1>5, <1>6
<1> QED
  BY <1>5, <1>7 DEF most

(* The slider is at a whole percent, next to the value.                      *)
LEMMA SliderIsNear ==
  ASSUME NEW n \in Int
  PROVE  /\ Slider(n) \in Int
         /\ \E k \in 0..100 : Slider(n) = Scale * k
         /\ Near(Slider(n), Clamp(n), Scale)
<1>1. Scale \in Nat \ {0} /\ Clamp(n) \in 0..(100 * Scale) /\ Clamp(n) \in Int
  BY FieldsAssumption, Clamped DEF FieldsAssumption
<1>2. Nearest(Clamp(n), Scale) \in 0..100
  BY <1>1, NearestInRange
<1>3. Near(Scale * Nearest(Clamp(n), Scale), Clamp(n), Scale)
  BY <1>1, NearestIsNear
<1>4. Scale * Nearest(Clamp(n), Scale) \in Int
  BY <1>1, <1>2
<1> QED
  BY <1>2, <1>3, <1>4 DEF Slider

(* So it is when it is given what has been clamped.                          *)
LEMMA SliderOfClamped ==
  ASSUME NEW n \in Int
  PROVE  Slider(Clamp(n)) = Slider(n)
BY Clamped DEF Slider

LEMMA RadiusLoads ==
  ASSUME NEW v \in Int
  PROVE  LET r == LoadRadius(v) IN
         /\ r \in [value : Int, unit : Units, shown : Int]
         /\ Near(r.shown * r.unit, r.value, Scale * r.unit)
<1> DEFINE u == BestUnit(v)
           q == Nearest(v, Scale * u)
<1>1. u \in Units /\ u \in Nat \ {0} /\ Scale \in Nat \ {0}
  BY FieldsAssumption DEF FieldsAssumption, BestUnit, Units, Meters, Kilometers, Miles
<1> HIDE DEF u
<1>2. Scale * u \in Nat \ {0}
  BY <1>1
<1>3. q \in Int /\ Near((Scale * u) * q, v, Scale * u)
  BY <1>2, NearestIsNear
<1> HIDE DEF q
<1>4. Scale * q \in Int /\ (Scale * u) * q = (Scale * q) * u
  BY <1>1, <1>3
<1>5. LoadRadius(v) = [value |-> v, unit |-> u, shown |-> Scale * q]
  BY DEF LoadRadius, u, q
<1> QED
  BY <1>1, <1>3, <1>4, <1>5

LEMMA NumbersStart == FieldInit => NumbersInv
<1> SUFFICES ASSUME FieldInit
             PROVE  NumbersInv
  OBVIOUS
<1>1. PICK n \in Percents : percentage = LoadPercentage(n)
  BY DEF FieldInit
<1>2. n \in Int
  BY FieldsAssumption DEF FieldsAssumption
<1>3. percentage = [value |-> n, slider |-> Slider(n), number |-> n]
  BY <1>1 DEF LoadPercentage
<1>4. percentage \in [value : Int, slider : Int, number : Int] /\ PercentageShown
  BY <1>2, <1>3, SliderIsNear DEF PercentageShown
<1>5. PICK v \in Lengths : radius = LoadRadius(v)
  BY DEF FieldInit
<1>6. v \in Int
  BY FieldsAssumption DEF FieldsAssumption
<1>7. radius \in [value : Int, unit : Units, shown : Int] /\ RadiusShown
  BY <1>5, <1>6, RadiusLoads DEF RadiusShown
<1> QED
  BY <1>4, <1>7 DEF NumbersInv, NumbersTypeOK

LEMMA PercentageStep == NumbersInv /\ PercentageNext /\ UNCHANGED radius => NumbersInv'
<1> SUFFICES ASSUME NumbersInv, PercentageNext, UNCHANGED radius
             PROVE  NumbersInv'
  OBVIOUS
<1>1. PICK n \in Percents \cup {Scale * k : k \in 0..100} : EditPercentage(n)
  BY DEF PercentageNext
<1>2. n \in Int
  BY FieldsAssumption DEF FieldsAssumption
<1>3. Clamp(n) \in Int /\ Clamp(Clamp(n)) = Clamp(n)
  BY <1>2, Clamped
<1>4. percentage' = [value |-> Clamp(n), slider |-> Slider(n), number |-> Clamp(n)]
  BY <1>1, <1>2, SliderOfClamped DEF EditPercentage
<1>5. percentage' \in [value : Int, slider : Int, number : Int] /\ PercentageShown'
  BY <1>2, <1>3, <1>4, SliderIsNear DEF PercentageShown
<1> QED
  BY <1>5 DEF NumbersInv, NumbersTypeOK, RadiusShown

LEMMA RadiusStep == NumbersInv /\ RadiusNext /\ UNCHANGED percentage => NumbersInv'
<1> SUFFICES ASSUME NumbersInv, RadiusNext, UNCHANGED percentage
             PROVE  NumbersInv'
  OBVIOUS
<1>1. PICK n \in Numbers \cup {radius.shown}, u \in Units :
        radius' = [value |-> n * u, unit |-> u, shown |-> n]
  BY DEF RadiusNext, EditRadius
<1>2. n \in Int /\ u \in Units /\ u \in Nat /\ Scale \in Nat
  BY FieldsAssumption DEF FieldsAssumption, NumbersInv, NumbersTypeOK, Units, Meters, Kilometers, Miles
<1>3. n * u \in Int /\ Scale * u \in Nat
  BY <1>2
<1>4. Near(n * u, n * u, Scale * u)
  BY <1>3 DEF Near
<1>5. radius' \in [value : Int, unit : Units, shown : Int] /\ RadiusShown'
  BY <1>1, <1>2, <1>3, <1>4 DEF RadiusShown
<1> QED
  BY <1>5 DEF NumbersInv, NumbersTypeOK, PercentageShown

LEMMA CronStep == CronInv /\ CronNext => CronInv'
<1> SUFFICES ASSUME CronInv, CronNext
             PROVE  CronInv'
  OBVIOUS
<1>1. PICK s \in Specs : TypeSpec(s) \/ (s \in Presets /\ SetSpec(s))
  BY DEF CronNext
<1>2. CASE TypeSpec(s)
  BY <1>2 DEF TypeSpec, CronInv, CronTypeOK
<1>3. CASE SetSpec(s)
  BY <1>3 DEF SetSpec, CronInv, CronTypeOK
<1> QED
  BY <1>1, <1>2, <1>3

-------------------------------------------------------------------------------
(* Lists *)

(* A row that was found with a text that stands for its item, and was not   *)
(* entered with another since, may be left with that text.                   *)
Stands(i) ==
    items.rows[i] = ListItemString(items.value[i]) \/ Parsed(items.rows[i]) = items.value[i]

StoodFor(i) == items.was = ListItemString(items.value[i]) \/ Parsed(items.was) = items.value[i]

FoundStands == LET i == items.typing IN
    i # 0 /\ ~items.entered /\ i \notin items.reverted => StoodFor(i)

ItemsInv == ListTypeOK /\ RowsShown /\ FoundStands

LEMMA TextsAreItems ==
  /\ NoText \in Strings /\ Blank \in ItemValues
  /\ \A t \in Strings : Trim(t) \in Strings /\ String(t) \in ItemValues
  /\ \A t \in Literals : Literal(t) \in ItemValues
BY DEF NoText, Blank, Strings, Literals, ItemValues, Trim, String, Literal

LEMMA ValuesAreItems ==
  ASSUME NEW t \in Strings
  PROVE  ParseListItemValue(t) \in ItemValues
<1> DEFINE u == Trim(t)
<1>1. u \in Strings
  BY TextsAreItems
<1>2. ParseListItemValue(t) =
        CASE u = NoText -> Null [] u \in Literals -> Literal(u) [] u = "42.0" -> Literal("42")
          [] u = "'true'" -> String("true") [] OTHER -> String(u)
  BY Zenon DEF ParseListItemValue, NoText
<1> HIDE DEF u
<1>3. NoText \notin Literals /\ NoText # "42.0" /\ NoText # "'true'"
  BY Zenon DEF NoText, Literals
<1>4. /\ "42" \in Literals /\ "null" \in Literals /\ "true" \in Strings
      /\ "42.0" \notin Literals /\ "'true'" \notin Literals /\ "42.0" # "'true'"
  BY Zenon DEF Literals, Strings
<1>5. CASE u = NoText
  BY <1>2, <1>3, <1>4, <1>5, TextsAreItems DEF Null
<1>6. CASE u \in Literals
  BY <1>2, <1>3, <1>4, <1>6, TextsAreItems
<1>7. CASE u = "42.0"
  BY <1>2, <1>3, <1>4, <1>7, TextsAreItems
<1>8. CASE u = "'true'"
  BY <1>2, <1>3, <1>4, <1>8, TextsAreItems
<1>9. CASE u # NoText /\ u \notin Literals /\ u # "42.0" /\ u # "'true'"
  BY <1>1, <1>2, <1>9, TextsAreItems
<1> QED
  BY <1>5, <1>6, <1>7, <1>8, <1>9

LEMMA ParsedIsAnItem ==
  ASSUME NEW t \in Strings
  PROVE  Parsed(t) \in ItemValues
BY ValuesAreItems, TextsAreItems DEF Parsed

LEMMA ItemsAreTexts ==
  ASSUME NEW v \in ItemValues
  PROVE  ListItemString(v) \in Strings
BY DEF ListItemString, ItemValues, Strings, Literals

LEMMA CutIsASequence ==
  ASSUME NEW s \in Seq(ItemValues), NEW i \in 1..Len(s)
  PROVE  Cut(s, i) \in Seq(ItemValues)
<1>1. SubSeq(s, 1, i - 1) \in Seq(ItemValues)
  OBVIOUS
<1>2. SubSeq(s, i + 1, Len(s)) \in Seq(ItemValues)
  OBVIOUS
<1> QED
  BY <1>1, <1>2 DEF Cut

LEMMA RenderedAsTyped ==
  ASSUME NEW parses \in BOOLEAN, NEW s \in Seq(ItemValues)
  PROVE  LET r == Rendered(parses, s) IN
         /\ r \in ListFields /\ r.typing = 0 /\ r.value = s /\ Len(r.rows) = Len(s)
         /\ \A i \in 1..Len(s) : r.rows[i] = ListItemString(s[i])
<1> DEFINE shown == [i \in 1..Len(s) |-> ListItemString(s[i])]
<1>1. /\ shown \in Seq(Strings) /\ Len(shown) = Len(s)
      /\ \A i \in 1..Len(s) : shown[i] = ListItemString(s[i])
  BY ItemsAreTexts
<1>2. Rendered(parses, s) =
        [parses |-> parses, value |-> s, rows |-> shown, typing |-> 0, was |-> NoText,
         entered |-> FALSE, reverted |-> {}]
  BY DEF Rendered
<1> HIDE DEF shown
<1>3. NoText \in Strings /\ 0 \in Nat /\ FALSE \in BOOLEAN /\ {} \in SUBSET Nat
  BY TextsAreItems
<1> QED
  BY <1>1, <1>2, <1>3 DEF ListFields

LEMMA RenderedIsShown ==
  ASSUME NEW parses \in BOOLEAN, NEW s \in Seq(ItemValues), items' = Rendered(parses, s)
  PROVE  ItemsInv'
BY RenderedAsTyped DEF ItemsInv, ListTypeOK, RowsShown, FoundStands

LEMMA ListStarts ==
  ASSUME NEW parses \in BOOLEAN, NEW s \in Seq(ItemValues), items = Rendered(parses, s)
  PROVE  ItemsInv
BY RenderedAsTyped DEF ItemsInv, ListTypeOK, RowsShown, FoundStands

(* A row is committed; it keeps the focus or loses it.                       *)
LEMMA CommitStep ==
  ASSUME ItemsInv, NEW i \in 1..Len(items.rows), items.typing \in {0, i},
         NEW typing \in {0, i}, NEW was \in Strings, NEW entered \in BOOLEAN,
         typing = i /\ ~entered => was = items.rows[i],
         CommitRow(i, [items EXCEPT !.value[i] = Parsed(items.rows[i]), !.typing = typing,
                         !.was = was, !.entered = entered, !.reverted = @ \ {i}])
  PROVE  ItemsInv'
<1>1. /\ items \in ListFields
      /\ Len(items.rows) = Len(items.value) /\ i \in 1..Len(items.value)
      /\ items.rows[i] \in Strings
  BY DEF ItemsInv, ListTypeOK, RowsShown, ListFields
<1>2. CASE Trim(items.rows[i]) = NoText
  <2>1. items' = Rendered(items.parses, Cut(items.value, i))
    BY <1>2 DEF CommitRow
  <2>2. Cut(items.value, i) \in Seq(ItemValues) /\ items.parses \in BOOLEAN
    BY <1>1, CutIsASequence DEF ListFields
  <2> QED
    BY <2>1, <2>2, RenderedIsShown
<1>3. CASE Trim(items.rows[i]) # NoText
  <2> DEFINE v == Parsed(items.rows[i])
  <2>1. v \in ItemValues
    BY <1>1, ParsedIsAnItem
  <2>2. items' = [items EXCEPT !.value[i] = v, !.typing = typing, !.was = was,
                               !.entered = entered, !.reverted = @ \ {i}]
    BY <1>3 DEF CommitRow
  <2> HIDE DEF v
  <2>3. items' = [parses |-> items.parses, value |-> [items.value EXCEPT ![i] = v],
                  rows |-> items.rows, typing |-> typing, was |-> was, entered |-> entered,
                  reverted |-> items.reverted \ {i}]
    BY <1>1, <2>2 DEF ListFields
  <2>4. /\ items'.parses = items.parses /\ items'.rows = items.rows /\ items'.typing = typing
        /\ items'.value = [items.value EXCEPT ![i] = v] /\ items'.was = was
        /\ items'.entered = entered /\ items'.reverted = items.reverted \ {i}
    BY <2>3
  <2>5. items'.value \in Seq(ItemValues) /\ Len(items'.value) = Len(items.value)
    BY <1>1, <2>1, <2>4 DEF ListFields
  <2>6. items'.value[i] = v /\ \A j \in 1..Len(items.value) : j # i => items'.value[j] = items.value[j]
    BY <1>1, <2>4 DEF ListFields
  <2>7. ListTypeOK'
    <3>1. typing \in Nat /\ typing \in 0..Len(items.rows)
      BY <1>1 DEF ListFields
    <3>2. items' \in ListFields
      BY <1>1, <2>3, <2>4, <2>5, <3>1 DEF ListFields
    <3> QED
      BY <2>4, <3>1, <3>2 DEF ListTypeOK
  <2>8. Parsed(items.rows[i])' = v
    BY <2>4 DEF Parsed, v
  <2>9. ASSUME NEW j \in 1..Len(items.rows), j # typing, j \notin items.reverted \ {i}
        PROVE  Stands(j)'
    <3>1. CASE j = i
      BY <2>6, <2>8, <3>1 DEF Stands
    <3>2. CASE j # i
      <4>1. Stands(j)
        BY <2>9, <3>2 DEF ItemsInv, RowsShown, Stands
      <4>2. items'.value[j] = items.value[j]
        BY <1>1, <2>6, <3>2
      <4> QED
        BY <2>4, <4>1, <4>2 DEF Stands, Parsed
    <3> QED
      BY <3>1, <3>2
  <2>10. RowsShown'
    BY <1>1, <2>4, <2>5, <2>9 DEF RowsShown, Stands
  <2>11. FoundStands'
    <3>1. SUFFICES ASSUME typing = i, ~entered
                   PROVE  StoodFor(i)'
      BY <2>4 DEF FoundStands
    <3>2. was = items.rows[i]
      BY <3>1
    <3> QED
      BY <2>4, <2>6, <3>2 DEF StoodFor, Parsed, v
  <2> QED
    BY <2>7, <2>10, <2>11 DEF ItemsInv
<1> QED
  BY <1>2, <1>3

LEMMA LeaveStep == ItemsInv /\ LeaveItem => ItemsInv'
<1> SUFFICES ASSUME ItemsInv, LeaveItem
             PROVE  ItemsInv'
  OBVIOUS
<1> DEFINE i == items.typing
<1>1. items \in ListFields /\ i \in 1..Len(items.rows) /\ i \in Nat /\ i # 0
  BY DEF ItemsInv, ListTypeOK, LeaveItem, ListFields
<1>2. CASE items.rows[i] # items.was
  <2>1. CommitRow(i, [items EXCEPT !.value[i] = Parsed(items.rows[i]), !.typing = 0,
                         !.was = NoText, !.entered = FALSE, !.reverted = @ \ {i}])
    BY <1>2 DEF LeaveItem
  <2>2. NoText \in Strings /\ FALSE \in BOOLEAN /\ 0 \in {0, i} /\ 0 # i
    BY <1>1, TextsAreItems
  <2>3. items.typing \in {0, i}
    OBVIOUS
  <2> HIDE DEF i
  <2> QED
    BY <1>1, <2>1, <2>2, <2>3, CommitStep
<1>3. CASE items.rows[i] = items.was
  <2> DEFINE r == IF items.entered THEN items.reverted \cup {i} ELSE items.reverted
  <2>1. items' = [items EXCEPT !.typing = 0, !.was = NoText, !.entered = FALSE, !.reverted = r]
    BY <1>1, <1>3 DEF LeaveItem
  <2>2. r \in SUBSET Nat
    BY <1>1 DEF ListFields
  <2> HIDE DEF r
  <2>3. items' = [parses |-> items.parses, value |-> items.value, rows |-> items.rows,
                  typing |-> 0, was |-> NoText, entered |-> FALSE, reverted |-> r]
    BY <1>1, <2>1 DEF ListFields
  <2>4. ListTypeOK'
    <3>1. NoText \in Strings /\ FALSE \in BOOLEAN /\ 0 \in Nat
      BY TextsAreItems
    <3>2. items' \in ListFields
      BY <1>1, <2>2, <2>3, <3>1 DEF ListFields
    <3>3. Len(items.rows) \in Nat
      BY <1>1 DEF ListFields
    <3> QED
      BY <2>3, <3>2, <3>3 DEF ListTypeOK
  <2>5. ASSUME NEW j \in 1..Len(items.rows), j \notin r
        PROVE  Stands(j)
    <3>1. j \notin items.reverted
      BY <2>5 DEF r
    <3>2. CASE j = i
      <4>1. ~items.entered
        BY <2>5, <3>2 DEF r
      <4>2. StoodFor(i)
        BY <1>1, <3>1, <3>2, <4>1 DEF ItemsInv, FoundStands
      <4> QED
        BY <1>3, <3>2, <4>2 DEF StoodFor, Stands
    <3>3. CASE j # i
      BY <3>1, <3>3 DEF ItemsInv, RowsShown, Stands
    <3> QED
      BY <3>2, <3>3
  <2>6. RowsShown'
    <3>1. Len(items.rows) = Len(items.value)
      BY DEF ItemsInv, RowsShown
    <3>2. ASSUME NEW j \in 1..Len(items.rows), j \notin r
          PROVE  Stands(j)'
      BY <2>3, <2>5, <3>2 DEF Stands, Parsed
    <3>3. items'.rows = items.rows /\ items'.value = items.value /\ items'.reverted = r
      BY <2>3
    <3> QED
      BY <3>1, <3>2, <3>3 DEF RowsShown, Stands
  <2>7. FoundStands'
    BY <2>3 DEF FoundStands
  <2> QED
    BY <2>4, <2>6, <2>7 DEF ItemsInv
<1> QED
  BY <1>2, <1>3

LEMMA TypeStep ==
  ASSUME ItemsInv, NEW i, NEW t \in Items, TypeItem(i, t)
  PROVE  ItemsInv'
<1>1. /\ items \in ListFields /\ Len(items.rows) = Len(items.value)
      /\ i \in 1..Len(items.rows) /\ items.typing \in {0, i} /\ i # 0
  BY DEF ItemsInv, ListTypeOK, RowsShown, TypeItem, HasFocus, ListFields
<1>2. t \in Strings
  BY FieldsAssumption DEF FieldsAssumption
<1> DEFINE w == AsFound(i)
<1>3. w \in Strings
  BY <1>1 DEF AsFound, ListFields
<1>4. items' = [items EXCEPT !.rows[i] = t, !.typing = i, !.was = w]
  BY DEF TypeItem
<1> HIDE DEF w
<1>5. items' = [parses |-> items.parses, value |-> items.value,
                rows |-> [items.rows EXCEPT ![i] = t], typing |-> i, was |-> w,
                entered |-> items.entered, reverted |-> items.reverted]
  BY <1>1, <1>4 DEF ListFields
<1>6. /\ items'.parses = items.parses /\ items'.value = items.value /\ items'.typing = i
      /\ items'.rows = [items.rows EXCEPT ![i] = t] /\ items'.was = w
      /\ items'.entered = items.entered /\ items'.reverted = items.reverted
  BY <1>5
<1>7. items'.rows \in Seq(Strings) /\ Len(items'.rows) = Len(items.rows)
  BY <1>1, <1>2, <1>6 DEF ListFields
<1>8. \A j \in 1..Len(items.rows) : j # i => items'.rows[j] = items.rows[j]
  BY <1>1, <1>6 DEF ListFields
<1>9. ListTypeOK'
  <2>1. i \in Nat /\ i \in 0..Len(items.rows)
    BY <1>1 DEF ListFields
  <2>2. items' \in ListFields
    BY <1>1, <1>3, <1>5, <1>6, <1>7, <2>1 DEF ListFields
  <2> QED
    BY <1>6, <1>7, <2>1, <2>2 DEF ListTypeOK
<1>10. RowsShown'
  <2>1. ASSUME NEW j \in 1..Len(items.rows), j # i, j \notin items.reverted
        PROVE  Stands(j)'
    <3>1. Stands(j)
      BY <1>1, <2>1 DEF ItemsInv, RowsShown, Stands
    <3> QED
      BY <1>6, <1>8, <2>1, <3>1 DEF Stands, Parsed
  <2> QED
    BY <1>1, <1>6, <1>7, <2>1 DEF RowsShown, Stands
<1>11. FoundStands'
  <2>1. SUFFICES ASSUME ~items.entered, i \notin items.reverted
                 PROVE  w = ListItemString(items.value[i]) \/ Parsed(w) = items.value[i]
    BY <1>6 DEF FoundStands, StoodFor, Parsed
  <2>2. CASE items.typing = 0
    BY <1>1, <2>1, <2>2 DEF ItemsInv, RowsShown, AsFound, w
  <2>3. CASE items.typing = i
    BY <1>1, <2>1, <2>3 DEF ItemsInv, FoundStands, StoodFor, AsFound, w
  <2> QED
    BY <1>1, <2>2, <2>3
<1> QED
  BY <1>9, <1>10, <1>11 DEF ItemsInv

LEMMA EnterStep ==
  ASSUME ItemsInv, NEW i, EnterItem(i)
  PROVE  ItemsInv'
<1>1. i \in 1..Len(items.rows) /\ items.typing \in {0, i}
  BY DEF EnterItem, HasFocus
<1> DEFINE w == AsFound(i)
           e == items.rows[i] # w
<1>2. w \in Strings
  BY <1>1 DEF ItemsInv, ListTypeOK, AsFound, ListFields
<1>3. CommitRow(i, [items EXCEPT !.value[i] = Parsed(items.rows[i]), !.typing = i,
                       !.was = w, !.entered = e, !.reverted = @ \ {i}])
  BY DEF EnterItem
<1>4. e \in BOOLEAN /\ (~e => w = items.rows[i])
  OBVIOUS
<1> HIDE DEF w, e
<1> QED
  BY <1>1, <1>2, <1>3, <1>4, CommitStep

LEMMA ItemsStep == ItemsInv /\ ItemsNext => ItemsInv'
<1> SUFFICES ASSUME ItemsInv, ItemsNext
             PROVE  ItemsInv'
  OBVIOUS
<1>1. /\ items.parses \in BOOLEAN /\ items.value \in Seq(ItemValues)
      /\ Len(items.rows) = Len(items.value)
  BY DEF ItemsInv, ListTypeOK, RowsShown, ListFields
<1>2. CASE AddItem
  <2>1. items' = Rendered(items.parses, Append(items.value, Blank))
    BY <1>2 DEF AddItem
  <2>2. Append(items.value, Blank) \in Seq(ItemValues)
    BY <1>1, TextsAreItems
  <2> QED
    BY <1>1, <2>1, <2>2, RenderedIsShown
<1>3. ASSUME NEW i \in 1..MaxItems, RemoveItem(i)
      PROVE  ItemsInv'
  <2>1. items' = Rendered(items.parses, Cut(items.value, i)) /\ i \in 1..Len(items.value)
    BY <1>1, <1>3 DEF RemoveItem
  <2>2. Cut(items.value, i) \in Seq(ItemValues)
    BY <1>1, <2>1, CutIsASequence
  <2> QED
    BY <1>1, <2>1, <2>2, RenderedIsShown
<1> QED
  BY <1>2, <1>3, LeaveStep, EnterStep, TypeStep DEF ItemsNext

-------------------------------------------------------------------------------
(* All fields *)

FieldInv == ValueInv /\ TimesInv /\ NumbersInv /\ CronInv /\ ItemsInv

LEMMA FieldStart == FieldInit => FieldInv
<1> SUFFICES ASSUME FieldInit
             PROVE  FieldInv
  OBVIOUS
<1>1. ValueInv
  <2>1. PICK v \in Values : valueData = LoadFromObj(v, NewField)
    BY DEF FieldInit
  <2>2. /\ NewField.invalid = FALSE /\ NewField.simple \in SimpleTexts
        /\ NewField.json \in JsonTexts \cup {"undefined"}
    BY DEF NewField, SimpleTexts, JsonTexts
  <2> QED
    <3> DEFINE f == LoadFromObj(v, NewField)
    <3>1. /\ f \in [value : Values, invalid : BOOLEAN, simple : SimpleTexts,
                    json : JsonTexts \cup {"undefined"}, mode : {"simple", "json"}]
          /\ f.value = v /\ f.invalid = FALSE /\ f.mode = (IF Simple(v) THEN "simple" ELSE "json")
          /\ Simple(v) => f.simple = AsText(v)
          /\ ~Simple(v) => f.json = AsJson(v)
      <4>1. NewField.invalid \in BOOLEAN
        BY <2>2
      <4> QED
        BY <2>2, <4>1, Loading
    <3> HIDE DEF f
    <3> QED
      BY <2>1, <3>1 DEF ValueInv, ValueTypeOK, ValueShown, MarkedIsInvalid, f
<1>2. CronInv
  <2>1. PICK s \in Specs : cron = LoadCron(s)
    BY DEF FieldInit
  <2>2. cron = [value |-> s, text |-> s, active |-> {s} \cap Presets]
    BY <2>1 DEF LoadCron
  <2> QED
    BY <2>1, <2>2 DEF CronInv, CronTypeOK
<1>3. ItemsInv
  <2>1. PICK parses \in BOOLEAN, s \in Lists : items = Rendered(parses, s)
    BY DEF FieldInit
  <2>2. s \in Seq(ItemValues)
    BY FieldsAssumption DEF FieldsAssumption
  <2> QED
    BY <2>1, <2>2, ListStarts
<1> QED
  BY <1>1, <1>2, <1>3, TimesStart, NumbersStart DEF FieldInv

LEMMA FieldStep == FieldInv /\ [FieldNext]_fieldVars => FieldInv'
<1> SUFFICES ASSUME FieldInv, [FieldNext]_fieldVars
             PROVE  FieldInv'
  OBVIOUS
<1>1. UNCHANGED valueData => ValueInv'
  BY DEF FieldInv, ValueInv, ValueTypeOK, ValueShown, MarkedIsInvalid
<1>2. UNCHANGED <<duration, date>> => TimesInv'
  BY DEF FieldInv, TimesInv, TimesTypeOK, DateShown
<1>3. UNCHANGED <<percentage, radius>> => NumbersInv'
  BY DEF FieldInv, NumbersInv, NumbersTypeOK, PercentageShown, RadiusShown
<1>4. UNCHANGED cron => CronInv'
  BY DEF FieldInv, CronInv, CronTypeOK
<1>5. UNCHANGED items => ItemsInv'
  BY DEF FieldInv, ItemsInv, ListTypeOK, RowsShown, FoundStands, StoodFor, Parsed
<1> USE <1>1, <1>2, <1>3, <1>4, <1>5
<1>6. CASE ValueDataNext /\ UNCHANGED <<duration, date, percentage, cron, radius, items>>
  BY <1>6, ValueStep DEF FieldInv
<1>7. CASE DurationNext /\ UNCHANGED <<valueData, date, percentage, cron, radius, items>>
  BY <1>7, DurationStep DEF FieldInv
<1>8. CASE DateNext /\ UNCHANGED <<valueData, duration, percentage, cron, radius, items>>
  BY <1>8, DateStep DEF FieldInv
<1>9. CASE /\ PercentageNext
           /\ UNCHANGED <<valueData, duration, date, cron, radius, items>>
  BY <1>9, PercentageStep DEF FieldInv
<1>10. CASE CronNext /\ UNCHANGED <<valueData, duration, date, percentage, radius, items>>
  BY <1>10, CronStep DEF FieldInv
<1>11. CASE RadiusNext /\ UNCHANGED <<valueData, duration, date, percentage, cron, items>>
  BY <1>11, RadiusStep DEF FieldInv
<1>12. CASE ItemsNext /\ UNCHANGED <<valueData, duration, date, percentage, cron, radius>>
  BY <1>12, ItemsStep DEF FieldInv
<1>13. CASE UNCHANGED fieldVars
  BY <1>13 DEF FieldInv, fieldVars
<1> QED
  BY <1>6, <1>7, <1>8, <1>9, <1>10, <1>11, <1>12, <1>13 DEF FieldNext

(* What a rule's inputs show is what the rule is saved with, for every value *)
(* a flag can be loaded with, at any precision of the numbers, and every     *)
(* sequence of edits (editor.js:1613, 1720, 1793, 1974, 2255, 2314).         *)
THEOREM InputsShowTheRule == FieldSpec => []FieldsShowRule
<1>1. FieldInv => FieldsShowRule
  BY DEF FieldInv, ValueInv, TimesInv, NumbersInv, CronInv, ItemsInv, FieldsShowRule
<1> QED
  BY <1>1, FieldStart, FieldStep, PTL DEF FieldSpec

(* Looking at a ValueData in the other mode changes it only where the simple *)
(* text stands for another value (editor.js:2242, 2259).                     *)
THEOREM SwitchingIsSafe == FieldSpec => SwitchKeepsValue
<1> DEFINE Kept == valueData'.mode # valueData.mode =>
              \/ valueData'.value = valueData.value
              \/ valueData.mode = "simple" /\ valueData.value \in Ambiguous
<1>1. FieldInv /\ [FieldNext]_fieldVars => [Kept]_valueData
  <2> SUFFICES ASSUME FieldInv, FieldNext, valueData' # valueData
               PROVE  Kept
    BY DEF fieldVars
  <2>1. ValueDataNext
    BY DEF FieldNext
  <2> USE DEF FieldInv, ValueInv, ValueTypeOK
  <2>2. CASE SwitchToSimple
    <3>1. CASE valueData.json = ""
      BY <2>2, <3>1 DEF SwitchToSimple, LoadFromObj
    <3>2. CASE valueData.json # ""
      <4>1. IsJson(valueData.json) /\ valueData.mode = "json"
        BY <2>2, <3>2 DEF SwitchToSimple
      <4>2. valueData.json = AsJson(valueData.value)
        BY <3>2, <4>1 DEF ValueShown, MarkedIsInvalid
      <4>3. /\ FromJson(valueData.json) \in Values \ {"undefined"}
            /\ AsJson(FromJson(valueData.json)) = AsJson(valueData.value)
        BY <4>1, <4>2, JsonIsParsed
      <4>4. FromJson(valueData.json) = valueData.value
        BY <4>3, JsonTellsApart
      <4>5. valueData' = [LoadFromObj(valueData.value, valueData) EXCEPT !.mode = "simple"]
        BY <2>2, <3>2, <4>4 DEF SwitchToSimple
      <4> QED
        BY <4>5 DEF LoadFromObj
    <3> QED
      BY <3>1, <3>2
  <2>3. CASE SwitchToJson
    <3>1. valueData.mode = "simple" /\ valueData'.value = FromText(valueData.simple)
      BY <2>3 DEF SwitchToJson
    <3>2. Simple(valueData.value) =>
            valueData.simple = AsText(valueData.value) \/ FromText(valueData.simple) = valueData.value
      BY <3>1 DEF ValueShown
    <3> QED
      BY <3>1, <3>2, TextsStand DEF Simple, Ambiguous
  <2>4. ASSUME NEW t \in SimpleTexts, TypeSimple(t)
        PROVE  Kept
    BY <2>4 DEF TypeSimple
  <2>5. ASSUME NEW t \in JsonTexts, TypeJson(t)
        PROVE  Kept
    BY <2>5 DEF TypeJson
  <2> HIDE DEF Kept
  <2> QED
    BY <2>1, <2>2, <2>3, <2>4, <2>5 DEF ValueDataNext
<1> QED
  BY <1>1, FieldStart, FieldStep, PTL DEF FieldSpec, SwitchKeepsValue

-------------------------------------------------------------------------------
(* RuleBuilder                                                               *)

(* The timers, as far as the proofs need them: one that has run out is not   *)
(* one that is off.                                                          *)
Ticks == 0..5 \cup {Off}
Timers == [sync : Ticks, toc : Ticks, tester : Ticks]

TimersOK == timers \in Timers

RequestsOK == \A q \in requests :
    /\ q = [what |-> q.what, body |-> q.body, doc |-> q.doc, answer |-> q.answer]
    /\ q.what \in {"save", "test"} /\ q.answer \in {"none", "done", "refused"}

OneSave == \A q, r \in requests : q.what = "save" /\ r.what = "save" => q = r

SavedIsStored == \A q \in requests : q.what = "save" /\ q.answer = "done" => q.body = stored

(* What a clean page has to say for itself: nothing it could still send or   *)
(* has sent differs from what it shows.                                      *)
Clean == ~dirty /\ cleared \in {"never", "saved"}

CleanIsCurrent == Clean =>
    /\ Doc = stored /\ savedRows = Fields(stored) /\ textarea = Doc
    /\ \A q \in requests : q.what = "save" => q.body = Doc

BuilderInv ==
    /\ TimersOK /\ TextareaFollows
    /\ RequestsOK /\ OneSave /\ SavedIsStored /\ CleanIsCurrent

-------------------------------------------------------------------------------
(* The rules the page has depend on the tree of rules alone.                 *)
LEMMA SameTreeSameDoc == UNCHANGED treeVars => Doc' = Doc
BY DEF treeVars, Doc, OnPage, Path

(* A handler that calls notifyChange makes the page dirty and starts the     *)
(* timer of the textarea, whatever it does to the rules.                     *)
LEMMA Notified ==
  ASSUME NEW t \in Timers, BuilderInv, NotifyChange(t),
         UNCHANGED saveVars
  PROVE  BuilderInv'
<1>1. timers' = [t EXCEPT !.sync = SyncDelay, !.toc = TocDelay] /\ dirty' = TRUE
  BY DEF NotifyChange
<1>2. timers'.sync = 3 /\ TimersOK'
  <2>1. timers' \in Timers
    <3>1. SyncDelay \in Ticks /\ TocDelay \in Ticks
      BY DEF SyncDelay, TocDelay, Ticks
    <3> QED
      BY <1>1, <3>1 DEF Timers
  <2> QED
    BY <1>1, <2>1 DEF SyncDelay, TimersOK, Timers
<1>3. TextareaFollows' /\ CleanIsCurrent'
  BY <1>1, <1>2 DEF TextareaFollows, CleanIsCurrent, Clean, Off
<1>4. RequestsOK' /\ OneSave' /\ SavedIsStored'
  BY DEF BuilderInv, saveVars, RequestsOK, OneSave, SavedIsStored
<1> QED
  BY <1>2, <1>3, <1>4 DEF BuilderInv

(* A step that leaves the rules, the textarea, the guard and the requests    *)
(* alone, and the timer of the textarea running, off or as it was.           *)
LEMMA Elsewhere ==
  ASSUME BuilderInv, UNCHANGED <<treeVars, textarea, saveVars, savedRows, dirty>>,
         TimersOK', timers'.sync = Off => timers.sync = Off
  PROVE  BuilderInv'
<1>1. Doc' = Doc
  BY SameTreeSameDoc
<1>2. TextareaFollows'
  BY <1>1 DEF BuilderInv, TextareaFollows
<1>3. CleanIsCurrent'
  <2> SUFFICES ASSUME Clean'
               PROVE  /\ Doc' = stored' /\ savedRows' = Fields(stored') /\ textarea' = Doc'
                      /\ \A q \in requests' : q.what = "save" => q.body = Doc'
    BY DEF CleanIsCurrent
  <2>1. Clean
    BY DEF Clean, saveVars
  <2> QED
    BY <1>1, <2>1 DEF BuilderInv, CleanIsCurrent, saveVars
<1>4. RequestsOK' /\ OneSave' /\ SavedIsStored'
  BY DEF BuilderInv, saveVars, RequestsOK, OneSave, SavedIsStored
<1> QED
  BY <1>2, <1>3, <1>4 DEF BuilderInv

LEMMA TimersTick ==
  ASSUME TimersOK, Tick
  PROVE  TimersOK' /\ (timers'.sync = Off => timers.sync = Off)
<1>1. /\ timers = [sync |-> timers.sync, toc |-> timers.toc, tester |-> timers.tester]
      /\ timers.sync \in Ticks /\ timers.toc \in Ticks /\ timers.tester \in Ticks
  BY DEF TimersOK, Timers
<1>2. DOMAIN timers = {"sync", "toc", "tester"}
  BY <1>1
<1>3. timers.sync # 0 /\ timers.toc # 0 /\ timers.tester # 0
  BY DEF Tick, Due
<1> DEFINE Less(n) == IF n = Off THEN Off ELSE n - 1
<1>4. timers' = [t \in {"sync", "toc", "tester"} |-> Less(timers[t])]
  BY <1>2 DEF Tick
<1>5. timers' = [sync |-> Less(timers.sync), toc |-> Less(timers.toc),
                 tester |-> Less(timers.tester)]
  BY <1>4
<1>6. \A n \in Ticks : n # 0 => Less(n) \in Ticks /\ (Less(n) = Off => n = Off)
  BY DEF Ticks, Off
<1> HIDE DEF Less
<1> QED
  BY <1>1, <1>3, <1>5, <1>6 DEF TimersOK, Timers

(* What a request has become once it is answered.                            *)
LEMMA AnsweredIsSent ==
  ASSUME BuilderInv, NEW q \in requests, NEW how \in {"done", "refused"},
         Answers(q, how)
  PROVE  /\ RequestsOK'
         /\ \A r \in requests' : \E s \in requests :
               /\ r.what = s.what /\ r.body = s.body /\ r.doc = s.doc
               /\ r = s \/ (s = q /\ r.answer = how)
<1> DEFINE a == [q EXCEPT !.answer = how]
<1>1. q = [what |-> q.what, body |-> q.body, doc |-> q.doc, answer |-> q.answer]
  BY DEF BuilderInv, RequestsOK
<1>2. a = [what |-> q.what, body |-> q.body, doc |-> q.doc, answer |-> how]
  BY <1>1
<1>3. requests' = (requests \ {q}) \cup {a}
  BY DEF Answers
<1> HIDE DEF a
<1>4. a = [what |-> a.what, body |-> a.body, doc |-> a.doc, answer |-> a.answer]
  BY <1>2
<1>5. a.what = q.what /\ a.body = q.body /\ a.doc = q.doc /\ a.answer = how
  BY <1>2
<1>6. RequestsOK'
  BY <1>3, <1>4, <1>5 DEF BuilderInv, RequestsOK
<1> QED
  BY <1>3, <1>5, <1>6

LEMMA BuilderStart == BuilderInit => BuilderInv
<1> SUFFICES ASSUME BuilderInit
             PROVE  BuilderInv
  OBVIOUS
<1>1. /\ textarea = Doc /\ stored = Doc /\ savedRows = Fields(Doc) /\ requests = {}
      /\ timers = [sync |-> Off, toc |-> Off, tester |-> Off]
  BY DEF BuilderInit
<1>2. TimersOK
  BY <1>1 DEF TimersOK, Timers, Ticks
<1> QED
  BY <1>1, <1>2 DEF BuilderInv, TextareaFollows, RequestsOK, OneSave, SavedIsStored, CleanIsCurrent

LEMMA BuilderStep == BuilderInv /\ [BuilderNext]_pageVars => BuilderInv'
<1> SUFFICES ASSUME BuilderInv, [BuilderNext]_pageVars
             PROVE  BuilderInv'
  OBVIOUS
<1>0. timers \in Timers
  BY DEF BuilderInv, TimersOK
<1>1. CASE SyncTextarea
  <2>1. /\ timers' = [timers EXCEPT !.sync = Off] /\ textarea' = Doc
        /\ UNCHANGED <<treeVars, saveVars, savedRows, dirty>>
    BY <1>1 DEF SyncTextarea, testerVars
  <2>2. Doc' = Doc
    BY <2>1, SameTreeSameDoc
  <2>3. TimersOK'
    <3>1. Off \in Ticks
      BY DEF Ticks
    <3> QED
      BY <1>0, <2>1, <3>1 DEF TimersOK, Timers
  <2>4. CleanIsCurrent'
    <3> SUFFICES ASSUME Clean'
                 PROVE  /\ Doc' = stored' /\ savedRows' = Fields(stored') /\ textarea' = Doc'
                        /\ \A q \in requests' : q.what = "save" => q.body = Doc'
      BY DEF CleanIsCurrent
    <3>1. Clean
      BY <2>1 DEF Clean, saveVars
    <3> QED
      BY <2>1, <2>2, <3>1 DEF BuilderInv, CleanIsCurrent, saveVars
  <2> QED
    BY <2>1, <2>2, <2>3, <2>4
    DEF BuilderInv, TextareaFollows, RequestsOK, OneSave, SavedIsStored, saveVars
<1>2. CASE RefreshRuleTOC \/ RefreshTester
  <2>1. PICK f \in {"toc", "tester"} : timers' = [timers EXCEPT ![f] = Off]
    BY <1>2 DEF RefreshRuleTOC, RefreshTester
  <2>2. Off \in Ticks
    BY DEF Ticks
  <2>3. TimersOK' /\ timers'.sync = timers.sync
    BY <1>0, <2>1, <2>2 DEF TimersOK, Timers
  <2>4. UNCHANGED <<treeVars, textarea, saveVars, savedRows, dirty>>
    BY <1>2 DEF RefreshRuleTOC, RefreshTester, testerVars
  <2> QED
    BY <2>3, <2>4, Elsewhere
<1>3. CASE Tick
  <2>1. UNCHANGED <<treeVars, textarea, saveVars, savedRows, dirty>>
    BY <1>3 DEF Tick, testerVars
  <2>2. TimersOK' /\ (timers'.sync = Off => timers.sync = Off)
    BY <1>3, TimersTick DEF BuilderInv
  <2> QED
    BY <2>1, <2>2, Elsewhere
<1>4. ASSUME NEW d \in leaving, RemoveRule(d)
      PROVE  BuilderInv'
  <2>1. NotifyChange(timers) /\ UNCHANGED saveVars
    BY <1>4 DEF RemoveRule
  <2> QED
    BY <1>0, <2>1, Notified
<1>5. ASSUME NEW r \in Rules, NEW n \in Names, EditField(r, n)
      PROVE  BuilderInv'
  <2>1. NotifyChange([timers EXCEPT !.tester = TesterDelay]) /\ UNCHANGED saveVars
    BY <1>5 DEF EditField
  <2>2. TesterDelay \in Ticks
    BY DEF TesterDelay, Ticks
  <2>3. [timers EXCEPT !.tester = TesterDelay] \in Timers
    BY <1>0, <2>2 DEF Timers
  <2> QED
    BY <2>1, <2>3, Notified
<1>6. ASSUME NEW l \in Rules \cup {Top}, NEW k \in NewKinds, AddRule(l, k)
      PROVE  BuilderInv'
  <2>1. NotifyChange(timers) /\ UNCHANGED saveVars
    BY <1>6 DEF AddRule
  <2> QED
    BY <1>0, <2>1, Notified
<1>7. CASE \/ \E r \in Rules : DeleteRule(r)
           \/ \E q \in Names \cup Kinds \cup {""} : SearchRules(q)
           \/ \E s \in {"draft", "saved"} : ChooseSource(s)
           \/ UNCHANGED pageVars
  <2>1. UNCHANGED <<treeVars, textarea, saveVars, savedRows, dirty, timers>>
    BY <1>7 DEF DeleteRule, SearchRules, ChooseSource, testerVars, pageVars
  <2> QED
    BY <2>1, Elsewhere DEF BuilderInv, TimersOK
<1>8. ASSUME NEW what \in {"save", "test"}, Send(what)
      PROVE  BuilderInv'
  <2> DEFINE sent == [what |-> what, body |-> textarea, doc |-> Doc, answer |-> "none"]
  <2>1. /\ requests' = requests \cup {sent} /\ textarea' = Doc
        /\ UNCHANGED <<treeVars, savedRows, stored, cleared, timers, dirty>>
        /\ ~\E q \in requests : q.what = what
    BY <1>8 DEF Send, testerVars
  <2>2. Doc' = Doc
    BY <2>1, SameTreeSameDoc
  <2>3. /\ sent.what = what /\ sent.body = textarea /\ sent.answer = "none"
        /\ sent = [what |-> sent.what, body |-> sent.body, doc |-> sent.doc, answer |-> sent.answer]
    OBVIOUS
  <2> HIDE DEF sent
  <2>4. RequestsOK' /\ OneSave' /\ SavedIsStored'
    BY <2>1, <2>3 DEF BuilderInv, RequestsOK, OneSave, SavedIsStored
  <2>5. CleanIsCurrent'
    <3> SUFFICES ASSUME Clean'
                 PROVE  /\ Doc' = stored' /\ savedRows' = Fields(stored') /\ textarea' = Doc'
                        /\ \A q \in requests' : q.what = "save" => q.body = Doc'
      BY DEF CleanIsCurrent
    <3>1. Clean
      BY <2>1 DEF Clean
    <3> QED
      BY <2>1, <2>2, <2>3, <3>1 DEF BuilderInv, CleanIsCurrent
  <2> QED
    BY <2>1, <2>2, <2>4, <2>5 DEF BuilderInv, TextareaFollows, TimersOK
<1>9. ASSUME NEW q \in requests, HandleSaveFlag(q)
      PROVE  BuilderInv'
  <2>1. /\ UNCHANGED <<treeVars, savedRows, cleared, textarea, timers, dirty>>
        /\ q.what = "save" /\ q.answer = "none"
    BY <1>9 DEF HandleSaveFlag, testerVars
  <2>2. Doc' = Doc
    BY <2>1, SameTreeSameDoc
  <2>3. PICK how \in {"done", "refused"} :
          /\ Answers(q, how)
          /\ how = "done" => stored' = q.body
          /\ how = "refused" => stored' = stored
    BY <1>9 DEF HandleSaveFlag
  <2>4. /\ RequestsOK'
        /\ \A r \in requests' : \E s \in requests :
              /\ r.what = s.what /\ r.body = s.body /\ r.doc = s.doc
              /\ r = s \/ (s = q /\ r.answer = how)
    BY <2>3, AnsweredIsSent
  <2>5. OneSave'
    <3> SUFFICES ASSUME NEW r \in requests', NEW s \in requests', r.what = "save", s.what = "save"
                 PROVE  r = s
      BY DEF OneSave
    <3>1. \A t \in requests : t.what = "save" => t = q
      BY <2>1 DEF BuilderInv, OneSave
    <3>2. \A t \in requests' : t.what = "save" => t = [q EXCEPT !.answer = how]
      BY <2>3, <3>1 DEF Answers
    <3> QED
      BY <3>2
  <2>6. SavedIsStored'
    <3> SUFFICES ASSUME NEW r \in requests', r.what = "save", r.answer = "done"
                 PROVE  r.body = stored'
      BY DEF SavedIsStored
    <3>1. PICK s \in requests : r.what = s.what /\ r.body = s.body /\ (r = s \/ r.answer = how)
      BY <2>4
    <3>2. s = q
      BY <2>1, <3>1 DEF BuilderInv, OneSave
    <3>3. r.answer = how
      BY <2>1, <3>1, <3>2
    <3> QED
      BY <2>3, <3>1, <3>2, <3>3
  <2>7. CleanIsCurrent'
    <3> SUFFICES ASSUME Clean'
                 PROVE  /\ Doc' = stored' /\ savedRows' = Fields(stored') /\ textarea' = Doc'
                        /\ \A r \in requests' : r.what = "save" => r.body = Doc'
      BY DEF CleanIsCurrent
    <3>1. Clean
      BY <2>1 DEF Clean
    <3>2. q.body = Doc /\ Doc = stored /\ savedRows = Fields(stored) /\ textarea = Doc
      BY <2>1, <3>1 DEF BuilderInv, CleanIsCurrent
    <3>3. stored' = stored
      BY <2>3, <3>2
    <3>4. \A r \in requests' : r.what = "save" => r.body = Doc
      BY <2>4, <3>1 DEF BuilderInv, CleanIsCurrent
    <3> QED
      BY <2>1, <2>2, <3>2, <3>3, <3>4
  <2> QED
    BY <2>1, <2>2, <2>4, <2>5, <2>6, <2>7 DEF BuilderInv, TextareaFollows, TimersOK
<1>10. ASSUME NEW q \in requests, HandleTestFlag(q)
       PROVE  BuilderInv'
  <2>1. /\ UNCHANGED <<treeVars, savedRows, stored, cleared, textarea, timers, dirty>>
        /\ q.what = "test" /\ Answers(q, "done")
    BY <1>10 DEF HandleTestFlag, testerVars
  <2>2. Doc' = Doc
    BY <2>1, SameTreeSameDoc
  <2>3. /\ RequestsOK'
        /\ \A r \in requests' : \E s \in requests :
              /\ r.what = s.what /\ r.body = s.body /\ r.doc = s.doc
              /\ r = s \/ (s = q /\ r.answer = "done")
    BY <2>1, AnsweredIsSent
  <2>4. \A r \in requests' : r.what = "save" => r \in requests
    BY <2>1, <2>3
  <2>5. OneSave' /\ SavedIsStored'
    BY <2>1, <2>4 DEF BuilderInv, OneSave, SavedIsStored
  <2>6. CleanIsCurrent'
    <3> SUFFICES ASSUME Clean'
                 PROVE  /\ Doc' = stored' /\ savedRows' = Fields(stored') /\ textarea' = Doc'
                        /\ \A r \in requests' : r.what = "save" => r.body = Doc'
      BY DEF CleanIsCurrent
    <3>1. Clean
      BY <2>1 DEF Clean
    <3> QED
      BY <2>1, <2>2, <2>4, <3>1 DEF BuilderInv, CleanIsCurrent
  <2> QED
    BY <2>1, <2>2, <2>3, <2>5, <2>6 DEF BuilderInv, TextareaFollows, TimersOK
<1>11. ASSUME NEW q \in requests, LoseRequest(q)
       PROVE  BuilderInv'
  <2>1. /\ UNCHANGED <<treeVars, savedRows, stored, cleared, textarea, timers, dirty>>
        /\ requests' = requests \ {q}
    BY <1>11 DEF LoseRequest, testerVars
  <2>2. Doc' = Doc
    BY <2>1, SameTreeSameDoc
  <2>3. RequestsOK' /\ OneSave' /\ SavedIsStored'
    BY <2>1 DEF BuilderInv, RequestsOK, OneSave, SavedIsStored
  <2>4. CleanIsCurrent'
    <3> SUFFICES ASSUME Clean'
                 PROVE  /\ Doc' = stored' /\ savedRows' = Fields(stored') /\ textarea' = Doc'
                        /\ \A r \in requests' : r.what = "save" => r.body = Doc'
      BY DEF CleanIsCurrent
    <3>1. Clean
      BY <2>1 DEF Clean
    <3> QED
      BY <2>1, <2>2, <3>1 DEF BuilderInv, CleanIsCurrent
  <2> QED
    BY <2>1, <2>2, <2>3, <2>4 DEF BuilderInv, TextareaFollows, TimersOK
<1>12. ASSUME NEW q \in requests, RequestAnswered(q)
       PROVE  BuilderInv'
  <2>1. /\ UNCHANGED <<treeVars, stored, timers>>
        /\ requests' = requests \ {q} /\ q.answer # "none"
        /\ cleared' = Clears(q) /\ textarea' = Doc /\ savedRows' = Fields(Doc)
    BY <1>12 DEF RequestAnswered
  <2>2. Doc' = Doc
    BY <2>1, SameTreeSameDoc
  <2>3. RequestsOK' /\ OneSave' /\ SavedIsStored'
    BY <2>1 DEF BuilderInv, RequestsOK, OneSave, SavedIsStored
  <2>4. CleanIsCurrent'
    <3> SUFFICES ASSUME Clean'
                 PROVE  /\ Doc' = stored' /\ savedRows' = Fields(stored') /\ textarea' = Doc'
                        /\ \A r \in requests' : r.what = "save" => r.body = Doc'
      BY DEF CleanIsCurrent
    <3>1. Clears(q) \in {"never", "saved"}
      BY <2>1 DEF Clean
    <3>2. q.what # "test" /\ q.answer # "refused" /\ q.body = q.doc /\ q.doc = Doc
      BY <3>1 DEF Clears
    <3>3. q.what = "save" /\ q.answer = "done"
      BY <2>1, <3>2 DEF BuilderInv, RequestsOK
    <3>4. Doc = stored
      BY <3>2, <3>3 DEF BuilderInv, SavedIsStored
    <3>5. \A r \in requests' : r.what # "save"
      BY <2>1, <3>3 DEF BuilderInv, OneSave
    <3> QED
      BY <2>1, <2>2, <3>4, <3>5
  <2> QED
    BY <2>1, <2>2, <2>3, <2>4 DEF BuilderInv, TextareaFollows, TimersOK
<1> QED
  BY <1>1, <1>2, <1>3, <1>4, <1>5, <1>6, <1>7, <1>8, <1>9, <1>10, <1>11, <1>12 DEF BuilderNext

-------------------------------------------------------------------------------
(* Whatever is done on the page and in whatever order: once no sync of the   *)
(* textarea is pending, the textarea that is submitted holds the rules the   *)
(* builder shows (editor.js:1127, 1324).                                     *)
THEOREM TextareaIsCurrent == BuilderSpec => []TextareaFollows
<1>1. BuilderInv => TextareaFollows
  BY DEF BuilderInv
<1> QED
  BY <1>1, BuilderStart, BuilderStep, PTL DEF BuilderSpec

(* A page that may be left without a question, and whose guard no test, no   *)
(* refusal, no old textarea and no overtaken save has cleared, shows the     *)
(* rules that are in the database; however requests are lost, refused or     *)
(* answered late (editor.js:614, 811, 831, editor.go:146).                   *)
THEOREM CleanPagesAreSaved == BuilderSpec => []CleanIsSaved
<1>1. BuilderInv => CleanIsSaved
  BY DEF BuilderInv, CleanIsCurrent, Clean, CleanIsSaved
<1> QED
  BY <1>1, BuilderStart, BuilderStep, PTL DEF BuilderSpec

-------------------------------------------------------------------------------
(* RuleBuilder: paths in the tree of rules                                   *)

Upward(up, S) == S \subseteq DOMAIN up /\ \A s \in S : up[s] \in DOMAIN up => up[s] \in S

LEMMA PathIsLeast ==
  ASSUME NEW up, NEW r \in DOMAIN up
  PROVE  /\ r \in Path(up, r) /\ Upward(up, Path(up, r))
         /\ \A S : Upward(up, S) /\ r \in S => Path(up, r) \subseteq S
<1>1. r \in Path(up, r) /\ Path(up, r) \subseteq DOMAIN up
  BY DEF Path
<1>2. ASSUME NEW s \in Path(up, r), up[s] \in DOMAIN up PROVE up[s] \in Path(up, r)
  <2> SUFFICES ASSUME NEW S \in SUBSET DOMAIN up, r \in S,
                      \A t \in S : up[t] \in DOMAIN up => up[t] \in S
               PROVE  up[s] \in S
    BY <1>2 DEF Path
  <2>1. s \in S
    BY <1>2 DEF Path
  <2> QED
    BY <1>2, <2>1
<1>3. ASSUME NEW S, Upward(up, S), r \in S PROVE Path(up, r) \subseteq S
  BY <1>3 DEF Path, Upward
<1> QED
  BY <1>1, <1>2, <1>3 DEF Upward

(* A path ends at a rule that nothing holds.                                 *)
LEMMA PathEnds ==
  ASSUME NEW up, NEW r \in DOMAIN up, up[r] \notin DOMAIN up
  PROVE  Path(up, r) = {r}
<1>1. Upward(up, {r})
  BY DEF Upward
<1> QED
  BY <1>1, PathIsLeast

(* A path stays when no rule on it that is held is moved.                    *)
LEMMA PathStays ==
  ASSUME NEW up, NEW down, DOMAIN down = DOMAIN up, NEW r \in DOMAIN up,
         \A s \in Path(up, r) : up[s] \in DOMAIN up => down[s] = up[s]
  PROVE  Path(up, r) \subseteq Path(down, r)
<1> DEFINE both == Path(up, r) \cap Path(down, r)
<1>1. Upward(up, both)
  <2> SUFFICES ASSUME NEW s \in both, up[s] \in DOMAIN up PROVE up[s] \in both
    BY PathIsLeast DEF Upward
  <2>1. down[s] = up[s]
    OBVIOUS
  <2> QED
    BY <2>1, PathIsLeast DEF Upward
<1>2. r \in both
  BY PathIsLeast
<1> HIDE DEF both
<1>3. Path(up, r) \subseteq both
  BY <1>1, <1>2, PathIsLeast
<1> QED
  BY <1>3 DEF both

(* The path of a rule of the page is the same in the page that is saved.     *)
LEMMA PathInDoc ==
  ASSUME NEW r \in OnPage, parent \in [Rules -> Rules \cup {Top, Unused, Gone}]
  PROVE  Path([q \in OnPage |-> parent[q]], r) \subseteq Path(parent, r)
<1> DEFINE up == [q \in OnPage |-> parent[q]]
           both == Path(parent, r) \cap OnPage
<1>1. DOMAIN up = OnPage /\ DOMAIN parent = Rules /\ OnPage \subseteq Rules
  BY DEF OnPage
<1>2. r \in both
  BY <1>1, PathIsLeast
<1>3. Upward(up, both)
  <2> SUFFICES ASSUME NEW s \in both, up[s] \in OnPage PROVE up[s] \in both
    BY <1>1 DEF Upward
  <2>1. up[s] = parent[s] /\ parent[s] \in Rules
    BY <1>1
  <2> QED
    BY <1>1, <2>1, PathIsLeast DEF Upward
<1> HIDE DEF up, both
<1>4. Path(up, r) \subseteq both
  BY <1>1, <1>2, <1>3, PathIsLeast
<1> QED
  BY <1>4 DEF up, both

LEMMA SameTree ==
  ASSUME UNCHANGED treeVars
  PROVE  /\ OnPage' = OnPage /\ Doc' = Doc
         /\ \A r : NamesBelow(r)' = NamesBelow(r)
         /\ \A q, metas : ApplyRuleSearch(q, metas)' = ApplyRuleSearch(q, metas)
<1>1. UNCHANGED <<parent, kind, name, index>>
  BY DEF treeVars
<1>2. OnPage' = OnPage
  BY <1>1 DEF OnPage, Path
<1> QED
  BY <1>1, <1>2 DEF Doc, NamesBelow, Path, ApplyRuleSearch, Found

-------------------------------------------------------------------------------
(* RuleBuilder: the overview and its search                                  *)

(* With the overview up to date, it lists the rules of the page, their texts *)
(* are those of the rules, and what is hidden is what the query hides.       *)
ViewInv == timers.toc = Off /\ OnPage # {} =>
    /\ toc = OnPage /\ (\A r \in OnPage : meta[r] = NamesBelow(r))
    /\ hidden = ApplyRuleSearch(query, meta)

LEMMA ViewShows == ViewInv => SearchShowsPaths
<1> SUFFICES ASSUME ViewInv, timers.toc = Off, OnPage # {},
                    NEW r \in OnPage
             PROVE  /\ toc = OnPage
                    /\ r \notin hidden <=> \E d \in OnPage : r \in Path(parent, d)
                           /\ (query \in {"", kind[d]} \/ query \in NamesBelow(d))
  BY DEF SearchShowsPaths, ViewInv
<1>1. toc = OnPage /\ (\A d \in OnPage : meta[d] = NamesBelow(d)) /\ hidden = ApplyRuleSearch(query, meta)
  BY DEF ViewInv
<1>2. \A d \in OnPage : Found(d, query, meta) <=> (query \in {"", kind[d]} \/ query \in NamesBelow(d))
  BY <1>1 DEF Found
<1> QED
  BY <1>1, <1>2 DEF ApplyRuleSearch

LEMMA ViewStart == BuilderInit => ViewInv
<1> SUFFICES ASSUME BuilderInit PROVE ViewInv
  OBVIOUS
<1>1. /\ toc = OnPage /\ query = "" /\ hidden = {}
      /\ meta = [r \in Rules |-> IF r \in OnPage THEN NamesBelow(r) ELSE {}]
  BY DEF BuilderInit
<1>2. \A r \in OnPage : r \in Rules
  BY DEF OnPage
<1>3. ApplyRuleSearch(query, meta) = {}
  <2>0. DOMAIN parent = Rules
    BY DEF BuilderInit
  <2>1. \A r \in OnPage : Found(r, query, meta) /\ r \in Path(parent, r)
    BY <1>1, <1>2, <2>0, PathIsLeast DEF Found
  <2> QED
    BY <2>1 DEF ApplyRuleSearch
<1> QED
  BY <1>1, <1>2, <1>3 DEF ViewInv

LEMMA ViewStep ==
  ASSUME TimersOK, ViewInv, [BuilderNext]_pageVars
  PROVE  ViewInv'
<1>0. timers \in Timers /\ \A f \in {"sync", "toc", "tester"} : timers[f] \in Ticks
  BY DEF TimersOK, Timers
<1>1. CASE RefreshRuleTOC
  <2>1. UNCHANGED treeVars /\ query' = query /\ toc' = OnPage
        /\ meta' = [r \in Rules |-> IF r \in OnPage THEN NamesBelow(r) ELSE meta[r]]
        /\ (OnPage # {} => hidden' = ApplyRuleSearch(query, meta'))
    BY <1>1 DEF RefreshRuleTOC
  <2>2. \A r \in OnPage : r \in Rules
    BY DEF OnPage
  <2> QED
    BY <2>1, <2>2, SameTree DEF ViewInv
<1>2. ASSUME NEW q, SearchRules(q) PROVE ViewInv'
  <2>1. UNCHANGED <<treeVars, meta, toc, timers>> /\ query' = q /\ hidden' = ApplyRuleSearch(q, meta)
    BY <1>2 DEF SearchRules
  <2> QED
    BY <2>1, SameTree DEF ViewInv
<1>3. ASSUME NEW t \in Timers, NotifyChange(t) PROVE ViewInv'
  <2>1. timers'.toc = TocDelay
    BY <1>3 DEF NotifyChange, Timers
  <2> QED
    BY <2>1 DEF ViewInv, TocDelay, Off
<1>4. ASSUME UNCHANGED <<treeVars, viewVars>>, timers'.toc = Off => timers.toc = Off PROVE ViewInv'
  BY <1>4, SameTree DEF ViewInv, viewVars
<1>5. CASE SyncTextarea \/ RefreshTester
  <2>1. PICK f \in {"sync", "tester"} : timers' = [timers EXCEPT ![f] = Off]
    BY <1>5 DEF SyncTextarea, RefreshTester
  <2>2. timers'.toc = timers.toc
    BY <1>0, <2>1 DEF Timers
  <2> QED
    BY <1>4, <1>5, <2>2 DEF SyncTextarea, RefreshTester
<1>6. CASE Tick
  <2>1. timers'.toc = IF timers.toc = Off THEN Off ELSE timers.toc - 1
    BY <1>0, <1>6 DEF Tick, Timers
  <2>2. timers.toc \in Ticks
    BY <1>0
  <2>3. timers'.toc = Off => timers.toc = Off
    BY <2>1, <2>2 DEF Ticks, Off
  <2> QED
    BY <1>4, <1>6, <2>3 DEF Tick
<1>7. ASSUME NEW d \in leaving, RemoveRule(d) PROVE ViewInv'
  BY <1>0, <1>3, <1>7 DEF RemoveRule
<1>8. ASSUME NEW r \in Rules, NEW n \in Names, EditField(r, n) PROVE ViewInv'
  <2>1. [timers EXCEPT !.tester = TesterDelay] \in Timers
    BY <1>0 DEF Timers, TesterDelay, Ticks
  <2> QED
    BY <1>3, <1>8, <2>1 DEF EditField
<1>9. ASSUME NEW l \in Rules \cup {Top}, NEW k \in NewKinds, AddRule(l, k) PROVE ViewInv'
  BY <1>0, <1>3, <1>9 DEF AddRule
<1>10. CASE \/ \E r \in Rules : DeleteRule(r)
            \/ \E s \in {"draft", "saved"} : ChooseSource(s)
            \/ \E what \in {"save", "test"} : Send(what)
            \/ \E q \in requests : HandleSaveFlag(q) \/ HandleTestFlag(q) \/ LoseRequest(q)
                                   \/ RequestAnswered(q)
            \/ UNCHANGED pageVars
  <2>1. UNCHANGED <<treeVars, viewVars, timers>>
    BY <1>10 DEF DeleteRule, ChooseSource, Send, HandleSaveFlag, HandleTestFlag, LoseRequest,
       RequestAnswered, pageVars
  <2> QED
    BY <1>4, <2>1
<1> QED
  BY <1>1, <1>2, <1>5, <1>6, <1>7, <1>8, <1>9, <1>10 DEF BuilderNext

(* Whatever is edited, added, removed and searched for: once the overview    *)
(* is up to date it lists the rules of the page, and the search shows what   *)
(* it finds and the way to it (editor.js:1171, 1258).                        *)
THEOREM SearchShowsTheWay == BuilderSpec => []SearchShowsPaths
<1>1. BuilderInv => TimersOK
  BY DEF BuilderInv
<1> QED
  BY <1>1, BuilderStart, BuilderStep, ViewStart, ViewStep, ViewShows, PTL DEF BuilderSpec

-------------------------------------------------------------------------------
(* RuleBuilder: the tester's rows                                            *)

(* Unless rules came or went, the tester reads the textarea after the        *)
(* textarea has been brought up to date, or it is up to date already.        *)
RowsInv == ~restructured =>
    \/ timers.sync # Off /\ timers.tester # Off /\ timers.sync < timers.tester
    \/ textarea = Doc /\ (source = "draft" /\ timers.tester = Off => rows = Fields(Doc))

LEMMA RowsStart == BuilderInit => RowsInv
BY DEF BuilderInit, RowsInv

LEMMA RowsStep ==
  ASSUME TimersOK, TextareaFollows, RowsInv, [BuilderNext]_pageVars
  PROVE  RowsInv'
<1>0. timers \in Timers /\ \A f \in {"sync", "toc", "tester"} : timers[f] \in Ticks
  BY DEF TimersOK, Timers
<1>a. Ticks \subseteq Int /\ Off \in Ticks /\ Off \in Int
  BY DEF Ticks, Off
<1>1. CASE SyncTextarea
  <2>1. timers'.sync = Off /\ timers'.tester = timers.tester /\ timers.sync = 0
    BY <1>0, <1>1 DEF SyncTextarea, Timers
  <2>2. textarea' = Doc' /\ Doc' = Doc /\ UNCHANGED <<source, rows, restructured>>
    BY <1>1, SameTree DEF SyncTextarea, testerVars
  <2> QED
    BY <2>1, <2>2 DEF RowsInv
<1>2. CASE RefreshRuleTOC
  <2>1. timers'.sync = timers.sync /\ timers'.tester = timers.tester
    BY <1>0, <1>2 DEF RefreshRuleTOC, Timers
  <2>2. Doc' = Doc /\ UNCHANGED <<textarea, source, rows, restructured>>
    BY <1>2, SameTree DEF RefreshRuleTOC, testerVars
  <2> QED
    BY <2>1, <2>2 DEF RowsInv
<1>3. CASE RefreshTester
  <2>1. timers'.sync = timers.sync /\ timers.tester = 0
    BY <1>0, <1>3 DEF RefreshTester, Timers
  <2>2. /\ Doc' = Doc /\ UNCHANGED <<textarea, source, restructured>>
        /\ source = "draft" => rows' = Fields(textarea)
    BY <1>3, SameTree DEF RefreshTester
  <2>3. timers.sync \in Ticks /\ ~(timers.sync # Off /\ timers.sync < 0)
    BY <1>0 DEF Ticks, Off
  <2> QED
    BY <2>1, <2>2, <2>3 DEF RowsInv
<1>4. CASE Tick
  <2>1. /\ timers'.sync = (IF timers.sync = Off THEN Off ELSE timers.sync - 1)
        /\ timers'.tester = (IF timers.tester = Off THEN Off ELSE timers.tester - 1)
    BY <1>0, <1>4 DEF Tick, Timers
  <2>2. Doc' = Doc /\ UNCHANGED <<textarea, source, rows, restructured>>
    BY <1>4, SameTree DEF Tick, testerVars
  <2>3. timers.sync \in Ticks /\ timers.tester \in Ticks
    BY <1>0
  <2>4. /\ timers'.sync = Off <=> timers.sync = Off
        /\ timers'.tester = Off <=> timers.tester = Off
        /\ timers.sync # Off /\ timers.tester # Off /\ timers.sync < timers.tester
             => timers'.sync < timers'.tester
    BY <2>1, <2>3 DEF Ticks, Off
  <2> QED
    BY <2>2, <2>4 DEF RowsInv
<1>5. ASSUME NEW r \in Rules, NEW n \in Names, EditField(r, n) PROVE RowsInv'
  <2>1. timers' = [[timers EXCEPT !.tester = TesterDelay] EXCEPT !.sync = SyncDelay, !.toc = TocDelay]
    BY <1>5 DEF EditField, NotifyChange
  <2>2. timers'.sync = SyncDelay /\ timers'.tester = TesterDelay
    BY <1>0, <2>1 DEF Timers
  <2> QED
    BY <2>2 DEF RowsInv, SyncDelay, TesterDelay, Off
<1>6. CASE \/ \E d \in leaving : RemoveRule(d)
           \/ \E l \in Rules \cup {Top}, k \in NewKinds : AddRule(l, k)
  BY <1>6 DEF RemoveRule, AddRule, RowsInv
<1>7. ASSUME NEW s \in {"draft", "saved"}, ChooseSource(s) PROVE RowsInv'
  <2>1. /\ UNCHANGED <<textarea, timers>> /\ Doc' = Doc /\ source' = s
        /\ restructured' = (restructured /\ timers.sync # Off)
        /\ s = "draft" => rows' = Fields(textarea)
    BY <1>7, SameTree DEF ChooseSource, Rows
  <2> QED
    BY <2>1 DEF RowsInv, TextareaFollows
<1>8. ASSUME NEW what \in {"save", "test"}, Send(what) PROVE RowsInv'
  <2>1. textarea' = Doc /\ Doc' = Doc /\ UNCHANGED <<timers, source, rows, restructured>>
    BY <1>8, SameTree DEF Send, testerVars
  <2> QED
    BY <2>1 DEF RowsInv
<1>9. ASSUME NEW q \in requests, RequestAnswered(q) PROVE RowsInv'
  <2>1. textarea' = Doc /\ Doc' = Doc /\ rows' = Fields(Doc)
    BY <1>9, SameTree DEF RequestAnswered
  <2> QED
    BY <2>1 DEF RowsInv
<1>10. CASE \/ \E r \in Rules : DeleteRule(r)
            \/ \E q \in Names \cup Kinds \cup {""} : SearchRules(q)
            \/ \E q \in requests : HandleSaveFlag(q) \/ HandleTestFlag(q) \/ LoseRequest(q)
            \/ UNCHANGED pageVars
  <2>1. UNCHANGED <<treeVars, textarea, timers, source, rows, restructured>>
    BY <1>10 DEF DeleteRule, SearchRules, HandleSaveFlag, HandleTestFlag, LoseRequest, pageVars,
       testerVars
  <2> QED
    BY <2>1, SameTree DEF RowsInv
<1> QED
  BY <1>1, <1>2, <1>3, <1>4, <1>5, <1>6, <1>7, <1>8, <1>9, <1>10 DEF BuilderNext

-------------------------------------------------------------------------------
(* RuleBuilder: what the builder knows of the rules, and what leaves         *)

TreeTypeOK ==
    /\ parent \in [Rules -> Rules \cup {Top, Unused, Gone}]
    /\ kind \in [Rules -> Kinds] /\ name \in [Rules -> Names \cup {""}]
    /\ index \in [Rules -> Int] /\ clicks \in [Rules -> 0..2]
    /\ \A d \in leaving :
         /\ d = [rule |-> d.rule, list |-> d.list, left |-> d.left]
         /\ d.rule \in Rules /\ d.list \in Rules \cup {Top}

(* Rules are made in the order of their numbers, inside rules there are, and *)
(* a notRule holds one at most.                                              *)
MadeInOrder == \A q, r \in Rules : q < r /\ parent[q] = Unused => parent[r] = Unused

HeldByOnes == \A r \in Rules : parent[r] \in Rules => parent[parent[r]] # Unused

NotHoldsOne == \A q, r \in Rules :
    parent[q] = parent[r] /\ parent[q] \in Rules /\ kind[parent[q]] = "not" => q = r

(* A top-level rule's index is its place, as long as none has been removed.  *)
TopRules == {r \in Rules : parent[r] = Top}

IndexIsPlace == ~shortened =>
    \A t \in TopRules : index[t] = Cardinality({r \in TopRules : r < t})

(* What leaves was clicked, is where it was or gone, and was clicked twice   *)
(* if it leaves twice; what is gone from a notRule before it has left went   *)
(* with a second click on a rule.                                            *)
LeavingClicked == \A d \in leaving :
    /\ clicks[d.rule] # 0 /\ parent[d.rule] \in {d.list, Gone}
    /\ d.list # Top => parent[d.list] # Unused

LeavingTwice == \A d, e \in leaving : d.rule = e.rule /\ d # e => clicks[d.rule] = 2

SomeClickedTwice == \E s \in Rules : parent[s] = Gone /\ clicks[s] = 2

GoneFromNot == \A d \in leaving :
    d.list # Top /\ kind[d.list] = "not" /\ parent[d.rule] = Gone => SomeClickedTwice

TreeInv ==
    /\ TreeTypeOK /\ MadeInOrder /\ HeldByOnes /\ NotHoldsOne /\ IndexIsPlace
    /\ LeavingClicked /\ LeavingTwice /\ GoneFromNot

LEMMA Places ==
  /\ Top \notin Rules /\ Unused \notin Rules /\ Gone \notin Rules /\ Rules \subseteq Nat
  /\ Top # Unused /\ Top # Gone /\ Unused # Gone
BY DEF Top, Unused, Gone, Rules

LEMMA RulesAreFinite == MaxRules \in Nat /\ IsFiniteSet(Rules)
<1>1. MaxRules \in Nat
  BY BuilderAssumption
<1>2. 1 \in Int /\ MaxRules \in Int
  BY <1>1
<1> QED
  BY <1>1, <1>2, FS_Interval DEF Rules

LEMMA TreeStart == BuilderInit => TreeInv
<1> SUFFICES ASSUME BuilderInit PROVE TreeInv
  OBVIOUS
<1>1. PICK p \in Pages :
        /\ parent = [r \in Rules |-> IF r \in DOMAIN p THEN p[r].parent ELSE Unused]
        /\ kind = [r \in Rules |-> IF r \in DOMAIN p THEN p[r].kind ELSE "leaf"]
        /\ name = [r \in Rules |-> IF r \in DOMAIN p THEN p[r].name ELSE ""]
        /\ index = [r \in Rules |->
              IF r \in DOMAIN p /\ p[r].parent = Top
              THEN Cardinality({q \in DOMAIN p : p[q].parent = Top /\ q < r}) ELSE -1]
        /\ leaving = {} /\ clicks = [r \in Rules |-> 0]
  BY DEF BuilderInit
<1>2. PICK n \in 0..MaxRules :
        /\ p \in [1..n -> [parent : 0..n, kind : Kinds, name : Names \cup {""}]]
        /\ \A q, r \in DOMAIN p :
              p[q].parent = p[r].parent /\ p[q].parent # Top /\ p[p[q].parent].kind = "not" => q = r
  BY BuilderAssumption DEF Page
<1>3. DOMAIN p = 1..n /\ 1..n \subseteq Rules /\ 0..n = 1..n \cup {Top} /\ MaxRules \in Nat /\ n \in Nat
  <2>0. MaxRules \in Nat
    BY BuilderAssumption
  <2>1. MaxRules \in Nat /\ n \in Nat /\ n <= MaxRules
    BY <2>0
  <2>2. 1..n \subseteq Rules /\ 0..n = 1..n \cup {Top}
    BY <2>1 DEF Rules, Top
  <2>3. DOMAIN p = 1..n
    BY <1>2
  <2> QED
    BY <2>1, <2>2, <2>3
<1>4. \A r \in 1..n : p[r].parent \in 1..n \cup {Top} /\ p[r].kind \in Kinds /\ p[r].name \in Names \cup {""}
  BY <1>2, <1>3
<1>5. \A r \in Rules : parent[r] = IF r \in 1..n THEN p[r].parent ELSE Unused
  BY <1>1, <1>3
<1>6. \A r \in Rules : parent[r] \in Rules \/ parent[r] = Top => r \in 1..n
  BY <1>5, Places
<1>7. TopRules \subseteq 1..n /\ TopRules = {r \in 1..n : p[r].parent = Top}
  BY <1>3, <1>5, <1>6 DEF TopRules
<1>8. TreeTypeOK
  <2>1. parent \in [Rules -> Rules \cup {Top, Unused, Gone}]
    BY <1>1, <1>3, <1>4
  <2>2. kind \in [Rules -> Kinds] /\ name \in [Rules -> Names \cup {""}] /\ clicks \in [Rules -> 0..2]
    <3>1. kind \in [Rules -> Kinds]
      BY <1>1, <1>3, <1>4 DEF Kinds
    <3>2. name \in [Rules -> Names \cup {""}]
      BY <1>1, <1>3, <1>4
    <3>3. clicks = [r \in Rules |-> 0]
      BY <1>1
    <3>4. clicks \in [Rules -> 0..2]
      BY <3>3
    <3> QED
      BY <3>1, <3>2, <3>4
  <2>3. ASSUME NEW r \in Rules PROVE Cardinality({q \in 1..n : p[q].parent = Top /\ q < r}) \in Int
    <3>1. IsFiniteSet(1..n)
      BY <1>3, FS_Interval
    <3>2. IsFiniteSet({q \in 1..n : p[q].parent = Top /\ q < r})
      BY <3>1, FS_Subset
    <3> QED
      BY <3>2, FS_CardinalityType
  <2>4. index \in [Rules -> Int]
    <3> DEFINE PlaceOf(r) == Cardinality({q \in 1..n : p[q].parent = Top /\ q < r})
    <3>1. index = [r \in Rules |-> IF r \in 1..n /\ p[r].parent = Top THEN PlaceOf(r) ELSE -1]
      BY <1>1, <1>3
    <3>2. \A r \in Rules : PlaceOf(r) \in Int
      BY <2>3
    <3> HIDE DEF PlaceOf
    <3> QED
      BY <3>1, <3>2
  <2> QED
    BY <1>1, <2>1, <2>2, <2>4 DEF TreeTypeOK
<1>9. MadeInOrder /\ HeldByOnes
  <2>1. \A r \in Rules : parent[r] = Unused <=> r \notin 1..n
    BY <1>4, <1>5, <1>3, Places
  <2>2. MadeInOrder
    <3> SUFFICES ASSUME NEW q \in Rules, NEW r \in Rules, q < r, q \notin 1..n PROVE r \notin 1..n
      BY <2>1 DEF MadeInOrder
    <3> QED
      BY <1>3 DEF Rules
  <2>3. HeldByOnes
    BY <2>1, <1>4, <1>5, <1>6, Places DEF HeldByOnes
  <2> QED
    BY <2>2, <2>3
<1>10. NotHoldsOne
  <2> SUFFICES ASSUME NEW q \in Rules, NEW r \in Rules, parent[q] = parent[r], parent[q] \in Rules,
                      kind[parent[q]] = "not"
               PROVE  q = r
    BY DEF NotHoldsOne
  <2>1. q \in 1..n /\ r \in 1..n /\ p[q].parent = parent[q] /\ p[r].parent = parent[q]
    BY <1>5, <1>6
  <2>2. p[q].parent \in 1..n
    BY <1>4, <2>1, Places
  <2>3. p[p[q].parent].kind = "not"
    BY <1>1, <1>3, <2>1, <2>2
  <2> QED
    BY <1>2, <1>3, <2>1, <2>2, <2>3, Places
<1>11. IndexIsPlace
  <2> SUFFICES ASSUME NEW t \in TopRules
               PROVE  index[t] = Cardinality({r \in TopRules : r < t})
    BY DEF IndexIsPlace
  <2>1. t \in 1..n /\ p[t].parent = Top /\ t \in Rules
    BY <1>3, <1>7
  <2>2. {q \in 1..n : p[q].parent = Top /\ q < t} = {r \in TopRules : r < t}
    BY <1>7
  <2> QED
    BY <1>1, <1>3, <2>1, <2>2
<1>12. LeavingClicked /\ LeavingTwice /\ GoneFromNot
  BY <1>1 DEF LeavingClicked, LeavingTwice, GoneFromNot
<1> QED
  BY <1>8, <1>9, <1>10, <1>11, <1>12 DEF TreeInv

(* A step of the builder that touches what TreeInv is about.                 *)
LEMMA TreeKinds ==
  ASSUME [BuilderNext]_pageVars
  PROVE  \/ UNCHANGED <<treeVars, leaving, clicks, shortened>>
         \/ Tick
         \/ \E d \in leaving : RemoveRule(d)
         \/ \E r \in Rules : DeleteRule(r)
         \/ \E r \in Rules, n \in Names : EditField(r, n)
         \/ \E l \in Rules \cup {Top}, k \in NewKinds : AddRule(l, k)
BY DEF BuilderNext, SyncTextarea, RefreshRuleTOC, RefreshTester, SearchRules, ChooseSource, Send,
       HandleSaveFlag, HandleTestFlag, LoseRequest, RequestAnswered, pageVars

(* A rule of the page is a rule there is.                                    *)
LEMMA OnPageIsUsed ==
  ASSUME TreeTypeOK, NEW r \in OnPage
  PROVE  r \in Rules /\ parent[r] \in Rules \cup {Top}
<1>1. r \in Rules /\ DOMAIN parent = Rules
  BY DEF OnPage, TreeTypeOK
<1>2. CASE parent[r] \notin Rules
  BY <1>1, <1>2, PathEnds DEF OnPage
<1> QED
  BY <1>1, <1>2

LEMMA AddKeepsTree ==
  ASSUME TreeInv, NEW l \in Rules \cup {Top}, NEW k \in NewKinds, AddRule(l, k)
  PROVE  TreeInv'
<1>1. PICK n \in Rules :
        /\ parent[n] = Unused /\ \A q \in Rules : q < n => parent[q] # Unused
        /\ parent' = [parent EXCEPT ![n] = l] /\ kind' = [kind EXCEPT ![n] = k]
        /\ index' = [index EXCEPT ![n] = IF l = Top THEN Cardinality({q \in Rules : parent[q] = Top}) ELSE -1]
  BY DEF AddRule
<1>2. UNCHANGED <<name, leaving, clicks, shortened>> /\ Free(l)
  BY DEF AddRule
<1>3. TreeTypeOK
  BY DEF TreeInv
<1>4. /\ parent'[n] = l /\ kind'[n] = k
      /\ \A q \in Rules : q # n => parent'[q] = parent[q] /\ kind'[q] = kind[q] /\ index'[q] = index[q]
  BY <1>1, <1>3 DEF TreeTypeOK
<1>5. l # Top => l \in Rules /\ parent[l] \in Rules \cup {Top} /\ l # n
  BY <1>1, <1>2, <1>3, OnPageIsUsed, Places DEF Free
<1>6. n \notin TopRules /\ TopRules' = (IF l = Top THEN TopRules \cup {n} ELSE TopRules)
  BY <1>1, <1>4, Places DEF TopRules
<1>7. index'[n] = IF l = Top THEN Cardinality(TopRules) ELSE -1
  BY <1>1, <1>3 DEF TreeTypeOK, TopRules
<1>8. Cardinality(TopRules) \in Int
  <2>1. IsFiniteSet(Rules)
    BY RulesAreFinite
  <2>2. TopRules \in SUBSET Rules
    BY DEF TopRules
  <2> QED
    BY <2>1, <2>2, FS_Subset, FS_CardinalityType
<1>9. TreeTypeOK'
  <2>1. k \in Kinds
    BY BuilderAssumption
  <2>2. index' \in [Rules -> Int]
    <3>1. index' = [index EXCEPT ![n] = IF l = Top THEN Cardinality(TopRules) ELSE -1]
      BY <1>1 DEF TopRules
    <3>2. (IF l = Top THEN Cardinality(TopRules) ELSE -1) \in Int
      BY <1>8
    <3> QED
      BY <1>3, <3>1, <3>2 DEF TreeTypeOK
  <2>3. parent' \in [Rules -> Rules \cup {Top, Unused, Gone}] /\ kind' \in [Rules -> Kinds]
    BY <1>1, <1>3, <2>1 DEF TreeTypeOK
  <2> QED
    BY <1>2, <1>3, <2>2, <2>3 DEF TreeTypeOK
<1>10. MadeInOrder'
  <2> SUFFICES ASSUME NEW q \in Rules, NEW r \in Rules, q < r, parent'[q] = Unused
               PROVE  parent'[r] = Unused
    BY DEF MadeInOrder
  <2>1. q # n /\ parent[q] = Unused
    BY <1>4, <1>5, Places
  <2>2. ~(q < n)
    BY <1>1, <2>1
  <2>3. r # n
    BY <2>1, <2>2, Places
  <2> QED
    BY <1>4, <2>1, <2>3 DEF TreeInv, MadeInOrder
<1>11. HeldByOnes'
  <2> SUFFICES ASSUME NEW r \in Rules, parent'[r] \in Rules PROVE parent'[parent'[r]] # Unused
    BY DEF HeldByOnes
  <2>1. CASE r = n
    BY <1>4, <1>5, <2>1, Places
  <2>2. CASE r # n
    BY <1>4, <1>5, <2>2, Places DEF TreeInv, HeldByOnes
  <2> QED
    BY <2>1, <2>2
<1>12. NotHoldsOne'
  <2>1. \A r \in Rules : parent[r] # n
    BY <1>1 DEF TreeInv, HeldByOnes
  <2>2. l \in Rules /\ kind[l] = "not" => \A r \in Rules : parent[r] # l
    BY <1>2, Places DEF Free
  <2> SUFFICES ASSUME NEW q \in Rules, NEW r \in Rules, q # r, parent'[q] = parent'[r],
                      parent'[q] \in Rules, kind'[parent'[q]] = "not"
               PROVE  FALSE
    BY DEF NotHoldsOne
  <2>3. CASE q # n /\ r # n
    BY <1>4, <2>1, <2>3 DEF TreeInv, NotHoldsOne
  <2>4. CASE q = n \/ r = n
    BY <1>4, <1>5, <2>2, <2>4, Places
  <2> QED
    BY <2>3, <2>4
<1>13. IndexIsPlace'
  <2> SUFFICES ASSUME ~shortened, NEW t \in TopRules'
               PROVE  index'[t] = Cardinality({r \in TopRules' : r < t})
    BY <1>2 DEF IndexIsPlace
  <2>1. \A q \in TopRules : q \in Rules /\ q < n
    <3> SUFFICES ASSUME NEW q \in TopRules PROVE q \in Rules /\ q < n
      OBVIOUS
    <3>1. q \in Rules /\ parent[q] = Top
      BY DEF TopRules
    <3>2. ~(n < q)
      BY <1>1, <3>1, Places DEF TreeInv, MadeInOrder
    <3> QED
      BY <1>1, <3>1, <3>2, Places
  <2>2. CASE t = n
    <3>1. l = Top
      BY <1>6, <2>2
    <3>2. {r \in TopRules' : r < n} = TopRules
      BY <1>6, <2>1, <3>1, Places
    <3> QED
      BY <1>7, <2>2, <3>1, <3>2
  <2>3. CASE t # n
    <3>1. t \in TopRules
      BY <1>6, <2>3
    <3>0. t < n /\ n \in Nat /\ t \in Nat
      BY <2>1, <3>1, Places
    <3>a. ~(n < t)
      BY <3>0
    <3>2. {r \in TopRules' : r < t} = {r \in TopRules : r < t}
      BY <1>6, <3>a
    <3>3. index'[t] = index[t]
      BY <1>4, <2>1, <2>3, <3>1
    <3> QED
      BY <3>1, <3>2, <3>3 DEF TreeInv, IndexIsPlace
  <2> QED
    BY <2>2, <2>3
<1>14. \A r \in Rules : parent[r] = Gone => parent'[r] = Gone
  BY <1>1, <1>4, Places
<1>15. LeavingClicked' /\ LeavingTwice'
  <2>1. \A d \in leaving : d.rule \in Rules /\ d.list \in Rules \cup {Top}
    BY <1>3 DEF TreeTypeOK
  <2>2. \A d \in leaving : d.rule # n /\ d.list # n
    BY <1>1, <2>1, Places DEF TreeInv, LeavingClicked
  <2> QED
    BY <1>2, <1>4, <2>1, <2>2 DEF TreeInv, LeavingClicked, LeavingTwice
<1>16. GoneFromNot'
  <2> SUFFICES ASSUME NEW d \in leaving, d.list # Top, kind'[d.list] = "not", parent'[d.rule] = Gone
               PROVE  SomeClickedTwice'
    BY <1>2 DEF GoneFromNot
  <2>1. d.rule \in Rules /\ d.list \in Rules
    BY <1>3 DEF TreeTypeOK
  <2>2. parent[d.rule] = Gone
    BY <1>4, <1>5, <2>1, Places
  <2>3. d.list # n
    BY <1>1 DEF TreeInv, LeavingClicked
  <2>4. SomeClickedTwice
    BY <1>4, <2>1, <2>2, <2>3 DEF TreeInv, GoneFromNot
  <2> QED
    BY <1>2, <1>14, <2>4 DEF SomeClickedTwice
<1> QED
  BY <1>9, <1>10, <1>11, <1>12, <1>13, <1>15, <1>16 DEF TreeInv

LEMMA DeleteKeepsTree ==
  ASSUME TreeInv, NEW r \in Rules, DeleteRule(r)
  PROVE  TreeInv'
<1> DEFINE e == [rule |-> r, list |-> parent[r], left |-> RemoveDelay]
<1>1. /\ r \in OnPage /\ clicks[r] < 2 /\ leaving' = leaving \cup {e}
      /\ clicks' = [clicks EXCEPT ![r] = @ + 1]
      /\ UNCHANGED <<parent, kind, name, index, shortened>>
  BY DEF DeleteRule, treeVars
<1>2. TreeTypeOK
  BY DEF TreeInv
<1>3. r \in Rules /\ parent[r] \in Rules \cup {Top}
  BY <1>1, <1>2, OnPageIsUsed
<1>4. clicks \in [Rules -> 0..2] /\ clicks[r] \in 0..1
  <2>1. clicks \in [Rules -> 0..2] /\ r \in Rules
    BY <1>2, <1>3 DEF TreeTypeOK
  <2>2. clicks[r] \in 0..2 /\ clicks[r] < 2
    BY <1>1, <2>1
  <2> QED
    BY <2>1, <2>2
<1>5. /\ clicks' \in [Rules -> 0..2] /\ clicks'[r] = clicks[r] + 1
      /\ \A q \in Rules : q # r => clicks'[q] = clicks[q]
  BY <1>1, <1>4
<1>6. e.rule = r /\ e.list = parent[r] /\ e = [rule |-> e.rule, list |-> e.list, left |-> e.left]
  OBVIOUS
<1> HIDE DEF e
<1>7. TreeTypeOK'
  BY <1>1, <1>2, <1>3, <1>5, <1>6 DEF TreeTypeOK
<1>8. MadeInOrder' /\ HeldByOnes' /\ NotHoldsOne' /\ IndexIsPlace'
  BY <1>1 DEF TreeInv, MadeInOrder, HeldByOnes, NotHoldsOne, IndexIsPlace, TopRules
<1>9. \A d \in leaving : d.rule \in Rules /\ clicks[d.rule] # 0
  BY <1>2 DEF TreeInv, TreeTypeOK, LeavingClicked
<1>10. LeavingClicked'
  <2>1. ASSUME NEW d \in leaving PROVE clicks'[d.rule] # 0
    BY <1>4, <1>5, <1>9
  <2>2. clicks'[r] # 0 /\ (parent[r] # Top => parent[parent[r]] # Unused)
    BY <1>3, <1>4, <1>5 DEF TreeInv, HeldByOnes
  <2> QED
    BY <1>1, <1>6, <2>1, <2>2 DEF TreeInv, LeavingClicked
<1>11. LeavingTwice'
  <2> SUFFICES ASSUME NEW d \in leaving', NEW f \in leaving', d.rule = f.rule, d # f
               PROVE  clicks'[d.rule] = 2
    BY DEF LeavingTwice
  <2>1. CASE d \in leaving /\ f \in leaving
    <3>1. clicks[d.rule] = 2 /\ d.rule # r
      BY <1>4, <2>1 DEF TreeInv, LeavingTwice
    <3> QED
      BY <1>5, <1>9, <2>1, <3>1
  <2>2. CASE d = e \/ f = e
    <3>1. d.rule = r /\ (d \in leaving \/ f \in leaving)
      BY <1>1, <1>6, <2>2
    <3>2. clicks[r] # 0
      BY <1>9, <3>1
    <3> QED
      BY <1>4, <1>5, <3>1, <3>2
  <2> QED
    BY <1>1, <2>1, <2>2
<1>12. GoneFromNot'
  <2>1. ASSUME NEW s \in Rules, parent[s] = Gone, clicks[s] = 2
        PROVE  parent'[s] = Gone /\ clicks'[s] = 2
    BY <1>1, <1>4, <1>5, <2>1
  <2>2. SomeClickedTwice => SomeClickedTwice'
    BY <2>1 DEF SomeClickedTwice
  <2>3. parent[r] # Gone
    BY <1>3, Places
  <2> QED
    BY <1>1, <1>6, <2>2, <2>3 DEF TreeInv, GoneFromNot
<1> QED
  BY <1>7, <1>8, <1>10, <1>11, <1>12 DEF TreeInv

(* What a removal takes: the rule itself, if it is still there, or whatever  *)
(* else the notRule holds by now.                                            *)
LEMMA RemovedIsHeld ==
  ASSUME TreeInv, NEW d \in leaving, NEW r \in Removed(d)
  PROVE  /\ r \in Rules /\ parent[r] \in {d.list, Gone}
         /\ r # d.rule => /\ d.list # Top /\ kind[d.list] = "not"
                          /\ parent[r] = d.list /\ SomeClickedTwice
<1>1. d.rule \in Rules /\ d.list \in Rules \cup {Top} /\ parent[d.rule] \in {d.list, Gone}
  BY DEF TreeInv, TreeTypeOK, LeavingClicked
<1>2. CASE d.list # Top /\ kind[d.list] = "not"
  <2>1. r \in Rules /\ parent[r] = d.list /\ d.list \in Rules
    BY <1>1, <1>2 DEF Removed
  <2>2. ASSUME r # d.rule PROVE SomeClickedTwice
    <3>1. parent[d.rule] # d.list
      BY <1>1, <1>2, <2>1, <2>2 DEF TreeInv, NotHoldsOne
    <3> QED
      BY <1>1, <1>2, <3>1 DEF TreeInv, GoneFromNot
  <2> QED
    BY <1>2, <2>1, <2>2
<1>3. CASE ~(d.list # Top /\ kind[d.list] = "not")
  BY <1>1, <1>3 DEF Removed
<1> QED
  BY <1>2, <1>3

LEMMA RemovalKeepsTree ==
  ASSUME TreeInv, NEW d \in leaving, RemoveRule(d)
  PROVE  TreeInv'
<1>1. /\ leaving' = leaving \ {d}
      /\ parent' = [q \in Rules |-> IF q \in Removed(d) THEN Gone ELSE parent[q]]
      /\ shortened' = (shortened \/ d.list = Top)
      /\ UNCHANGED <<kind, name, index, clicks>>
  BY DEF RemoveRule
<1>2. TreeTypeOK
  BY DEF TreeInv
<1>3. /\ \A q \in Rules : parent'[q] = IF q \in Removed(d) THEN Gone ELSE parent[q]
      /\ \A q \in Removed(d) : q \in Rules /\ parent[q] \in {d.list, Gone}
      /\ d.rule \in Rules /\ d.list \in Rules \cup {Top}
  BY <1>1, <1>2, RemovedIsHeld DEF TreeTypeOK
<1>4. \A q \in Rules : parent'[q] = parent[q] \/ parent'[q] = Gone
  BY <1>3
<1>5. \A q \in Rules : parent'[q] = Unused <=> parent[q] = Unused
  BY <1>3, Places DEF TreeInv, LeavingClicked
<1>6. TreeTypeOK'
  <2>1. parent' \in [Rules -> Rules \cup {Top, Unused, Gone}]
    BY <1>1, <1>2 DEF TreeTypeOK
  <2> QED
    BY <1>1, <1>2, <2>1 DEF TreeTypeOK
<1>7. MadeInOrder'
  BY <1>5 DEF TreeInv, MadeInOrder
<1>8. HeldByOnes'
  BY <1>4, <1>5, Places DEF TreeInv, HeldByOnes
<1>9. NotHoldsOne'
  BY <1>1, <1>4, Places DEF TreeInv, NotHoldsOne
<1>10. IndexIsPlace'
  <2> SUFFICES ASSUME ~shortened, d.list # Top PROVE IndexIsPlace'
    BY <1>1 DEF IndexIsPlace
  <2>1. \A q \in Rules : parent'[q] = Top <=> parent[q] = Top
    BY <1>3, Places
  <2>2. TopRules' = TopRules
    BY <2>1 DEF TopRules
  <2> QED
    BY <1>1, <2>2 DEF TreeInv, IndexIsPlace
<1>11. LeavingClicked' /\ LeavingTwice'
  <2>1. \A e \in leaving : e.rule \in Rules /\ e.list \in Rules \cup {Top}
    BY <1>2 DEF TreeTypeOK
  <2>2. LeavingTwice'
    BY <1>1 DEF TreeInv, LeavingTwice
  <2>3. LeavingClicked'
    BY <1>1, <1>4, <1>5, <2>1 DEF TreeInv, LeavingClicked
  <2> QED
    BY <2>2, <2>3
<1>12. GoneFromNot'
  <2> SUFFICES ASSUME NEW e \in leaving, e # d, e.list # Top, kind[e.list] = "not", parent'[e.rule] = Gone
               PROVE  SomeClickedTwice'
    BY <1>1 DEF GoneFromNot
  <2>0. e.rule \in Rules
    BY <1>2 DEF TreeTypeOK
  <2>1. SomeClickedTwice => SomeClickedTwice'
    BY <1>1, <1>4 DEF SomeClickedTwice
  <2>2. CASE parent[e.rule] = Gone
    BY <2>1, <2>2 DEF TreeInv, GoneFromNot
  <2>3. CASE e.rule = d.rule
    <3>1. clicks[e.rule] = 2
      BY <2>3 DEF TreeInv, LeavingTwice
    <3> QED
      BY <1>1, <2>0, <3>1 DEF SomeClickedTwice
  <2>4. CASE parent[e.rule] # Gone /\ e.rule # d.rule
    <3>1. e.rule \in Removed(d)
      BY <1>3, <2>0, <2>4
    <3> QED
      BY <2>1, <2>4, <3>1, RemovedIsHeld
  <2> QED
    BY <2>2, <2>3, <2>4
<1> QED
  BY <1>6, <1>7, <1>8, <1>9, <1>10, <1>11, <1>12 DEF TreeInv

LEMMA TreeStep ==
  ASSUME TreeInv, [BuilderNext]_pageVars
  PROVE  TreeInv'
<1>1. CASE UNCHANGED <<treeVars, leaving, clicks, shortened>>
  <2>1. UNCHANGED <<parent, kind, name, index, leaving, clicks, shortened>>
    BY <1>1 DEF treeVars
  <2>2. TreeTypeOK'
    BY <2>1 DEF TreeInv, TreeTypeOK
  <2>3. MadeInOrder' /\ HeldByOnes' /\ NotHoldsOne' /\ IndexIsPlace'
    BY <2>1 DEF TreeInv, MadeInOrder, HeldByOnes, NotHoldsOne, IndexIsPlace, TopRules
  <2>4. LeavingClicked' /\ LeavingTwice' /\ GoneFromNot'
    BY <2>1 DEF TreeInv, LeavingClicked, LeavingTwice, GoneFromNot, SomeClickedTwice
  <2> QED
    BY <2>2, <2>3, <2>4 DEF TreeInv
<1>2. CASE Tick
  <2>1. /\ UNCHANGED <<parent, kind, name, index, clicks, shortened>>
        /\ leaving' = {[d EXCEPT !.left = @ - 1] : d \in leaving}
    BY <1>2 DEF Tick, treeVars
  <2>2. \A d \in leaving :
          /\ [d EXCEPT !.left = @ - 1].rule = d.rule /\ [d EXCEPT !.left = @ - 1].list = d.list
          /\ [d EXCEPT !.left = @ - 1] = [rule |-> d.rule, list |-> d.list, left |-> d.left - 1]
    <3> SUFFICES ASSUME NEW d \in leaving
                 PROVE  /\ [d EXCEPT !.left = @ - 1].rule = d.rule
                        /\ [d EXCEPT !.left = @ - 1].list = d.list
                        /\ [d EXCEPT !.left = @ - 1] = [rule |-> d.rule, list |-> d.list, left |-> d.left - 1]
      OBVIOUS
    <3>1. d = [rule |-> d.rule, list |-> d.list, left |-> d.left]
      BY DEF TreeInv, TreeTypeOK
    <3> QED
      BY <3>1
  <2>3. \A e \in leaving' : \E d \in leaving :
          /\ e = [d EXCEPT !.left = @ - 1] /\ e.rule = d.rule /\ e.list = d.list
          /\ e = [rule |-> d.rule, list |-> d.list, left |-> d.left - 1]
    <3> SUFFICES ASSUME NEW e \in leaving'
                 PROVE  \E d \in leaving :
                           /\ e = [d EXCEPT !.left = @ - 1] /\ e.rule = d.rule /\ e.list = d.list
                           /\ e = [rule |-> d.rule, list |-> d.list, left |-> d.left - 1]
      OBVIOUS
    <3>1. PICK d \in leaving : e = [d EXCEPT !.left = @ - 1]
      BY <2>1
    <3>2. e.rule = d.rule /\ e.list = d.list /\ e = [rule |-> d.rule, list |-> d.list, left |-> d.left - 1]
      BY <2>2, <3>1
    <3> QED
      BY <3>1, <3>2
  <2>4. TreeTypeOK'
    <3>1. \A e \in leaving' : /\ e = [rule |-> e.rule, list |-> e.list, left |-> e.left]
                               /\ e.rule \in Rules /\ e.list \in Rules \cup {Top}
      BY <2>3 DEF TreeInv, TreeTypeOK
    <3> QED
      BY <2>1, <3>1 DEF TreeInv, TreeTypeOK
  <2>5. LeavingTwice'
    <3> SUFFICES ASSUME NEW e \in leaving', NEW f \in leaving', e.rule = f.rule, e # f
                 PROVE  clicks[e.rule] = 2
      BY <2>1 DEF LeavingTwice
    <3>1. PICK d \in leaving : e = [d EXCEPT !.left = @ - 1] /\ e.rule = d.rule
      BY <2>3
    <3>2. PICK c \in leaving : f = [c EXCEPT !.left = @ - 1] /\ f.rule = c.rule
      BY <2>3
    <3> QED
      BY <3>1, <3>2 DEF TreeInv, LeavingTwice
  <2>6. LeavingClicked' /\ GoneFromNot'
    BY <2>1, <2>3 DEF TreeInv, LeavingClicked, GoneFromNot, SomeClickedTwice
  <2> QED
    BY <2>1, <2>4, <2>5, <2>6
    DEF TreeInv, MadeInOrder, HeldByOnes, NotHoldsOne, IndexIsPlace, TopRules
<1>3. ASSUME NEW r \in Rules, NEW n \in Names, EditField(r, n) PROVE TreeInv'
  <2>1. /\ UNCHANGED <<parent, kind, index, leaving, clicks, shortened>>
        /\ name' = [name EXCEPT ![r] = n]
    BY <1>3 DEF EditField
  <2>2. TreeTypeOK'
    BY <2>1 DEF TreeInv, TreeTypeOK
  <2> QED
    BY <2>1, <2>2 DEF TreeInv, MadeInOrder, HeldByOnes, NotHoldsOne, IndexIsPlace,
       TopRules, LeavingClicked, LeavingTwice, GoneFromNot, SomeClickedTwice
<1> QED
  BY <1>1, <1>2, <1>3, TreeKinds, AddKeepsTree, DeleteKeepsTree, RemovalKeepsTree

-------------------------------------------------------------------------------
(* RuleBuilder: the links of the tester's rows, and the removals             *)

LEMMA RowsAreLinked ==
  ASSUME TreeInv, ~shortened, NEW row \in Fields(Doc)
  PROVE  \E r \in OnPage : index[r] = row[2] /\ row[1] \in NamesBelow(r)
<1> DEFINE up == [q \in DOMAIN Doc |-> Doc[q].parent]
           tops == {q \in DOMAIN Doc : up[q] = Top}
           named == {q \in DOMAIN Doc : Doc[q].name # ""}
           RowsOf(q) == {<<Doc[q].name, Cardinality({r \in tops : r < t})>> :
                         t \in tops \cap Path(up, q)}
<1>1. /\ DOMAIN Doc = OnPage /\ up = [q \in OnPage |-> parent[q]]
      /\ \A q \in OnPage : Doc[q].name = name[q] /\ up[q] = parent[q]
  BY DEF Doc
<1>2. OnPage \subseteq Rules /\ TreeTypeOK /\ DOMAIN parent = Rules
  BY DEF OnPage, TreeInv, TreeTypeOK
<1>3. tops = TopRules
  <2>1. ASSUME NEW q \in TopRules PROVE q \in OnPage
    <3>1. q \in Rules /\ parent[q] = Top
      BY <2>1 DEF TopRules
    <3> QED
      BY <1>2, <3>1, PathIsLeast DEF OnPage
  <2> QED
    BY <1>1, <1>2, <2>1 DEF TopRules
<1> HIDE DEF named
<1>4. PICK q \in named : row \in RowsOf(q)
  <2>1. Fields(Doc) = UNION {RowsOf(q) : q \in named}
    BY DEF Fields, named
  <2> HIDE DEF RowsOf
  <2> QED
    BY <2>1
<1> HIDE DEF up, tops
<1>5. PICK t \in TopRules :
        /\ t \in Path(up, q)
        /\ row = <<Doc[q].name, Cardinality({r \in TopRules : r < t})>>
  BY <1>3, <1>4
<1>6. q \in OnPage /\ name[q] # "" /\ Doc[q].name = name[q]
  BY <1>1, <1>4, Zenon DEF named
<1>7. t \in OnPage /\ t \in Path(parent, q)
  <2>1. Path(up, q) \subseteq Path(parent, q)
    BY <1>1, <1>2, <1>6, PathInDoc DEF TreeTypeOK
  <2>2. t \in OnPage
    BY <1>1, <1>3, <1>5 DEF tops
  <2> QED
    BY <1>5, <2>1, <2>2
<1>8. row[1] \in NamesBelow(t)
  BY <1>5, <1>7, <1>6 DEF NamesBelow
<1>9. index[t] = row[2]
  BY <1>5 DEF TreeInv, IndexIsPlace
<1> QED
  BY <1>7, <1>8, <1>9

LEMMA TesterIsLinked ==
  ASSUME TimersOK, TextareaFollows, RowsInv, TreeInv
  PROVE  TesterFollows
<1> SUFFICES ASSUME source = "draft", timers.sync = Off, timers.tester = Off, ~restructured
             PROVE  /\ rows = Fields(Doc)
                    /\ shortened \/ \A row \in rows : \E r \in OnPage :
                          index[r] = row[2] /\ row[1] \in NamesBelow(r)
  BY DEF TesterFollows
<1>1. rows = Fields(Doc)
  BY DEF RowsInv
<1> QED
  BY <1>1, RowsAreLinked

(* Once the textarea and the tester have caught up with the last edit of a   *)
(* field, the tester asks for the keys of the page, each linked to a rule    *)
(* that uses it, whatever else goes on meanwhile; unless rules came or went, *)
(* or a top-level rule was removed (editor.js:795, 802, 880, 2404, 2426).    *)
THEOREM TesterCatchesUp == BuilderSpec => []TesterFollows
<1>1. BuilderInv => TimersOK /\ TextareaFollows
  BY DEF BuilderInv
<1> QED
  BY <1>1, BuilderStart, BuilderStep, RowsStart, RowsStep, TreeStart, TreeStep, TesterIsLinked, PTL
     DEF BuilderSpec

LEMMA NothingElseLeaves ==
  ASSUME TreeInv, [BuilderNext]_pageVars, NEW r \in OnPage, r \notin OnPage'
  PROVE  \E a \in Path(parent, r) :
            \/ clicks[a] > 0
            \/ parent[a] # Top /\ kind[parent[a]] = "not" /\
                 \E s \in Rules : parent[s] = Gone /\ clicks[s] = 2
<1>0. TreeTypeOK /\ DOMAIN parent = Rules /\ r \in Rules
  BY DEF TreeInv, TreeTypeOK, OnPage
<1>1. PICK t \in Path(parent, r) : parent[t] = Top
  BY DEF OnPage
<1>2. t \in Rules /\ Path(parent, r) \subseteq Rules
  BY <1>0, <1>1, PathIsLeast DEF Upward
<1>3. ASSUME parent' \in [Rules -> Rules \cup {Top, Unused, Gone}],
             \A s \in Path(parent, r) : parent[s] \in Rules \cup {Top} => parent'[s] = parent[s]
      PROVE  FALSE
  <2>1. DOMAIN parent' = Rules
    BY <1>3
  <2>2. Path(parent, r) \subseteq Path(parent', r)
    BY <1>0, <1>3, <2>1, PathStays
  <2>3. parent'[t] = Top
    BY <1>1, <1>3
  <2>4. r \in OnPage'
    BY <1>0, <1>1, <2>2, <2>3 DEF OnPage
  <2> QED
    BY <2>4
<1>4. CASE UNCHANGED parent
  BY <1>0, <1>3, <1>4 DEF TreeTypeOK
<1>5. ASSUME NEW l \in Rules \cup {Top}, NEW k \in NewKinds, AddRule(l, k) PROVE FALSE
  <2>1. PICK n \in Rules : parent[n] = Unused /\ parent' = [parent EXCEPT ![n] = l]
    BY <1>5 DEF AddRule
  <2>2. parent' \in [Rules -> Rules \cup {Top, Unused, Gone}]
    BY <1>0, <2>1 DEF TreeTypeOK
  <2>3. \A s \in Rules : s # n => parent'[s] = parent[s]
    BY <1>0, <2>1
  <2>4. \A s \in Rules : parent[s] \in Rules \cup {Top} => s # n
    BY <2>1, Places
  <2> QED
    BY <1>2, <1>3, <2>2, <2>3, <2>4
<1>6. ASSUME NEW d \in leaving, RemoveRule(d)
      PROVE  \E a \in Path(parent, r) : a \in Removed(d) /\ parent[a] \in Rules \cup {Top}
  <2>1. parent' = [q \in Rules |-> IF q \in Removed(d) THEN Gone ELSE parent[q]]
    BY <1>6 DEF RemoveRule
  <2>2. parent' \in [Rules -> Rules \cup {Top, Unused, Gone}]
    BY <1>0, <2>1 DEF TreeTypeOK
  <2>3. \A q \in Rules : q \notin Removed(d) => parent'[q] = parent[q]
    BY <2>1
  <2> QED
    BY <1>2, <1>3, <2>2, <2>3
<1>7. ASSUME NEW d \in leaving, RemoveRule(d)
      PROVE  \E a \in Path(parent, r) :
                \/ clicks[a] > 0
                \/ parent[a] # Top /\ kind[parent[a]] = "not" /\ SomeClickedTwice
  <2>1. PICK a \in Path(parent, r) : a \in Removed(d) /\ parent[a] \in Rules \cup {Top}
    BY <1>6, <1>7
  <2>2. CASE a = d.rule
    <3>1. clicks[a] # 0 /\ clicks[a] \in 0..2
      BY <1>0, <1>2, <2>2 DEF TreeInv, TreeTypeOK, LeavingClicked
    <3> QED
      BY <3>1
  <2>3. CASE a # d.rule
    BY <2>1, <2>3, RemovedIsHeld
  <2> QED
    BY <2>2, <2>3
<1> QED
  <2>1. CASE Tick \/ UNCHANGED <<treeVars, leaving, clicks, shortened>> \/ (\E q \in Rules : DeleteRule(q))
             \/ (\E q \in Rules, n \in Names : EditField(q, n))
    <3>1. UNCHANGED parent
      BY <2>1 DEF Tick, DeleteRule, EditField, treeVars
    <3> QED
      BY <1>4, <3>1
  <2> QED
    BY <1>5, <1>7, <2>1, TreeKinds DEF SomeClickedTwice

(* A rule leaves the page only with a click on its button, or on that of a   *)
(* rule above it, or with the second click on another rule of its notRule;   *)
(* however many are leaving, and whatever is added while they do             *)
(* (editor.js:2404, 2520, 2649).                                             *)
THEOREM OnlyTheClickedLeave == BuilderSpec => RemovesTheClicked
<1>1. TreeInv /\ [BuilderNext]_pageVars => [\A r \in OnPage \ OnPage' :
        \E a \in Path(parent, r) :
           \/ clicks[a] > 0
           \/ parent[a] # Top /\ kind[parent[a]] = "not" /\
                \E s \in Rules : parent[s] = Gone /\ clicks[s] = 2]_parent
  BY NothingElseLeaves
<1> QED
  BY <1>1, TreeStart, TreeStep, PTL DEF BuilderSpec, RemovesTheClicked

-------------------------------------------------------------------------------
(* EditorWidgets: the confirm button                                         *)

ConfirmInv ==
    /\ armed \subseteq Buttons /\ since \in [Buttons -> Nat]
    /\ pending \in [Buttons -> SUBSET Int]
    /\ \A b \in armed : since[b] <= Hold
    /\ ArmedForThreeSeconds

LEMMA ConfirmStarts == ConfirmInit => ConfirmInv
BY DEF ConfirmInit, ConfirmInv, ArmedForThreeSeconds

LEMMA DisarmKeeps ==
  ASSUME ConfirmInv, NEW b, Disarm(b), UNCHANGED since
  PROVE  ConfirmInv'
BY DEF ConfirmInv, Disarm, ArmedForThreeSeconds

LEMMA SecondKeeps ==
  ASSUME ConfirmInv, Second
  PROVE  ConfirmInv'
<1>1. armed' = armed /\ since' \in [Buttons -> Nat] /\ pending' \in [Buttons -> SUBSET Int]
  BY DEF Second, ConfirmInv
<1>2. ASSUME NEW b \in Buttons, b \notin armed PROVE pending'[b] = {}
  BY <1>2 DEF Second, ConfirmInv, ArmedForThreeSeconds
<1>3. ASSUME NEW b \in armed
      PROVE  since'[b] <= Hold /\ pending'[b] = {Hold - since'[b]}
  <2>1. pending[b] = {Hold - since[b]} /\ since[b] \in Nat /\ since[b] <= Hold /\ 0 \notin pending[b]
    BY <1>3 DEF Second, ConfirmInv, ArmedForThreeSeconds
  <2>2. since'[b] = since[b] + 1 /\ pending'[b] = {Hold - since[b] - 1}
    BY <1>3, <2>1 DEF Second, ConfirmInv
  <2> QED
    BY <2>1, <2>2 DEF Hold
<1> QED
  BY <1>1, <1>2, <1>3 DEF ConfirmInv, ArmedForThreeSeconds

LEMMA ConfirmStep == ConfirmInv /\ [ConfirmNext]_confirmVars => ConfirmInv'
<1> SUFFICES ASSUME ConfirmInv, [ConfirmNext]_confirmVars PROVE ConfirmInv'
  OBVIOUS
<1>1. ASSUME NEW b \in Buttons, Arm(b) PROVE ConfirmInv'
  <2>1. b \notin armed /\ pending[b] = {}
    BY <1>1 DEF Arm, ConfirmInv, ArmedForThreeSeconds
  <2>2. /\ armed' = armed \cup {b} /\ since'[b] = 0 /\ pending'[b] = {3}
        /\ \A c \in Buttons : c # b => since'[c] = since[c] /\ pending'[c] = pending[c]
    BY <1>1, <2>1 DEF Arm, ConfirmInv, Hold
  <2>3. since' \in [Buttons -> Nat] /\ pending' \in [Buttons -> SUBSET Int]
    BY <1>1 DEF Arm, ConfirmInv, Hold
  <2> QED
    BY <2>2, <2>3 DEF ConfirmInv, ArmedForThreeSeconds, Hold
<1>2. ASSUME NEW b \in Buttons, Confirm(b) \/ TimeOut(b) PROVE ConfirmInv'
  BY <1>2, DisarmKeeps DEF Confirm, TimeOut
<1>3. ASSUME NEW to, MoveFocus(to) PROVE ConfirmInv'
  <2>1. CASE focused \in armed
    BY <1>3, <2>1, DisarmKeeps DEF MoveFocus
  <2>2. CASE focused \notin armed
    BY <1>3, <2>2 DEF MoveFocus, ConfirmInv, ArmedForThreeSeconds
  <2> QED
    BY <2>1, <2>2
<1>4. CASE UNCHANGED confirmVars
  BY <1>4 DEF confirmVars, ConfirmInv, ArmedForThreeSeconds
<1> QED
  BY <1>1, <1>2, <1>3, <1>4, SecondKeeps DEF ConfirmNext

(* A click deletes only within three seconds of the one that armed its       *)
(* button, for any number of buttons that are armed, left and armed again    *)
(* (editor.js:141, 144, 161).                                                *)
THEOREM ConfirmIsInTime == ConfirmSpec => []ArmedForThreeSeconds
<1>1. ConfirmInv => ArmedForThreeSeconds
  BY DEF ConfirmInv
<1> QED
  BY <1>1, ConfirmStarts, ConfirmStep, PTL DEF ConfirmSpec

(* A deletion that is confirmed now.                                         *)
DeletesInTime == \A b \in Buttons : Confirm(b) => since[b] <= Hold

(* A second click that deletes comes three seconds after the first at the    *)
(* latest, whichever timers have been started and cleared since              *)
(* (editor.js:141-161).                                                      *)
THEOREM NoLateDeletion == ConfirmSpec => [][DeletesInTime]_confirmVars
<1>1. ConfirmInv => DeletesInTime
  BY DEF ConfirmInv, DeletesInTime, Confirm
<1> QED
  BY <1>1, ConfirmStarts, ConfirmStep, PTL DEF ConfirmSpec

-------------------------------------------------------------------------------
(* EditorWidgets: the combobox                                               *)

ComboInv ==
    /\ typed \in Texts /\ offered \subseteq 1..Options
    /\ activeIndex \in Nat /\ expanded \in BOOLEAN
    /\ EnterTakesTheHighlighted

LEMMA OptionsAreFinite ==
  ASSUME NEW S \in SUBSET (1..Options)
  PROVE  IsFiniteSet(S) /\ Cardinality(S) \in Nat
<1>1. IsFiniteSet(1..Options)
  BY FS_Interval, WidgetAssumption
<1> QED
  BY <1>1, FS_Subset, FS_CardinalityType

LEMMA TurnsAround ==
  ASSUME NEW n \in Nat, n # 0, NEW a \in Int
  PROVE  (a % n) + 1 \in 1..n
OBVIOUS

LEMMA FilterKeeps ==
  ASSUME NEW t \in Texts, typed' = t, ApplyFilter(t), expanded' \in BOOLEAN
  PROVE  ComboInv'
BY WidgetAssumption DEF ApplyFilter, ComboInv, EnterTakesTheHighlighted

LEMMA CloseKeeps ==
  ASSUME ComboInv, CloseMenu
  PROVE  ComboInv'
BY DEF CloseMenu, ComboInv, EnterTakesTheHighlighted

LEMMA MoveKeeps ==
  ASSUME ComboInv, NEW d \in {1, -1}, MoveActive(d)
  PROVE  ComboInv'
<1> DEFINE from == IF expanded THEN activeIndex ELSE 0
           shown == IF expanded THEN offered ELSE typed.matches
           n == Cardinality(shown)
           to == ((from - 1 + d + n) % n) + 1
<1>1. /\ expanded' = TRUE /\ offered' = shown /\ UNCHANGED <<typed, chosen>>
      /\ activeIndex' = IF n = 0 THEN from ELSE to
      /\ highlighted' = IF n = 0 THEN {} ELSE {Nth(shown, to)}
  BY DEF MoveActive
<1>2. shown \subseteq 1..Options /\ shown = typed.matches
  BY WidgetAssumption DEF ComboInv, EnterTakesTheHighlighted
<1>3. n \in Nat
  BY <1>2, OptionsAreFinite
<1>4. from \in Nat
  BY DEF ComboInv
<1>5. n # 0 => to \in 1..n
  <2>1. from - 1 + d + n \in Int
    BY <1>3, <1>4
  <2> QED
    BY <1>3, <2>1, TurnsAround
<1>6. n = 0 => from = 0
  BY <1>3, <1>4 DEF ComboInv, EnterTakesTheHighlighted
<1> HIDE DEF from, shown, n, to
<1>7. activeIndex' \in Nat /\ (activeIndex' # 0 => n # 0 /\ activeIndex' <= n /\ activeIndex' = to)
  BY <1>1, <1>3, <1>5, <1>6
<1>8. activeIndex' = 0 => highlighted' = {}
  BY <1>1, <1>5, <1>6
<1>9. Cardinality(offered') = n
  BY <1>1 DEF n
<1>10. chosen' = {typed'.value} \ {NoOption}
  BY <1>1 DEF ComboInv, EnterTakesTheHighlighted
<1> QED
  BY <1>1, <1>2, <1>7, <1>8, <1>9, <1>10 DEF ComboInv, EnterTakesTheHighlighted

LEMMA ComboStep == ComboInv /\ [ComboNext]_comboVars => ComboInv'
<1> SUFFICES ASSUME ComboInv, [ComboNext]_comboVars PROVE ComboInv'
  OBVIOUS
<1>0. typed \in Texts
  BY DEF ComboInv
<1>1. CASE OpenMenu
  BY <1>0, <1>1, FilterKeeps DEF OpenMenu
<1>2. ASSUME NEW i, ChooseOption(i) PROVE ComboInv'
  BY <1>2, FilterKeeps DEF ChooseOption
<1>3. ASSUME NEW t \in Texts, TypeText(t) PROVE ComboInv'
  BY <1>3, FilterKeeps DEF TypeText
<1>4. CASE TabAway \/ UNCHANGED comboVars
  <2>1. UNCHANGED <<typed, offered, activeIndex, expanded, highlighted, chosen>>
    BY <1>4 DEF TabAway, comboVars
  <2> QED
    BY <2>1 DEF ComboInv, EnterTakesTheHighlighted
<1>5. CASE CloseMenu
  BY <1>5, CloseKeeps
<1>6. CASE PressEnter
  BY <1>2, <1>5, <1>6 DEF PressEnter
<1>7. CASE FocusInput \/ ToggleMenu \/ PressEscape \/ ClickElsewhere
  BY <1>1, <1>5, <1>7 DEF FocusInput, ToggleMenu, PressEscape, ClickElsewhere
<1>8. CASE \E d \in {1, -1} : MoveActive(d)
  BY <1>8, MoveKeeps
<1>9. CASE \E i \in 1..Options : ClickOption(i)
  BY <1>2, <1>9 DEF ClickOption
<1>10. CASE \E t \in Texts : TypeText(t)
  BY <1>3, <1>10
<1> QED
  BY <1>4, <1>6, <1>7, <1>8, <1>9, <1>10 DEF ComboNext

(* What is highlighted is what Enter takes, whatever is typed, moved, opened *)
(* and closed, for any categories (editor.js:435, 482, 520).                 *)
THEOREM EnterIsWhatIsSeen == ComboSpec => []EnterTakesTheHighlighted
<1>1. ComboInit => ComboInv
  <2> SUFFICES ASSUME ComboInit PROVE ComboInv
    OBVIOUS
  <2>1. /\ typed \in Texts /\ expanded = FALSE /\ offered = 1..Options
        /\ activeIndex = 0 /\ highlighted = {} /\ chosen = {typed.value} \ {NoOption}
    BY DEF ComboInit
  <2> QED
    BY <2>1 DEF ComboInv, EnterTakesTheHighlighted
<1>2. ComboInv => EnterTakesTheHighlighted
  BY DEF ComboInv
<1> QED
  BY <1>1, <1>2, ComboStep, PTL DEF ComboSpec

-------------------------------------------------------------------------------
(* ModelPicker: the order of the list                                        *)

SortModes == {"default", "cost-asc", "cost-desc"}

Priced(m) == m.price \in Nat \cup {Unpriced}

LEMMA BeforeIsWeak ==
  ASSUME NEW mode \in SortModes, NEW m, NEW n, NEW o, Priced(m), Priced(n), Priced(o)
  PROVE  /\ ~(Before(mode, m, n) /\ Before(mode, n, m))
         /\ Before(mode, m, o) => Before(mode, m, n) \/ Before(mode, n, o)
<1>1. CASE mode = "default"
  BY <1>1 DEF Before
<1>2. CASE mode = "cost-asc"
  <2>1. \A p, q : Before(mode, p, q) <=> Cheaper(p, q)
    BY <1>2 DEF Before
  <2> QED
    BY <2>1 DEF Cheaper, Priced, Unpriced
<1>3. CASE mode = "cost-desc"
  <2>1. \A p, q : Before(mode, p, q) <=> Dearer(p, q)
    BY <1>3 DEF Before
  <2> QED
    BY <2>1 DEF Dearer, Priced, Unpriced
<1> QED
  BY <1>1, <1>2, <1>3 DEF SortModes

LEMMA CatalogIsPriced ==
  /\ Len(Catalog) \in Nat /\ DOMAIN Catalog = 1..Len(Catalog)
  /\ \A p \in 1..Len(Catalog) : Priced(Catalog[p])
<1>1. Catalog \in Seq(Models)
  BY PickerAssumption
<1>2. /\ Len(Catalog) \in Nat /\ DOMAIN Catalog = 1..Len(Catalog)
      /\ \A p \in 1..Len(Catalog) : Catalog[p] \in Models
  BY <1>1
<1> QED
  BY <1>2 DEF Models, Priced

(* The order of the places is a total one, for every sort mode.              *)
LEMMA PrecedesIsTotal ==
  ASSUME sort \in SortModes, NEW a \in 1..Len(Catalog), NEW b \in 1..Len(Catalog)
  PROVE  /\ ~Precedes(Catalog, a, a)
         /\ a = b \/ Precedes(Catalog, a, b) \/ Precedes(Catalog, b, a)
         /\ Precedes(Catalog, a, b) => /\ ~Precedes(Catalog, b, a)
                                       /\ ~Before(sort, Catalog[b], Catalog[a])
<1>1. Priced(Catalog[a]) /\ Priced(Catalog[b]) /\ a \in Nat /\ b \in Nat
  BY CatalogIsPriced
<1>2. /\ ~(Before(sort, Catalog[a], Catalog[b]) /\ Before(sort, Catalog[b], Catalog[a]))
      /\ ~Before(sort, Catalog[a], Catalog[a])
  BY <1>1, BeforeIsWeak
<1> QED
  BY <1>1, <1>2 DEF Precedes

LEMMA PrecedesIsTransitive ==
  ASSUME sort \in SortModes, NEW a \in 1..Len(Catalog), NEW b \in 1..Len(Catalog),
         NEW c \in 1..Len(Catalog), Precedes(Catalog, a, b), Precedes(Catalog, b, c)
  PROVE  Precedes(Catalog, a, c)
<1> DEFINE before(p, q) == Before(sort, Catalog[p], Catalog[q])
<1>1. /\ Priced(Catalog[a]) /\ Priced(Catalog[b]) /\ Priced(Catalog[c])
      /\ a \in Nat /\ b \in Nat /\ c \in Nat
  BY CatalogIsPriced
<1>2. /\ before(a, b) => before(a, c) \/ before(c, b)
      /\ before(b, c) => before(b, a) \/ before(a, c)
      /\ before(c, a) => before(c, b) \/ before(b, a)
      /\ ~(before(a, b) /\ before(b, a)) /\ ~(before(b, c) /\ before(c, b))
      /\ ~(before(a, c) /\ before(c, a))
  BY <1>1, BeforeIsWeak
<1>3. /\ before(a, b) \/ (~before(b, a) /\ a < b)
      /\ before(b, c) \/ (~before(c, b) /\ b < c)
  BY Zenon DEF Precedes
<1>4. before(a, c) \/ (~before(c, a) /\ a < c)
  <2>1. a < b /\ b < c => a < c
    BY <1>1
  <2> HIDE DEF before
  <2> QED
    BY <1>2, <1>3, <2>1, Zenon
<1> QED
  BY <1>4 DEF Precedes

(* The rank of a place is the number of those before it: it grows with the   *)
(* order, and each rank below the number of places is that of one.           *)
LEMMA RankIsPlace ==
  ASSUME sort \in SortModes, NEW places \in SUBSET (1..Len(Catalog))
  PROVE  /\ IsFiniteSet(places) /\ Cardinality(places) \in Nat
         /\ \A p \in places : Rank(Catalog, places, p) \in 0..(Cardinality(places) - 1)
         /\ \A p, q \in places :
              Precedes(Catalog, p, q) <=> Rank(Catalog, places, p) < Rank(Catalog, places, q)
         /\ \A k \in 1..Cardinality(places) :
              \E p \in places : Rank(Catalog, places, p) = k - 1
<1> DEFINE below(p) == {a \in places : Precedes(Catalog, a, p)}
           rank == [p \in places |-> Rank(Catalog, places, p)]
           n == Cardinality(places)
<1>1. IsFiniteSet(places) /\ n \in Nat
  <2>1. IsFiniteSet(1..Len(Catalog))
    BY CatalogIsPriced, FS_Interval
  <2> QED
    BY <2>1, FS_Subset, FS_CardinalityType
<1>2. ASSUME NEW p \in places
      PROVE  /\ IsFiniteSet(below(p)) /\ Cardinality(below(p)) \in Nat
             /\ Rank(Catalog, places, p) = Cardinality(below(p))
  BY <1>1, FS_Subset, FS_CardinalityType DEF Rank
<1>3. ASSUME NEW p \in places PROVE Rank(Catalog, places, p) \in 0..(n - 1)
  <2>1. below(p) \subseteq places \ {p}
    BY PrecedesIsTotal
  <2>2. IsFiniteSet(places \ {p}) /\ Cardinality(places \ {p}) = n - 1
    BY <1>1, FS_RemoveElement
  <2>3. Cardinality(below(p)) <= n - 1
    BY <2>1, <2>2, FS_Subset
  <2>4. Cardinality(below(p)) \in Nat /\ Rank(Catalog, places, p) = Cardinality(below(p))
    BY <1>2
  <2> HIDE DEF below
  <2> QED
    BY <1>1, <2>3, <2>4
<1>4. ASSUME NEW p \in places, NEW q \in places, Precedes(Catalog, p, q)
      PROVE  Rank(Catalog, places, p) < Rank(Catalog, places, q)
  <2>1. below(p) \subseteq below(q) \ {p} /\ p \in below(q)
    BY <1>4, PrecedesIsTotal, PrecedesIsTransitive
  <2>2. /\ IsFiniteSet(below(q) \ {p})
        /\ Cardinality(below(q) \ {p}) = Cardinality(below(q)) - 1
    BY <1>2, <2>1, FS_RemoveElement
  <2>3. Cardinality(below(p)) <= Cardinality(below(q)) - 1
    BY <2>1, <2>2, FS_Subset
  <2>4. /\ Cardinality(below(p)) \in Nat /\ Rank(Catalog, places, p) = Cardinality(below(p))
        /\ Cardinality(below(q)) \in Nat /\ Rank(Catalog, places, q) = Cardinality(below(q))
    BY <1>2
  <2> HIDE DEF below
  <2> QED
    BY <2>3, <2>4
<1>5. ASSUME NEW p \in places, NEW q \in places
      PROVE  Precedes(Catalog, p, q) <=> Rank(Catalog, places, p) < Rank(Catalog, places, q)
  <2>1. Rank(Catalog, places, p) \in Nat /\ Rank(Catalog, places, q) \in Nat
    BY <1>2
  <2>2. p = q \/ Precedes(Catalog, p, q) \/ Precedes(Catalog, q, p)
    BY PrecedesIsTotal
  <2> QED
    BY <1>4, <2>1, <2>2
<1>6. ASSUME NEW k \in 1..n PROVE \E p \in places : Rank(Catalog, places, p) = k - 1
  <2>1. rank \in Injection(places, 0..(n - 1))
    <3>1. rank \in [places -> 0..(n - 1)]
      BY <1>3
    <3>2. ASSUME NEW p \in places, NEW q \in places, rank[p] = rank[q] PROVE p = q
      <4>1. Rank(Catalog, places, p) = Rank(Catalog, places, q) /\ rank[p] \in Nat
        BY <1>2, <3>2
      <4>2. ~Precedes(Catalog, p, q) /\ ~Precedes(Catalog, q, p)
        BY <1>5, <4>1
      <4> QED
        BY <4>2, PrecedesIsTotal
    <3> QED
      BY <3>1, <3>2 DEF Injection, IsInjective
  <2>2. IsFiniteSet(0..(n - 1)) /\ Cardinality(0..(n - 1)) = n
    <3> HIDE DEF n
    <3>1. n \in Nat /\ n - 1 \in Int
      BY <1>1
    <3>2. /\ IsFiniteSet(0..(n - 1))
          /\ Cardinality(0..(n - 1)) = IF 0 > n - 1 THEN 0 ELSE (n - 1) - 0 + 1
      BY <3>1, FS_Interval
    <3> QED
      BY <3>1, <3>2
  <2>3. rank \in Surjection(places, 0..(n - 1))
    BY <2>1, <2>2, FS_Injection
  <2>4. k - 1 \in 0..(n - 1)
    BY <1>1
  <2> QED
    BY <2>3, <2>4 DEF Surjection
<1> QED
  BY <1>1, <1>3, <1>5, <1>6

-------------------------------------------------------------------------------
(* ModelPicker: what the list shows                                          *)

PlaceOf(k) == CHOOSE p \in Passing(Catalog) : Rank(Catalog, Passing(Catalog), p) = k - 1

LEMMA SortedByRank ==
  ASSUME sort \in SortModes
  PROVE  /\ Passing(Catalog) \subseteq 1..Len(Catalog)
         /\ Cardinality(Passing(Catalog)) \in Nat
         /\ \A k \in 1..Cardinality(Passing(Catalog)) :
              /\ PlaceOf(k) \in Passing(Catalog)
              /\ Rank(Catalog, Passing(Catalog), PlaceOf(k)) = k - 1
         /\ Sorted(Catalog, Passing(Catalog)) =
              [k \in 1..Cardinality(Passing(Catalog)) |-> Catalog[PlaceOf(k)]]
<1>1. Passing(Catalog) \subseteq 1..Len(Catalog)
  BY DEF Passing
<1> QED
  BY <1>1, RankIsPlace DEF PlaceOf, Sorted

Fits == IF Cardinality(Passing(Catalog)) > Limit THEN Limit ELSE Cardinality(Passing(Catalog))

LEMMA ShowsTheFirst ==
  ASSUME sort \in SortModes
  PROVE  /\ Fits \in Nat /\ Fits <= Cardinality(Passing(Catalog))
         /\ Fits <= Limit
         /\ FilterModels(Catalog) = [k \in 1..Fits |-> Catalog[PlaceOf(k)]]
         /\ Len(FilterModels(Catalog)) = Fits
<1> DEFINE n == Cardinality(Passing(Catalog))
           sorted == Sorted(Catalog, Passing(Catalog))
<1>1. n \in Nat /\ Limit \in Nat \ {0}
  BY SortedByRank, PickerAssumption
<1>2. Fits \in Nat /\ Fits <= n /\ Fits <= Limit
  BY <1>1 DEF Fits
<1>3. sorted = [k \in 1..n |-> Catalog[PlaceOf(k)]]
  BY SortedByRank
<1> HIDE DEF n, sorted
<1>4. Len(sorted) = n
  BY <1>1, <1>3
<1>5. Truncated(sorted) = [k \in 1..Fits |-> Catalog[PlaceOf(k)]]
  <2>1. CASE n > Limit
    <3>1. Truncated(sorted) = [k \in 1..Limit |-> sorted[k]]
      BY <1>4, <2>1 DEF Truncated
    <3>2. \A k \in 1..Limit : sorted[k] = Catalog[PlaceOf(k)]
      BY <1>1, <1>3, <2>1
    <3>3. Fits = Limit
      BY <2>1 DEF Fits, n
    <3> QED
      BY <3>1, <3>2, <3>3
  <2>2. CASE ~(n > Limit)
    <3>1. Truncated(sorted) = sorted
      BY <1>4, <2>2 DEF Truncated
    <3>2. Fits = n
      BY <2>2 DEF Fits, n
    <3> QED
      BY <1>3, <3>1, <3>2
  <2> QED
    BY <2>1, <2>2
<1>6. FilterModels(Catalog) = [k \in 1..Fits |-> Catalog[PlaceOf(k)]]
  BY <1>5 DEF FilterModels, sorted
<1> QED
  BY <1>2, <1>6 DEF n

LEMMA AsManyAsMatch ==
  IsFiniteSet(Matching) /\ Cardinality(Matching) = Cardinality(Passing(Catalog))
<1> DEFINE at == [p \in Passing(Catalog) |-> Catalog[p]]
<1>1. IsFiniteSet(Passing(Catalog)) /\ Passing(Catalog) \subseteq 1..Len(Catalog)
  <2>1. IsFiniteSet(1..Len(Catalog))
    BY CatalogIsPriced, FS_Interval
  <2>2. Passing(Catalog) \subseteq 1..Len(Catalog)
    BY DEF Passing
  <2> QED
    BY <2>1, <2>2, FS_Subset
<1>2. at \in Bijection(Passing(Catalog), Matching)
  <2>1. at \in [Passing(Catalog) -> Matching]
    BY DEF Matching
  <2>2. \A p, q \in Passing(Catalog) : at[p] = at[q] => p = q
    BY <1>1, CatalogIsPriced, PickerAssumption
  <2>3. \A m \in Matching : \E p \in Passing(Catalog) : at[p] = m
    BY DEF Matching
  <2> QED
    BY <2>1, <2>2, <2>3 DEF Bijection, Injection, IsInjective, Surjection
<1> QED
  BY <1>1, <1>2, FS_Bijection DEF ExistsBijection

(* What filterModels returns is what the picker should show.                 *)
LEMMA FilterShowsBest ==
  ASSUME sort \in SortModes, options = FilterModels(Catalog)
  PROVE  /\ Shown \subseteq Matching
         /\ Len(options) =
              (IF Cardinality(Matching) < Limit THEN Cardinality(Matching) ELSE Limit)
         /\ \A i, j \in 1..Len(options) : i < j => ~Before(sort, options[j], options[i])
         /\ \A m \in Matching \ Shown : \A n \in Shown : ~Before(sort, m, n)
<1> DEFINE places == Passing(Catalog)
           rank(p) == Rank(Catalog, places, p)
<1>1. /\ Fits \in Nat /\ Fits <= Cardinality(places) /\ Len(options) = Fits
      /\ options = [k \in 1..Fits |-> Catalog[PlaceOf(k)]]
  BY ShowsTheFirst
<1>2. /\ places \subseteq 1..Len(Catalog) /\ Cardinality(places) \in Nat
      /\ \A k \in 1..Fits : PlaceOf(k) \in places /\ rank(PlaceOf(k)) = k - 1
  BY <1>1, SortedByRank
<1>3. \A p, q \in places : rank(p) < rank(q) => ~Before(sort, Catalog[q], Catalog[p])
  BY <1>2, RankIsPlace, PrecedesIsTotal
<1>4. Shown \subseteq Matching
  BY <1>1, <1>2 DEF Shown, Matching
<1>5. Len(options) = (IF Cardinality(Matching) < Limit THEN Cardinality(Matching) ELSE Limit)
  BY <1>1, <1>2, AsManyAsMatch, PickerAssumption DEF Fits
<1>6. ASSUME NEW i \in 1..Len(options), NEW j \in 1..Len(options), i < j
      PROVE  ~Before(sort, options[j], options[i])
  <2>1. rank(PlaceOf(i)) < rank(PlaceOf(j))
    BY <1>1, <1>2, <1>6
  <2> QED
    BY <1>1, <1>2, <1>3, <2>1
<1>7. ASSUME NEW m \in Matching \ Shown, NEW n \in Shown PROVE ~Before(sort, m, n)
  <2>1. PICK p \in places : m = Catalog[p]
    BY DEF Matching
  <2>2. PICK k \in 1..Fits : n = Catalog[PlaceOf(k)]
    BY <1>1 DEF Shown
  <2>3. rank(p) \in 0..(Cardinality(places) - 1)
    BY <1>2, RankIsPlace
  <2>4. rank(p) >= Fits
    <3>1. SUFFICES ASSUME rank(p) < Fits PROVE FALSE
      BY <1>1, <2>3
    <3>2. rank(p) + 1 \in 1..Fits
      BY <1>1, <2>3, <3>1
    <3>3. rank(PlaceOf(rank(p) + 1)) = rank(p) /\ PlaceOf(rank(p) + 1) \in places
      BY <1>2, <2>3, <3>2
    <3>4. PlaceOf(rank(p) + 1) = p
      <4>1. /\ ~Precedes(Catalog, p, PlaceOf(rank(p) + 1))
            /\ ~Precedes(Catalog, PlaceOf(rank(p) + 1), p)
        BY <1>2, <2>3, <3>3, RankIsPlace
      <4> QED
        BY <1>2, <3>3, <4>1, PrecedesIsTotal
    <3> QED
      BY <1>1, <2>1, <3>2, <3>4 DEF Shown
  <2>5. rank(PlaceOf(k)) < rank(p)
    BY <1>1, <1>2, <2>2, <2>3, <2>4
  <2> QED
    BY <1>2, <1>3, <2>1, <2>2, <2>5
<1> QED
  BY <1>4, <1>5, <1>6, <1>7

-------------------------------------------------------------------------------
(* ModelPicker: what the open picker shows                                   *)

(* What is under way while only one fetch ever was: one, and none once the   *)
(* list is there, which then shows no error.                                 *)
OneFetch == ~overlapped => /\ \A p, q \in fetches : p = q
                           /\ cache # <<>> => fetches = {} /\ ~failed

ShowsBest == open /\ cache # <<>> /\ ~unheard => options = FilterModels(cache)

PickerInv ==
    /\ sort \in SortModes /\ cache \in {<<>>, Catalog} /\ IsFiniteSet(fetches)
    /\ OneFetch /\ ShowsBest

LEMMA PickerInvIsEnough == PickerInv => PickerOffersBest
<1> SUFFICES ASSUME PickerInv, open, cache # <<>>
             PROVE  /\ failed => overlapped
                    /\ ~unheard =>
                       /\ Shown \subseteq Matching
                       /\ Len(options) =
                            (IF Cardinality(Matching) < Limit THEN Cardinality(Matching) ELSE Limit)
                       /\ \A i, j \in 1..Len(options) : i < j => ~Before(sort, options[j], options[i])
                       /\ \A m \in Matching \ Shown : \A n \in Shown : ~Before(sort, m, n)
  BY Zenon DEF PickerOffersBest
<1>1. failed => overlapped
  BY DEF PickerInv, OneFetch
<1>2. ~unheard => options = FilterModels(Catalog) /\ sort \in SortModes
  BY DEF PickerInv, ShowsBest
<1> QED
  BY <1>1, <1>2, FilterShowsBest

(* Two things under way are more than one.                                   *)
LEMMA AtMostOne ==
  ASSUME NEW S, IsFiniteSet(S), ~(Cardinality(S) > 1), NEW p \in S, NEW q \in S
  PROVE  p = q
<1>1. SUFFICES ASSUME p # q PROVE FALSE
  OBVIOUS
<1>2. IsFiniteSet({p}) /\ Cardinality({p}) = 1
  BY FS_Singleton
<1>3. Cardinality({p} \cup {q}) = 2
  BY <1>1, <1>2, FS_AddElement
<1>4. Cardinality({p} \cup {q}) <= Cardinality(S) /\ Cardinality(S) \in Nat
  BY FS_Subset, FS_CardinalityType
<1> QED
  BY <1>3, <1>4

LEMMA SameFilter ==
  ASSUME UNCHANGED <<search, filter, sort, cache>>
  PROVE  FilterModels(cache)' = FilterModels(cache)
<1>1. \A m : Passes(m)' <=> Passes(m)
  BY Zenon DEF Passes
<1>2. Passing(cache)' = Passing(cache)
  BY <1>1 DEF Passing
<1> QED
  BY <1>2 DEF FilterModels, Sorted, Rank, Precedes, Truncated

LEMMA RenderedAnew ==
  ASSUME RenderModelOptions
  PROVE  ShowsBest'
BY DEF RenderModelOptions, ShowsBest

(* A step that leaves the list alone, unless it is closed or outdated.       *)
LEMMA LeftAlone ==
  ASSUME ShowsBest, UNCHANGED <<search, filter, sort, options>>,
         \/ ~open'
         \/ cache' = <<>>
         \/ unheard'
         \/ UNCHANGED <<open, cache, unheard>>
  PROVE  ShowsBest'
BY SameFilter DEF ShowsBest

LEMMA FetchedOnce ==
  ASSUME PickerInv, NEW waits \in BOOLEAN, FetchModels(waits), UNCHANGED cache,
         overlapped' = (overlapped \/ Cardinality(fetches') > 1)
  PROVE  OneFetch' /\ IsFiniteSet(fetches')
<1> DEFINE heard(q) == IF q.id = loading /\ waits THEN [q EXCEPT !.waits = TRUE] ELSE q
<1>1. IsFiniteSet(fetches')
  <2>1. CASE UNCHANGED fetches
    BY <2>1 DEF PickerInv
  <2>2. CASE fetches' = {heard(q) : q \in fetches}
    <3> DEFINE f == [q \in fetches |-> heard(q)]
    <3> HIDE DEF heard
    <3>1. f \in Surjection(fetches, {heard(q) : q \in fetches})
      BY DEF Surjection
    <3>2. IsFiniteSet(fetches)
      BY DEF PickerInv
    <3> QED
      BY <2>2, <3>1, <3>2, FS_Surjection
  <2>3. CASE fetches' = fetches \cup {[id |-> made', waits |-> waits]}
    BY <2>3, FS_AddElement DEF PickerInv
  <2> QED
    BY <2>1, <2>2, <2>3 DEF FetchModels
<1>2. ASSUME ~overlapped' PROVE ~overlapped /\ ~(Cardinality(fetches') > 1)
  BY <1>2
<1>3. ASSUME ~overlapped', NEW p \in fetches', NEW q \in fetches' PROVE p = q
  BY <1>1, <1>2, <1>3, AtMostOne
<1>4. ASSUME ~overlapped', cache' # <<>> PROVE fetches' = {} /\ ~failed'
  <2>1. UNCHANGED <<fetches, failed>>
    BY <1>4 DEF FetchModels
  <2> QED
    BY <1>2, <1>4, <2>1 DEF PickerInv, OneFetch
<1> QED
  BY <1>1, <1>3, <1>4 DEF OneFetch

LEMMA PickerStart == PickerInit => PickerInv
<1> SUFFICES ASSUME PickerInit PROVE PickerInv
  OBVIOUS
<1>1. /\ sort = "default" /\ cache = <<>> /\ fetches = {} /\ ~open
      /\ overlapped = FALSE
  BY Zenon DEF PickerInit
<1> QED
  BY <1>1, FS_EmptySet DEF PickerInv, SortModes, OneFetch, ShowsBest

LEMMA FetchesKept ==
  ASSUME PickerInv, UNCHANGED <<cache, fetches, failed, overlapped>>
  PROVE  /\ cache' \in {<<>>, Catalog} /\ IsFiniteSet(fetches') /\ OneFetch'
BY DEF PickerInv, OneFetch

LEMMA FetchEnds ==
  ASSUME PickerInv, NEW q \in fetches, fetches' = fetches \ {q}, UNCHANGED overlapped,
         cache' # <<>> => (cache # <<>> \/ ~failed')
  PROVE  IsFiniteSet(fetches') /\ OneFetch'
<1>1. IsFiniteSet(fetches')
  BY FS_RemoveElement DEF PickerInv
<1>2. ASSUME ~overlapped PROVE /\ fetches' = {} /\ (cache' # <<>> => ~failed')
  BY <1>2 DEF PickerInv, OneFetch
<1> QED
  BY <1>1, <1>2 DEF OneFetch

LEMMA PickerStep ==
  ASSUME PickerInv, [PickerNext]_pickerVars
  PROVE  PickerInv'
<1> USE DEF PickerInv
<1>1. CASE Connected
  <2>1. OneFetch' /\ IsFiniteSet(fetches')
    BY <1>1, FetchedOnce DEF Connected
  <2>2. ShowsBest'
    BY <1>1, LeftAlone DEF Connected
  <2> QED
    BY <1>1, <2>1, <2>2 DEF Connected
<1>2. CASE Disconnected
  <2>1. ShowsBest'
    BY <1>2, LeftAlone DEF Disconnected
  <2>2. OneFetch' /\ IsFiniteSet(fetches')
    BY <1>2 DEF Disconnected, OneFetch
  <2> QED
    BY <1>2, <2>1, <2>2 DEF Disconnected
<1>3. ASSUME NEW q \in fetches, FetchAnswered(q) PROVE PickerInv'
  <2>1. OneFetch' /\ IsFiniteSet(fetches')
    BY <1>3, FetchEnds DEF FetchAnswered
  <2>2. ShowsBest'
    <3>1. CASE q.waits /\ open
      BY <1>3, <3>1, RenderedAnew DEF FetchAnswered
    <3>2. CASE ~(q.waits /\ open)
      <4>1. options' = options /\ unheard' = (unheard \/ open) /\ open' = open
        BY <1>3, <3>2 DEF FetchAnswered
      <4>2. ~open' \/ unheard'
        BY <4>1
      <4> QED
        BY <4>2 DEF ShowsBest
    <3> QED
      BY <3>1, <3>2
  <2> QED
    BY <1>3, <2>1, <2>2 DEF FetchAnswered
<1>4. ASSUME NEW q \in fetches, FetchFailed(q) PROVE PickerInv'
  <2>1. OneFetch' /\ IsFiniteSet(fetches')
    BY <1>4, FS_RemoveElement DEF FetchFailed, OneFetch
  <2>2. ShowsBest'
    BY <1>4, LeftAlone DEF FetchFailed
  <2> QED
    BY <1>4, <2>1, <2>2 DEF FetchFailed
<1>5. CASE OpenModelPicker
  <2>1. OneFetch' /\ IsFiniteSet(fetches')
    BY <1>5, FetchedOnce DEF OpenModelPicker
  <2>2. UNCHANGED <<sort, cache>> /\ ShowsBest'
    <3>1. UNCHANGED <<sort, cache>> /\ RenderModelOptions
      BY <1>5, Zenon DEF OpenModelPicker
    <3> QED
      BY <3>1, RenderedAnew
  <2> QED
    BY <2>1, <2>2
<1>6. CASE CloseModelPicker
  BY <1>6, FetchesKept, LeftAlone DEF CloseModelPicker
<1>7. CASE CycleSortMode
  <2>1. sort' \in SortModes
    BY <1>7 DEF CycleSortMode, SortModes
  <2> QED
    BY <1>7, <2>1, FetchesKept, RenderedAnew DEF CycleSortMode, Narrow
<1>8. ASSUME NEW t \in Queries, SearchModels(t) PROVE PickerInv'
  BY <1>8, FetchesKept, RenderedAnew DEF SearchModels, Narrow
<1>9. ASSUME NEW f \in Families, ToggleChip(f) PROVE PickerInv'
  BY <1>9, FetchesKept, RenderedAnew DEF ToggleChip, Narrow
<1>10. ASSUME NEW i \in 1..Limit, SelectModel(i) PROVE PickerInv'
  BY <1>10, FetchesKept, LeftAlone DEF SelectModel
<1>11. CASE UNCHANGED pickerVars
  BY <1>11, FetchesKept, LeftAlone DEF pickerVars
<1> QED
  BY <1>1, <1>2, <1>3, <1>4, <1>5, <1>6, <1>7, <1>8, <1>9, <1>10, <1>11 DEF PickerNext

(* Whatever is typed, chosen, sorted, fetched late or lost: an open picker   *)
(* that has the list shows the models that match, the first of them in the   *)
(* chosen order, and no error over a list; unless it came with a fetch the   *)
(* picker has not asked for, or two were under way at once                   *)
(* (assistant.js:1216, 1251, 1282).                                          *)
THEOREM PickerShowsTheBest == PickerSpec => []PickerOffersBest
<1>1. PickerInv /\ [PickerNext]_pickerVars => PickerInv'
  BY PickerStep
<1> QED
  BY <1>1, PickerStart, PickerInvIsEnough, PTL DEF PickerSpec
===============================================================================
