-------------------------------- MODULE MCEditor --------------------------------
(***************************************************************************)
(* The parts of the editor's pages, which do not share state, and the        *)
(* evaluation that the tester on the edit page asks for: each behaviour is   *)
(* one of one part, the others stay as they are first.                       *)
(***************************************************************************)
EXTENDS ModelPicker, RuleBuilder, RuleFields, EditorWidgets, Evaluate

CONSTANTS b1, b2

VARIABLE part

Model(id, price, family, matches) ==
    [id |-> id, price |-> price, family |-> family, matches |-> matches]
MCCatalog == <<Model(1, Unpriced, "anthropic", {"a"}), Model(2, 2, "openai", {"a"}),
               Model(3, 0, "free", {}), Model(4, 1, "openai", {"a"})>>

Leaf(p, n) == [parent |-> p, kind |-> "leaf", name |-> n]
In(k, n) == <<[parent |-> Top, kind |-> k, name |-> ""], Leaf(1, n)>>
MCPages == {<<Leaf(Top, "a"), Leaf(Top, "b")>>, In("not", "a"), In("list", "b")}

MCTexts == {[matches |-> 1..3, value |-> 1], [matches |-> {2, 3}, value |-> 2],
            [matches |-> {3}, value |-> 3], [matches |-> {2, 3}, value |-> NoOption],
            [matches |-> {}, value |-> NoOption]}

(* Lists of up to three rules, with priorities on both sides of the start    *)
(* value of currentPriority, and at it.                                      *)
MCDefinitions ==
    UNION {[1..n -> [priority : -2..1, override : BOOLEAN, matches : BOOLEAN]] : n \in 0..3}

(* Halves of a percent: below, within and above the slider, on a step of it  *)
(* and between two.                                                          *)
MCPercents == {-3, 0, 67, 100, 240}

(* In 4 micrometres: 1.5 m, half a thousandth, 1234.567 m, 2000.000004 m, a  *)
(* mile and what is just below one.                                          *)
MCLengths == {-250, 0, 125, 375000, 308641750, 402335999, 402336000, 500000001}

Word == String("word")
MCLists == {<<>>, <<Word>>} \cup {<<v, Word>> : v \in {Null, Blank, String("true"), String("'true'"),
                                                      Literal("42"), Literal("{}")}}

Parts == {"picker", "builder", "value", "duration", "date", "percentage", "cron", "radius",
          "items", "confirm", "combobox", "evaluation"}

MCInit ==
    /\ part \in Parts
    /\ IF part = "builder" THEN TRUE ELSE stored = <<Leaf(Top, "a"), Leaf(Top, "b")>>
    /\ IF part = "value" THEN TRUE ELSE valueData = LoadFromObj("undefined", NewField)
    /\ IF part = "duration" THEN TRUE ELSE duration = LoadDuration(0)
    /\ IF part = "date" THEN TRUE ELSE date = LoadDate(NoDate)
    /\ IF part = "percentage" THEN TRUE ELSE percentage = LoadPercentage(0)
    /\ IF part = "cron" THEN TRUE ELSE cron = LoadCron("")
    /\ IF part = "radius" THEN TRUE ELSE radius = LoadRadius(0)
    /\ IF part = "items" THEN TRUE ELSE items = Rendered(TRUE, <<>>)
    /\ IF part = "combobox" THEN TRUE ELSE typed = [matches |-> 1..3, value |-> 1]
    /\ IF part = "evaluation" THEN TRUE ELSE rules = <<>>
    /\ PickerInit /\ BuilderInit /\ FieldInit /\ ConfirmInit /\ ComboInit /\ Init

Only(p) ==
    /\ part = p /\ part' = p
    /\ IF p = "picker" THEN TRUE ELSE UNCHANGED pickerVars
    /\ IF p = "builder" THEN TRUE ELSE UNCHANGED pageVars
    /\ IF p = "value" THEN TRUE ELSE UNCHANGED valueData
    /\ IF p = "duration" THEN TRUE ELSE UNCHANGED duration
    /\ IF p = "date" THEN TRUE ELSE UNCHANGED date
    /\ IF p = "percentage" THEN TRUE ELSE UNCHANGED percentage
    /\ IF p = "cron" THEN TRUE ELSE UNCHANGED cron
    /\ IF p = "radius" THEN TRUE ELSE UNCHANGED radius
    /\ IF p = "items" THEN TRUE ELSE UNCHANGED items
    /\ IF p = "confirm" THEN TRUE ELSE UNCHANGED confirmVars
    /\ IF p = "combobox" THEN TRUE ELSE UNCHANGED comboVars
    /\ IF p = "evaluation" THEN TRUE ELSE UNCHANGED vars

MCNext ==
    \/ Only("picker") /\ PickerNext
    \/ Only("builder") /\ BuilderNext
    \/ Only("value") /\ ValueDataNext
    \/ Only("duration") /\ DurationNext
    \/ Only("date") /\ DateNext
    \/ Only("percentage") /\ PercentageNext
    \/ Only("cron") /\ CronNext
    \/ Only("radius") /\ RadiusNext
    \/ Only("items") /\ ItemsNext
    \/ Only("confirm") /\ ConfirmNext
    \/ Only("combobox") /\ ComboNext
    \/ Only("evaluation") /\ Next

MCSpec ==
    MCInit /\ [][MCNext]_<<part, pickerVars, pageVars, fieldVars, confirmVars, comboVars, vars>>
===============================================================================
