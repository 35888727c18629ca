----------------------------- MODULE PanelProofs -----------------------------
(***************************************************************************)
(* What holds of Panel for every set of tariffs, messages and handlers,    *)
(* and for everything that an administrator may set out to do.             *)
(***************************************************************************)
EXTENDS Panel, TLAPS

-----------------------------------------------------------------------------
(***************************************************************************)
(* The tables of the dialogues                                             *)
(***************************************************************************)
LEMMA SavingNames ==
    Saving = {"plan_duration", "plan_value", "landing_html", "landing_value",
              "setting_value", "telegram_id", "menu_buttons", "confirm"}
  BY DEF Saving, Needs

LEMMA FieldNames ==
    DOMAIN NextField = {"plan_name", "plan_price", "landing_name", "landing_slug",
                        "landing_title", "landing_channel", "landing_description"}
  BY DEF NextField

LEMMA DialogueNames ==
    DOMAIN Dialogues = {"plan_new", "plan_edit", "landing_new", "landing_edit",
                        "setting", "admin", "menu_new", "broadcast_new"}
  BY DEF Dialogues

LEMMA AnswerNames ==
    /\ DOMAIN NextField \subseteq Answers /\ Saving \subseteq Answers
    /\ Collecting \subseteq Answers
    /\ {"done", "menu_done", "buttons", "target"} \subseteq Answers
    /\ "none" \notin Answers /\ Answers \cap Pressed = {}
  BY SavingNames, FieldNames, DialogueNames DEF Answers, Pressed, Collecting

\* The state that awaits an answer has its name, but for those that end a
\* collection.
LEMMA AwaitedIs ==
    /\ \A what \in Answers \ {"done", "menu_done"} : Awaited(what) = what
    /\ Awaited("done") = "content" /\ Awaited("menu_done") = "menu_content"
    /\ \A what \in Answers : Awaited(what) \in States
    /\ \A what \in Answers \ {"done", "menu_done"} : what \in States
    /\ "none" \in States
  BY AnswerNames DEF Awaited, States

LEMMA KeptIs ==
    /\ \A what \in Saving : KeptBefore(what) = Needs[what]
    /\ KeptBefore("none") = {} /\ KeptBefore("content") = {}
    /\ KeptBefore("buttons") = {"source_chat_id"}
    /\ KeptBefore("target") = {"source_chat_id"}
    /\ KeptBefore("menu_content") = {"menu_content_action"}
  BY SavingNames DEF KeptBefore

LEMMA NeedsIs ==
    /\ Needs["plan_duration"] = {"plan_name", "plan_price"}
    /\ Needs["plan_value"] = {"selected_plan_id"}
    /\ Needs["landing_html"] = {"landing_name", "landing_slug", "landing_title",
                               "landing_channel", "landing_description"}
    /\ Needs["landing_value"] = {"landing_template_id"}
    /\ Needs["setting_value"] = {"setting_key"}
    /\ Needs["telegram_id"] = {}
    /\ Needs["menu_buttons"] = {"menu_content_action", "menu_content_source_chat_id"}
    /\ Needs["confirm"] = {"source_chat_id", "target"}
  BY DEF Needs

LEMMA KeysIs ==
    /\ DOMAIN NextField \subseteq Keys
    /\ {"selected_plan_id", "landing_template_id", "setting_key", "menu_content_action",
        "menu_content_source_chat_id", "source_chat_id", "target"} \subseteq Keys
<1>1. \A what \in Saving : Needs[what] \subseteq Keys
  BY DEF Keys
<1> QED
  BY <1>1, NeedsIs, SavingNames, FieldNames

\* The steps of the two forms.
LEMMA FormIs ==
    /\ KeptBefore("plan_name") = {} /\ KeptBefore("landing_name") = {}
    /\ KeptBefore("plan_price") = {"plan_name"}
    /\ KeptBefore("landing_slug") = {"landing_name"}
    /\ KeptBefore("landing_title") = {"landing_name", "landing_slug"}
    /\ KeptBefore("landing_channel") = {"landing_name", "landing_slug", "landing_title"}
    /\ KeptBefore("landing_description") =
          {"landing_name", "landing_slug", "landing_title", "landing_channel"}
  BY SavingNames DEF KeptBefore

LEMMA FieldOrder ==
    /\ NextField["plan_name"] = "plan_price"
    /\ NextField["plan_price"] = "plan_duration"
    /\ NextField["landing_name"] = "landing_slug"
    /\ NextField["landing_slug"] = "landing_title"
    /\ NextField["landing_title"] = "landing_channel"
    /\ NextField["landing_channel"] = "landing_description"
    /\ NextField["landing_description"] = "landing_html"
  BY DEF NextField

\* A field of a form is followed by a state of the same form, which needs that field
\* and what the field itself needed.
LEMMA FieldIs ==
    ASSUME NEW what \in DOMAIN NextField
    PROVE  /\ NextField[what] \in States
           /\ NextField[what] \notin Further \cup {"content"}
           /\ KeptBefore(NextField[what]) = KeptBefore(what) \cup {what}
<1>1. NextField[what] \in (DOMAIN NextField \cup Saving) \ {"confirm"}
  BY FieldNames, SavingNames, FieldOrder
<1>2. NextField[what] \in States
  BY <1>1, AwaitedIs, AnswerNames, SavingNames, FieldNames
<1>3. NextField[what] \notin Further \cup {"content"}
  BY <1>1, SavingNames, FieldNames DEF Further
<1>4. KeptBefore(NextField[what]) = KeptBefore(what) \cup {what}
  BY FieldNames, SavingNames, FieldOrder, FormIs, KeptIs, NeedsIs
<1> QED
  BY <1>2, <1>3, <1>4

\* What a dialogue begins with is what its first state needs.
LEMMA DialogueIs ==
    ASSUME NEW what \in DOMAIN Dialogues,
           NEW d, d = Dialogues[what]
    PROVE  /\ d.clears \in BOOLEAN /\ d.keys \subseteq Keys /\ d.state \in States
           /\ KeptBefore(d.state) \subseteq d.keys
           /\ d.state \notin Further /\ (d.state = "content" => d.clears)
           /\ "selected_plan_id" \in d.keys <=> what = "plan_edit"
           /\ \A c \in Collecting : ChatKey(c) \notin d.keys
<1>1. \A c \in Collecting : ChatKey(c) \in {"source_chat_id", "menu_content_source_chat_id"}
  BY DEF ChatKey
<1>2. {"plan_name", "landing_name", "content", "menu_content"} \cup Saving \subseteq States
  BY AwaitedIs, AnswerNames, FieldNames, SavingNames DEF Collecting
<1>3. CASE what = "plan_new"
  <2>1. /\ d.clears = FALSE /\ d.keys = {}
        /\ d.state = "plan_name"
    BY <1>3 DEF Dialogues
  <2>2. KeptBefore("plan_name") = {}
    BY FormIs
  <2> QED
    BY <1>1, <1>2, <1>3, <2>1, <2>2, SavingNames, KeysIs DEF Further
<1>4. CASE what = "plan_edit"
  <2>1. /\ d.clears = TRUE /\ d.keys = {"selected_plan_id"}
        /\ d.state = "plan_value"
    BY <1>4 DEF Dialogues
  <2>2. KeptBefore("plan_value") = {"selected_plan_id"}
    BY SavingNames, KeptIs, NeedsIs
  <2> QED
    BY <1>1, <1>2, <1>4, <2>1, <2>2, SavingNames, KeysIs DEF Further
<1>5. CASE what = "landing_new"
  <2>1. /\ d.clears = TRUE /\ d.keys = {}
        /\ d.state = "landing_name"
    BY <1>5 DEF Dialogues
  <2>2. KeptBefore("landing_name") = {}
    BY FormIs
  <2> QED
    BY <1>1, <1>2, <1>5, <2>1, <2>2, SavingNames, KeysIs DEF Further
<1>6. CASE what = "landing_edit"
  <2>1. /\ d.clears = TRUE /\ d.keys = {"landing_template_id"}
        /\ d.state = "landing_value"
    BY <1>6 DEF Dialogues
  <2>2. KeptBefore("landing_value") = {"landing_template_id"}
    BY SavingNames, KeptIs, NeedsIs
  <2> QED
    BY <1>1, <1>2, <1>6, <2>1, <2>2, SavingNames, KeysIs DEF Further
<1>7. CASE what = "setting"
  <2>1. /\ d.clears = FALSE /\ d.keys = {"setting_key"}
        /\ d.state = "setting_value"
    BY <1>7 DEF Dialogues
  <2>2. KeptBefore("setting_value") = {"setting_key"}
    BY SavingNames, KeptIs, NeedsIs
  <2> QED
    BY <1>1, <1>2, <1>7, <2>1, <2>2, SavingNames, KeysIs DEF Further
<1>8. CASE what = "admin"
  <2>1. /\ d.clears = FALSE /\ d.keys = {}
        /\ d.state = "telegram_id"
    BY <1>8 DEF Dialogues
  <2>2. KeptBefore("telegram_id") = {}
    BY SavingNames, KeptIs, NeedsIs
  <2> QED
    BY <1>1, <1>2, <1>8, <2>1, <2>2, SavingNames, KeysIs DEF Further
<1>9. CASE what = "menu_new"
  <2>1. /\ d.clears = TRUE /\ d.keys = {"menu_content_action"}
        /\ d.state = "menu_content"
    BY <1>9 DEF Dialogues
  <2>2. KeptBefore("menu_content") = {"menu_content_action"}
    BY KeptIs
  <2> QED
    BY <1>1, <1>2, <1>9, <2>1, <2>2, SavingNames, KeysIs DEF Further
<1>10. CASE what = "broadcast_new"
  <2>1. /\ d.clears = TRUE /\ d.keys = {}
        /\ d.state = "content"
    BY <1>10 DEF Dialogues
  <2>2. KeptBefore("content") = {}
    BY KeptIs
  <2> QED
    BY <1>1, <1>2, <1>10, <2>1, <2>2, SavingNames, KeysIs DEF Further
<1> QED
  BY <1>3, <1>4, <1>5, <1>6, <1>7, <1>8, <1>9, <1>10, DialogueNames

-----------------------------------------------------------------------------
(***************************************************************************)
(* The records of the model                                                *)
(***************************************************************************)
LEMMA IdleIs ==
    /\ Idle \in Work /\ Complete(Idle) /\ ActsFor(Idle) = {}
    /\ Idle.step = "idle" /\ Idle.what = "none"
<1>1. /\ Idle \in Work /\ Idle.step = "idle" /\ Idle.what = "none"
  BY DEF Idle, Update, Work
<1>2. Complete(Idle) /\ ActsFor(Idle) = {}
  BY <1>1 DEF Complete, ActsFor, Collecting
<1> QED
  BY <1>1, <1>2

LEMMA UpdateIs ==
    ASSUME NEW what \in Pressed \cup Answers,
           NEW p \in Plans \cup {None}, NEW m \in Posts \cup {None}
    PROVE  LET u == Update(what, p, m)
           IN  /\ u \in Work /\ u.step = "asked" /\ u.what = what
               /\ u.plan = p /\ u.post = m
  BY DEF Update, Work

LEMMA NoDataIs ==
    /\ NoData \in Data /\ NoData.keys = {} /\ NoData.plan = None
    /\ \A c \in Collecting : NoData.posts[c] = {}
  BY DEF NoData, Data

\* The states that the handler of w acts for, by what it is doing.
LEMMA ActsForIs ==
    ASSUME NEW w \in Work
    PROVE  /\ w.step = "idle" => ActsFor(w) = {}
           /\ w.step = "asked" /\ w.what \in Answers => ActsFor(w) = {Awaited(w.what)}
           /\ w.step = "asked" /\ w.what \notin Answers => ActsFor(w) = {}
           /\ w.step \in {"loading", "running"} /\ w.what \in Saving => ActsFor(w) = {w.what}
           /\ w.step = "running" /\ w.what = "target" => ActsFor(w) = {"confirm"}
           /\ w.step = "running" /\ w.what \notin Saving \cup {"target"} => ActsFor(w) = {}
<1>1. "confirm" \in States /\ Saving \subseteq States /\ "target" \notin Saving
  BY AwaitedIs, AnswerNames, SavingNames
<1>2. \A what \in Answers : Awaited(what) \in States
  BY AwaitedIs
<1> QED
  BY <1>1, <1>2 DEF ActsFor

\* Whoever acts for the confirmation is further than the collecting.
LEMMA ConfirmIs ==
    ASSUME NEW w \in Work, "confirm" \in ActsFor(w)
    PROVE  w.what \in Further
<1>1. \A what \in Answers \ {"done", "menu_done"} : Awaited(what) = what
  BY AwaitedIs
<1>2. Awaited("done") # "confirm" /\ Awaited("menu_done") # "confirm"
  BY AwaitedIs
<1> QED
  BY <1>1, <1>2 DEF ActsFor, Further

-----------------------------------------------------------------------------
(***************************************************************************)
(* What a step does to the dialogue                                        *)
(***************************************************************************)
\* Only the handler h moves.
OthersWork(h) == \A g \in Handlers \ {h} : work'[g] = work[g]

\* Nothing of the dialogue is lost.
Grows ==
    /\ late \subseteq late' /\ previewed \subseteq previewed' /\ swept' = swept
    /\ data.keys \subseteq data'.keys
    /\ data.posts["content"] \subseteq data'.posts["content"]

\* Messages that come when the broadcast has gone on come late.
NewIsLate == data'.posts["content"] \ data.posts["content"] \subseteq late'

\* All messages that others than h have in hand are known to be late.
AllLate(h) ==
    \A g \in Handlers \ {h} : work[g].what = "content" => work[g].post \in late'

\* The handler h is left with x, and the broadcast goes on only with all that are
\* still in hand known to be late.
Ordered(h, x) ==
    /\ state' = "content" => state = "content" /\ x.what \notin Further
    /\ x.what \in Further \/ state' \in Further => GoneOn \/ AllLate(h)
    /\ x.what = "content" => state' = "content"

LEMMA ReadyKept ==
    ASSUME Grows, NEW st, Ready(st), st = "confirm" => NewIsLate
    PROVE  Ready(st)'
<1>1. KeptBefore(st)' = KeptBefore(st)
  BY DEF KeptBefore
<1>2. ASSUME st = "confirm" PROVE Shown(data.posts["content"])'
  BY <1>2 DEF Ready, Shown, Grows, NewIsLate
<1> QED
  BY <1>1, <1>2 DEF Ready, Grows

\* A step of h that loses nothing.
LEMMA DialogueKept ==
    ASSUME TypeOK, TypeOK', DialogueInv, Grows, NEW h \in Handlers, OthersWork(h),
           NEW x, work'[h] = x,
           swept \/ ~GoneOn \/ NewIsLate,
           swept \/ /\ Ready(state)'
                    /\ \A st \in ActsFor(x) : Ready(st)'
                    /\ Ordered(h, x)
    PROVE  DialogueInv'
<1> SUFFICES ASSUME ~swept' PROVE DialogueInv'
  BY DEF DialogueInv
<1>1. ~swept
  BY DEF Grows
<1>2. ASSUME NEW g \in Handlers, NEW st \in ActsFor(work'[g]) PROVE Ready(st)'
  <2>1. CASE g = h
    BY <1>1, <1>2, <2>1
  <2>2. CASE g # h
    <3>1. work'[g] = work[g] /\ work[g] \in Work
      BY <2>2 DEF OthersWork, TypeOK
    <3>2. Ready(st)
      BY <1>1, <1>2, <3>1 DEF DialogueInv
    <3>3. st = "confirm" => GoneOn
      BY <1>2, <3>1, ConfirmIs DEF GoneOn
    <3> QED
      BY <1>1, <3>2, <3>3, ReadyKept
  <2> QED
    BY <2>1, <2>2
<1>3. ASSUME NEW g \in Handlers, state' = "content"
      PROVE  work'[g].what \notin Further
  BY <1>1, <1>3 DEF DialogueInv, OthersWork, Ordered
<1>4. ASSUME NEW g \in Handlers, GoneOn', work'[g].what = "content"
      PROVE  work'[g].post \in late'
  <2>1. CASE g = h
    <3>1. state' = "content"
      BY <1>1, <1>4, <2>1 DEF Ordered
    <3> QED
      BY <1>3, <1>4, <3>1 DEF GoneOn, Further
  <2>2. CASE g # h
    <3>1. work'[g] = work[g]
      BY <2>2 DEF OthersWork
    <3>2. GoneOn \/ AllLate(h)
      BY <1>1, <1>4 DEF GoneOn, Ordered, OthersWork
    <3>3. CASE GoneOn
      BY <1>1, <1>4, <3>1, <3>3 DEF DialogueInv, Grows
    <3>4. CASE AllLate(h)
      BY <1>4, <2>2, <3>1, <3>4 DEF AllLate
    <3> QED
      BY <3>2, <3>3, <3>4
  <2> QED
    BY <2>1, <2>2
<1>5. \A g \in Handlers : ActsFor(work[g])' = ActsFor(work'[g])
  BY DEF ActsFor
<1> QED
  BY <1>1, <1>2, <1>3, <1>4, <1>5 DEF DialogueInv

\* A step of h that clears the dialogue.
LEMMA DialogueCleared ==
    ASSUME NEW h \in Handlers, OthersWork(h), work'[h] = Idle,
           swept' \/ ~OthersBusy(h), swept' \/ Ready(state)', TypeOK
    PROVE  DialogueInv'
<1> SUFFICES ASSUME ~swept' PROVE DialogueInv'
  BY DEF DialogueInv
<1>1. ASSUME NEW g \in Handlers
      PROVE  work'[g].step = "idle" /\ work'[g] \in Work /\ work'[g].what = "none"
  BY IdleIs DEF OthersWork, OthersBusy, Busy, TypeOK, Complete
<1>2. \A g \in Handlers : ActsFor(work[g])' = {}
  <2>1. \A g \in Handlers : ActsFor(work[g])' = ActsFor(work'[g])
    BY DEF ActsFor
  <2> QED
    BY <1>1, <2>1, ActsForIs
<1> QED
  BY <1>1, <1>2 DEF DialogueInv, Further

-----------------------------------------------------------------------------
(***************************************************************************)
(* What a step keeps                                                       *)
(***************************************************************************)
DataOK ==
    /\ data \in Data
    /\ data.plan # None <=> "selected_plan_id" \in data.keys
    /\ \A c \in Collecting : data.posts[c] # {} <=> ChatKey(c) \in data.keys

HistoryOK ==
    /\ late \subseteq Posts /\ previewed \subseteq SUBSET Posts
    /\ swept \in BOOLEAN /\ broken \in BOOLEAN /\ ~broken

\* Everything but the handlers keeps its shape.
Shapely ==
    /\ CatalogueTypeOK' /\ (NoPlans' => NoPlans)
    /\ standing' \in {"bootstrap", "helper", "removed"}
    /\ state' \in States
    /\ DataOK' /\ HistoryOK'

\* posts are as good as shown when the step is done.
ShownBy(posts) ==
    \E shown \in previewed' : shown \subseteq posts /\ posts \ shown \subseteq late'

\* The handler h is left with x.
Leaves(h, x) ==
    /\ x \in Work /\ Complete(x)
    /\ work' = [work EXCEPT ![h] = x]
    /\ x.step = "running" /\ x.what = "plan_duration" /\ NoPlans' => x.seen
    /\ x.step = "running" /\ x.what = "confirm" => swept' \/ ShownBy(x.posts)

\* The dialogue goes on.
Onward(h, x) ==
    /\ Grows
    /\ swept \/ ~GoneOn \/ NewIsLate
    /\ swept \/ /\ Ready(state)'
                /\ \A st \in ActsFor(x) : Ready(st)'
                /\ Ordered(h, x)

\* The dialogue was cleared.
Afresh(h, x) ==
    /\ x = Idle
    /\ swept' \/ ~OthersBusy(h)
    /\ swept' \/ Ready(state)'

LEMMA TypeParts ==
    /\ TypeOK => DataOK /\ HistoryOK
    /\ TypeOK <=> /\ CatalogueTypeOK
                  /\ standing \in {"bootstrap", "helper", "removed"}
                  /\ state \in States /\ DataOK /\ HistoryOK
                  /\ work \in [Handlers -> Work]
                  /\ \A h \in Handlers : Complete(work[h])
  BY DEF TypeOK, DataOK, HistoryOK, DataIsThere

LEMMA StepKeeps ==
    ASSUME Inv, Shapely, NEW h \in Handlers, NEW x, Leaves(h, x),
           Onward(h, x) \/ Afresh(h, x)
    PROVE  Inv'
<1> TypeOK /\ DialogueInv /\ TariffInv /\ PreviewedIsSent
  BY DEF Inv
<1>1. OthersWork(h) /\ work'[h] = x /\ work' \in [Handlers -> Work]
  BY DEF Leaves, OthersWork, TypeOK
<1>2. \A g \in Handlers : Complete(work'[g])
  BY <1>1 DEF Leaves, OthersWork, TypeOK
<1>3. TypeOK'
  <2>1. \A g \in Handlers : Complete(work[g])'
    BY <1>2 DEF Complete
  <2> QED
    BY <1>1, <2>1 DEF Shapely, HistoryOK, DataIsThere, DataOK, TypeOK
<1>4. DialogueInv'
  <2>1. CASE Onward(h, x)
    BY <1>1, <1>3, <2>1, DialogueKept DEF Onward
  <2>2. CASE Afresh(h, x)
    BY <1>1, <2>2, DialogueCleared DEF Afresh
  <2> QED
    BY <2>1, <2>2
<1>5. TariffInv'
  <2> SUFFICES ASSUME NEW g \in Handlers, Running(g, "plan_duration")', NoPlans'
               PROVE  work'[g].seen
    BY DEF TariffInv
  <2>1. work'[g].step = "running" /\ work'[g].what = "plan_duration"
    BY DEF Running
  <2>2. CASE g = h
    BY <1>1, <2>1, <2>2 DEF Leaves
  <2>3. CASE g # h
    BY <1>1, <2>1, <2>3 DEF TariffInv, OthersWork, Running, Shapely
  <2> QED
    BY <2>2, <2>3
<1>6. PreviewedIsSent'
  <2> SUFFICES ASSUME NEW g \in Handlers, Running(g, "confirm")', ~swept'
               PROVE  ShownBy(work'[g].posts)
    BY DEF PreviewedIsSent, Shown, ShownBy
  <2>1. work'[g].step = "running" /\ work'[g].what = "confirm"
    BY DEF Running
  <2>2. CASE g = h
    BY <1>1, <2>1, <2>2 DEF Leaves
  <2>3. CASE g # h
    <3>1. work'[g] = work[g] /\ Running(g, "confirm")
      BY <1>1, <2>1, <2>3 DEF OthersWork, Running
    <3>2. Grows
      BY <2>3, <3>1 DEF Onward, Afresh, OthersBusy, Busy, Running
    <3>3. Shown(work[g].posts)
      BY <3>1, <3>2 DEF PreviewedIsSent, Grows
    <3> QED
      BY <3>1, <3>2, <3>3 DEF Grows, Shown, ShownBy
  <2> QED
    BY <2>2, <2>3
<1> QED
  BY <1>3, <1>4, <1>5, <1>6 DEF Inv

\* Nothing of the catalogue changes.
LEMMA CatalogueStays ==
    ASSUME CatalogueTypeOK, UNCHANGED catalogue
    PROVE  CatalogueTypeOK' /\ (NoPlans' <=> NoPlans)
  BY DEF catalogue, CatalogueTypeOK, NoPlans, Known

\* A handler that ends.
LEMMA EndsLeaves ==
    ASSUME NEW h \in Handlers, Ends(h)
    PROVE  Leaves(h, Idle)
  BY IdleIs DEF Ends, Leaves

\* A handler that has no more to do than to end, or to wait, with the dialogue as it is.
LEMMA DialogueStays ==
    ASSUME Inv, NEW h \in Handlers, NEW x, Leaves(h, x), UNCHANGED <<dialogue, broken>>,
           UNCHANGED standing, CatalogueTypeOK', NoPlans' => NoPlans,
           swept \/ \A st \in ActsFor(x) : Ready(st),
           swept \/ /\ state = "content" => x.what \notin Further
                    /\ x.what \in Further => GoneOn
                    /\ x.what = "content" => state = "content"
    PROVE  Inv'
<1>1. TypeOK /\ DialogueInv /\ DataOK /\ HistoryOK
  BY TypeParts DEF Inv
<1>2. Grows /\ NewIsLate
  BY DEF Grows, NewIsLate, dialogue
<1>3. Shapely
  <2>1. DataOK' /\ HistoryOK'
    BY <1>1 DEF DataOK, HistoryOK, dialogue
  <2> QED
    BY <1>1, <1>2, <2>1 DEF Shapely, TypeOK, dialogue
<1>4. \A st : Ready(st)' <=> Ready(st)
  BY DEF Ready, Shown, dialogue, KeptBefore
<1>5. swept \/ Ready(state)'
  BY <1>1, <1>4 DEF DialogueInv, dialogue
<1>6. swept \/ Ordered(h, x)
  BY DEF Ordered, GoneOn, dialogue
<1>7. Onward(h, x)
  BY <1>2, <1>4, <1>5, <1>6 DEF Onward
<1> QED
  BY <1>3, <1>7, StepKeeps

-----------------------------------------------------------------------------
(***************************************************************************)
(* The handlers, from the check of the sender to the next await            *)
(***************************************************************************)
\* The handler of w came when the dialogue was ready for it.
Timely(w) ==
    /\ w \in Work /\ w.step \in {"asked", "loading"} /\ Complete(w)
    /\ w.what \in Answers => swept \/ Ready(Awaited(w.what))
    /\ swept \/ /\ state = "content" => w.what \notin Further
                /\ w.what \in Further => GoneOn
                /\ w.what = "content" /\ GoneOn => w.post \in late

\* What is known when a handler runs.
LEMMA InvParts ==
    ASSUME Inv
    PROVE  /\ TypeOK /\ CatalogueTypeOK /\ DialogueInv /\ DataOK /\ HistoryOK
           /\ data \in Data /\ data.keys \subseteq Keys
           /\ data.posts \in [Collecting -> SUBSET Posts]
           /\ ~broken
<1>1. TypeOK /\ DataOK /\ HistoryOK /\ CatalogueTypeOK /\ DialogueInv
  BY TypeParts DEF Inv, TypeOK
<1> QED
  BY <1>1 DEF HistoryOK, DataOK, Data

\* A handler that waits for the database or for Telegram.
LEMMA WaitsIs ==
    ASSUME TypeOK, NEW h \in Handlers, NEW w \in Work, Waits(h, w)
    PROVE  \E x \in Work :
              /\ work' = [work EXCEPT ![h] = x]
              /\ x.step = "running" /\ x.what = w.what /\ x.plan = w.plan
              /\ x.post = w.post /\ x.posts = w.posts /\ x.seen = w.seen
<1> DEFINE x == [w EXCEPT !.step = "running"]
<1>1. /\ x \in Work /\ x.step = "running" /\ x.what = w.what /\ x.plan = w.plan
      /\ x.post = w.post /\ x.posts = w.posts /\ x.seen = w.seen
  BY DEF Work
<1> QED
  BY <1>1 DEF Waits

\* A dialogue that is cleared is ready for anything.
LEMMA ClearedReady ==
    ASSUME state' = "none"
    PROVE  Ready(state)'
<1>1. KeptBefore("none") = {}
  BY KeptIs
<1>2. KeptBefore(state)' = KeptBefore(state')
  BY DEF KeptBefore
<1> QED
  BY <1>1, <1>2 DEF Ready

\* What is left of the dialogue when h has cleared it.
LEMMA ClearsIs ==
    ASSUME Inv, NEW h \in Handlers, Clears(h), UNCHANGED broken
    PROVE  /\ HistoryOK'
           /\ swept' \/ ~OthersBusy(h)
<1>1. OthersBusy(h) \in BOOLEAN
  BY DEF OthersBusy
<1> QED
  BY <1>1, InvParts DEF Clears, HistoryOK

\* A step of h that clears the dialogue, and commits what it has in hand.
LEMMA ClearedKeeps ==
    ASSUME Inv, UNCHANGED <<standing, broken>>, CatalogueTypeOK', NoPlans' => NoPlans,
           NEW h \in Handlers, Ends(h), Clears(h), state' = "none", data' = NoData
    PROVE  Inv'
<1>1. Leaves(h, Idle)
  BY IdleIs DEF Ends, Leaves
<1>2. DataOK'
  BY NoDataIs DEF DataOK
<1>3. HistoryOK' /\ (swept' \/ ~OthersBusy(h))
  BY ClearsIs
<1>4. Shapely
  BY <1>2, <1>3, InvParts, AwaitedIs DEF Shapely, TypeOK
<1>5. Ready(state)'
  BY ClearedReady
<1> QED
  BY <1>1, <1>3, <1>4, <1>5, StepKeeps DEF Afresh

LEMMA HomeKeeps ==
    ASSUME Inv, UNCHANGED standing, NEW h \in Handlers, NEW w, Home(h, w)
    PROVE  Inv'
<1>1. CatalogueTypeOK' /\ (NoPlans' => NoPlans)
  BY InvParts, CatalogueStays DEF Home
<1> QED
  BY <1>1, ClearedKeeps DEF Home

\* What the data of a dialogue are when it begins.
LEMMA BegunIs ==
    ASSUME data \in Data, NEW d, d.keys \subseteq Keys, NEW p \in Plans \cup {None},
           NEW b, b = Begun(d, p),
           NEW old, old = IF d.clears THEN NoData ELSE data
    PROVE  /\ b \in Data
           /\ b.keys = old.keys \cup d.keys
           /\ b.plan = IF p = None THEN old.plan ELSE p
           /\ b.posts = old.posts
<1>1. old \in Data
  BY NoDataIs
<1>2. b = [old EXCEPT !.keys = old.keys \cup d.keys,
                      !.plan = IF p = None THEN old.plan ELSE p]
  BY <1>1 DEF Begun, Data
<1>3. old.keys \cup d.keys \in SUBSET Keys /\ old.plan \in Plans \cup {None}
  BY <1>1 DEF Data
<1>4. CASE p = None
  <2>1. b = [old EXCEPT !.keys = old.keys \cup d.keys, !.plan = old.plan]
    BY <1>2, <1>4
  <2> QED
    BY <1>1, <1>3, <1>4, <2>1 DEF Data
<1>5. CASE p # None
  <2>1. b = [old EXCEPT !.keys = old.keys \cup d.keys, !.plan = p]
    BY <1>2, <1>5
  <2> QED
    BY <1>1, <1>3, <1>5, <2>1 DEF Data
<1> QED
  BY <1>4, <1>5

\* A dialogue begins, at once or when its row is found.
LEMMA BeginsKeeps ==
    ASSUME Inv, UNCHANGED <<standing, catalogue>>,
           NEW h \in Handlers, NEW w, w.what \in DOMAIN Dialogues,
           NEW p \in Plans \cup {None}, w.what = "plan_edit" <=> p # None,
           Begins(h, w, p), Ends(h)
    PROVE  Inv'
<1> PICK what \in DOMAIN Dialogues : what = w.what
  OBVIOUS
<1> PICK d : d = Dialogues[what]
  OBVIOUS
<1>1. /\ d.clears \in BOOLEAN /\ d.keys \subseteq Keys /\ d.state \in States
      /\ KeptBefore(d.state) \subseteq d.keys
      /\ d.state \notin Further /\ (d.state = "content" => d.clears)
      /\ "selected_plan_id" \in d.keys <=> what = "plan_edit"
      /\ \A c \in Collecting : ChatKey(c) \notin d.keys
  BY DialogueIs
<1>2. /\ state' = d.state /\ data' = Begun(d, p)
      /\ IF d.clears THEN Clears(h) ELSE UNCHANGED <<late, previewed, swept>>
      /\ UNCHANGED broken
  BY DEF Begins
<1> PICK old : old = IF d.clears THEN NoData ELSE data
  OBVIOUS
<1>3. /\ data' \in Data
      /\ data'.keys = old.keys \cup d.keys
      /\ data'.plan = IF p = None THEN old.plan ELSE p
      /\ data'.posts = old.posts
  BY <1>1, <1>2, InvParts, BegunIs
<1>4. Leaves(h, Idle)
  BY EndsLeaves
<1>5. /\ CatalogueTypeOK' /\ (NoPlans' => NoPlans)
      /\ standing' \in {"bootstrap", "helper", "removed"}
  BY InvParts, CatalogueStays DEF TypeOK
<1>6. HistoryOK' /\ (d.clears => swept' \/ ~OthersBusy(h))
  BY <1>1, <1>2, ClearsIs, InvParts DEF HistoryOK
<1>7. DataOK'
  <2>1. /\ old.plan # None <=> "selected_plan_id" \in old.keys
        /\ \A c \in Collecting : old.posts[c] # {} <=> ChatKey(c) \in old.keys
    BY InvParts, NoDataIs DEF DataOK
  <2>2. data'.plan # None <=> "selected_plan_id" \in data'.keys
    BY <1>1, <1>3, <2>1
  <2>3. \A c \in Collecting : data'.posts[c] # {} <=> ChatKey(c) \in data'.keys
    BY <1>1, <1>3, <2>1
  <2> QED
    BY <1>3, <2>2, <2>3 DEF DataOK, ChatKey
<1>8. Shapely
  BY <1>1, <1>2, <1>5, <1>6, <1>7 DEF Shapely
<1>9. Ready(state)'
  <2>1. KeptBefore(state)' = KeptBefore(d.state)
    BY <1>2 DEF KeptBefore
  <2> QED
    BY <1>1, <1>2, <1>3, <2>1 DEF Ready, Further
<1>10. CASE d.clears
  BY <1>4, <1>6, <1>8, <1>9, <1>10, StepKeeps DEF Afresh
<1>11. CASE ~d.clears
  <2>1. Grows /\ NewIsLate
    BY <1>2, <1>3, <1>11 DEF Grows, NewIsLate
  <2>2. Ordered(h, Idle)
    BY <1>1, <1>2, <1>11, IdleIs DEF Ordered, Further
  <2>3. Onward(h, Idle)
    BY <1>9, <2>1, <2>2, IdleIs DEF Onward
  <2> QED
    BY <1>4, <1>8, <2>3, StepKeeps
<1> QED
  BY <1>1, <1>10, <1>11

\* The state that a handler was called for is ready, unless a dialogue was cleared.
LEMMA CalledReady ==
    ASSUME NEW w, Timely(w), w.what \in Answers \ {"done", "menu_done"}
    PROVE  swept \/ Ready(w.what)
  BY AwaitedIs DEF Timely

\* No key is added whose value a dialogue keeps.
SameKeys ==
    /\ "selected_plan_id" \in data'.keys => "selected_plan_id" \in data.keys
    /\ \A c \in Collecting : ChatKey(c) \in data'.keys => ChatKey(c) \in data.keys

\* A step that keeps the catalogue, and only adds to the dialogue.
LEMMA OnKeeps ==
    ASSUME Inv, UNCHANGED <<standing, catalogue, swept>>,
           late \subseteq late', late' \subseteq Posts,
           previewed \subseteq previewed', previewed' \subseteq SUBSET Posts,
           NEW h \in Handlers, NEW x, Leaves(h, x),
           broken' \in BOOLEAN, ~broken', state' \in States,
           data' \in Data, data'.plan = data.plan, data'.posts = data.posts,
           data.keys \subseteq data'.keys, SameKeys,
           swept \/ Ready(state)', swept \/ \A st \in ActsFor(x) : Ready(st)',
           swept \/ Ordered(h, x)
    PROVE  Inv'
<1>1. /\ CatalogueTypeOK' /\ (NoPlans' => NoPlans)
      /\ standing' \in {"bootstrap", "helper", "removed"}
  BY InvParts, CatalogueStays DEF TypeOK
<1>2. HistoryOK'
  BY InvParts DEF HistoryOK
<1>3. DataOK'
  BY InvParts DEF DataOK, ChatKey, SameKeys
<1>4. Shapely
  BY <1>1, <1>2, <1>3 DEF Shapely
<1>5. Grows /\ NewIsLate
  BY DEF Grows, NewIsLate
<1> QED
  BY <1>4, <1>5, StepKeeps DEF Onward

\* What the states after st need of the data, said of the state itself.
LEMMA ReadyNext ==
    ASSUME NEW st, state' = st,
           KeptBefore(st) \subseteq data'.keys, st # "confirm"
    PROVE  Ready(state)'
<1>1. KeptBefore(state)' = KeptBefore(st)
  BY DEF KeptBefore
<1> QED
  BY <1>1 DEF Ready

\* A state that stays is as ready as it was.
LEMMA ReadyStays ==
    ASSUME Inv, Grows, NewIsLate \/ ~GoneOn, UNCHANGED state
    PROVE  swept \/ Ready(state)'
<1>1. swept \/ Ready(state)
  BY InvParts DEF DialogueInv
<1>2. Ready(state)' <=> \E st : st = state /\ Ready(st)'
  BY DEF Ready, Shown, KeptBefore
<1>3. state = "confirm" => NewIsLate
  BY DEF GoneOn, Further
<1> QED
  BY <1>1, <1>2, <1>3, ReadyKept

\* A handler that ends with the dialogue in the state in which it was.
LEMMA EndsOrdered ==
    ASSUME NEW h, UNCHANGED state
    PROVE  Ordered(h, Idle)
  BY IdleIs DEF Ordered, GoneOn, Further

LEMMA FieldKeeps ==
    ASSUME Inv, UNCHANGED standing, NEW h \in Handlers, NEW w, Timely(w), Field(h, w)
    PROVE  Inv'
<1> PICK what \in DOMAIN NextField : what = w.what
  BY DEF Field
<1>1. Leaves(h, Idle)
  BY EndsLeaves DEF Field
<1>2. data' = [data EXCEPT !.keys = data.keys \cup {what}] /\ state' = NextField[what]
  BY DEF Field
<1>3. /\ data' \in Data /\ data'.plan = data.plan /\ data'.posts = data.posts
      /\ data'.keys = data.keys \cup {what}
  BY <1>2, InvParts, KeysIs DEF Data
<1>4. what \in Answers \ {"done", "menu_done"} /\ what # "selected_plan_id"
      /\ \A c \in Collecting : ChatKey(c) # what
  BY FieldNames, AnswerNames DEF ChatKey
<1>5. swept \/ Ready(state)'
  <2> SUFFICES ASSUME ~swept PROVE Ready(state)'
    OBVIOUS
  <2>1. KeptBefore(what) \subseteq data.keys
    BY <1>4, CalledReady DEF Ready
  <2> QED
    BY <1>2, <1>3, <2>1, FieldIs, ReadyNext DEF Further
<1>6. UNCHANGED <<catalogue, swept, late, previewed, broken>>
  BY DEF Field
<1>7. SameKeys /\ data.keys \subseteq data'.keys
  BY <1>3, <1>4 DEF SameKeys
<1>8. Ordered(h, Idle)
  BY <1>2, FieldIs, IdleIs DEF Ordered, Further
<1> QED
  BY <1>1, <1>2, <1>3, <1>5, <1>6, <1>7, <1>8, FieldIs, IdleIs, InvParts, OnKeeps
     DEF HistoryOK

LEMMA ButtonsKeeps ==
    ASSUME Inv, UNCHANGED standing, NEW h \in Handlers, NEW w, Timely(w), Buttons(h, w)
    PROVE  Inv'
<1>1. Leaves(h, Idle)
  BY EndsLeaves DEF Buttons
<1>2. /\ UNCHANGED <<catalogue, swept, late, previewed, broken, data>>
      /\ w.what = "buttons" /\ state' = "target" /\ SameKeys
  BY DEF Buttons, SameKeys
<1>3. "buttons" \in Answers /\ "target" \in States
  BY AnswerNames, AwaitedIs
<1>4. swept \/ Ready("buttons")
  BY <1>2, <1>3, CalledReady
<1>5. swept \/ Ready(state)'
  BY <1>2, <1>4, KeptIs, ReadyNext DEF Ready
<1>6. swept \/ Ordered(h, Idle)
  BY <1>2, IdleIs DEF Timely, Ordered, Further
<1> QED
  BY <1>1, <1>2, <1>3, <1>5, <1>6, IdleIs, InvParts, OnKeeps DEF HistoryOK

\* With /done the broadcast goes on, and what is still in hand is late.
LEMMA DoneKeeps ==
    ASSUME Inv, UNCHANGED standing, NEW h \in Handlers, NEW w, Timely(w), Done(h, w)
    PROVE  Inv'
<1>1. Leaves(h, Idle)
  BY EndsLeaves DEF Done
<1>2. /\ UNCHANGED <<catalogue, swept, previewed, broken, data>>
      /\ w.what \in {"done", "menu_done"} /\ SameKeys
  BY DEF Done, SameKeys
<1>3. {"buttons", "menu_buttons"} \subseteq States /\ w.what \in Answers
      /\ Awaited("done") = "content" /\ Awaited("menu_done") = "menu_content"
      /\ {"content", "menu_content"} \subseteq Collecting
  BY <1>2, AnswerNames, SavingNames, AwaitedIs DEF Collecting
<1>4. \A c \in Collecting : data.posts[c] # {} => ChatKey(c) \in data.keys
  BY InvParts DEF DataOK
<1>5. CASE UNCHANGED <<state, late>>
  <2>1. swept \/ Ready(state)'
    BY <1>2, <1>5, ReadyStays DEF Grows, NewIsLate
  <2> QED
    BY <1>1, <1>2, <1>5, <2>1, IdleIs, InvParts, OnKeeps, EndsOrdered DEF HistoryOK, TypeOK
<1>6. CASE /\ w.what = "done" /\ data.posts["content"] # {}
           /\ state' = "buttons" /\ late' = late \cup InHand(h)
  <2>1. "source_chat_id" \in data.keys
    BY <1>3, <1>4, <1>6 DEF ChatKey
  <2>2. swept \/ Ready(state)'
    BY <1>2, <1>6, <2>1, KeptIs, ReadyNext
  <2>3. InHand(h) \subseteq Posts
    BY InvParts DEF InHand, TypeOK, Complete, Collecting
  <2>4. late' \subseteq Posts
    BY <1>6, <2>3, InvParts DEF HistoryOK
  <2>5. AllLate(h)
    BY <1>6 DEF AllLate, InHand
  <2>6. Ordered(h, Idle)
    BY <1>6, <2>5, IdleIs DEF Ordered, Further
  <2> QED
    BY <1>1, <1>2, <1>3, <1>6, <2>2, <2>4, <2>6, IdleIs, InvParts, OnKeeps DEF HistoryOK
<1>7. CASE /\ w.what = "menu_done" /\ data.posts["menu_content"] # {}
           /\ state' = "menu_buttons" /\ UNCHANGED late
  <2>1. "menu_content_source_chat_id" \in data.keys
    BY <1>3, <1>4, <1>7 DEF ChatKey
  <2>2. swept \/ Ready("menu_content")
    BY <1>3, <1>7 DEF Timely
  <2>3. swept \/ Ready(state)'
    BY <1>2, <1>7, <2>1, <2>2, KeptIs, NeedsIs, SavingNames, ReadyNext DEF Ready
  <2>4. Ordered(h, Idle)
    BY <1>7, IdleIs DEF Ordered, Further
  <2> QED
    BY <1>1, <1>2, <1>3, <1>7, <2>3, <2>4, IdleIs, InvParts, OnKeeps DEF HistoryOK
<1> QED
  BY <1>2, <1>3, <1>5, <1>6, <1>7 DEF Done

LEMMA PreviewKeeps ==
    ASSUME Inv, UNCHANGED standing, NEW h \in Handlers, NEW w, Timely(w), Preview(h, w)
    PROVE  Inv'
<1>1. /\ w.what = "target" /\ w \in Work /\ w.what \in Answers
      /\ UNCHANGED <<catalogue, swept, late, state>>
      /\ data' = [data EXCEPT !.keys = data.keys \cup {"target"}]
  BY AnswerNames DEF Preview, Timely
<1>2. /\ data' \in Data /\ data'.plan = data.plan /\ data'.posts = data.posts
      /\ data'.keys = data.keys \cup {"target"}
  BY <1>1, InvParts, KeysIs DEF Data
<1>3. SameKeys /\ data.keys \subseteq data'.keys
  BY <1>2 DEF SameKeys, ChatKey
<1>4. swept \/ Ready("target")
  BY <1>1, CalledReady
<1>5. swept \/ "source_chat_id" \in data.keys
  BY <1>4, KeptIs DEF Ready
<1>6. /\ data.posts["content"] \in SUBSET Posts
      /\ previewed \subseteq previewed'
      /\ previewed' \subseteq previewed \cup {data.posts["content"]}
  BY InvParts DEF Preview, Collecting
<1>7. previewed' \subseteq SUBSET Posts
  BY <1>6, InvParts DEF HistoryOK
<1>8. broken' \in BOOLEAN /\ ~broken'
  <2>1. swept \in BOOLEAN /\ broken \in BOOLEAN /\ ~broken
    BY InvParts DEF HistoryOK
  <2>2. CASE "source_chat_id" \in data.keys
    BY <2>1, <2>2, Zenon DEF Preview
  <2>3. CASE "source_chat_id" \notin data.keys
    <3>1. broken' = (broken \/ ~swept) /\ swept
      BY <1>5, <2>3 DEF Preview, Fails
    <3> QED
      BY <2>1, <3>1
  <2> QED
    BY <2>2, <2>3
<1>9. Grows /\ NewIsLate
  BY <1>1, <1>2, <1>6 DEF Grows, NewIsLate
<1>10. swept \/ Ready(state)'
  BY <1>1, <1>9, ReadyStays
<1>11. late \subseteq Posts
  BY InvParts DEF HistoryOK
<1>12. CASE "source_chat_id" \in data.keys
  <2>1. Waits(h, w) /\ data.posts["content"] \in previewed'
    BY <1>12 DEF Preview
  <2> PICK x \in Work : /\ work' = [work EXCEPT ![h] = x]
                        /\ x.step = "running" /\ x.what = "target"
    BY <1>1, <2>1, InvParts, WaitsIs
  <2>2. Leaves(h, x)
    BY DEF Leaves, Complete, Collecting
  <2>3. ActsFor(x) = {"confirm"}
    BY ActsForIs
  <2>4. Ready("confirm")'
    <3>1. Shown(data.posts["content"])'
      BY <1>2, <2>1 DEF Shown
    <3>2. KeptBefore("confirm")' = {"source_chat_id", "target"}
      BY SavingNames DEF KeptBefore, Needs
    <3> QED
      BY <1>2, <1>12, <3>1, <3>2 DEF Ready
  <2>5. swept \/ Ordered(h, x)
    BY <1>1 DEF Timely, Ordered, GoneOn, Further
  <2> QED
    BY <1>1, <1>2, <1>3, <1>6, <1>7, <1>8, <1>10, <1>11, <2>2, <2>3, <2>4, <2>5, InvParts,
       OnKeeps DEF TypeOK
<1>13. CASE "source_chat_id" \notin data.keys
  <2>1. Leaves(h, Idle)
    BY <1>13, EndsLeaves DEF Preview, Fails
  <2> QED
    BY <1>1, <1>2, <1>3, <1>6, <1>7, <1>8, <1>10, <1>11, <2>1, IdleIs, InvParts,
       OnKeeps, EndsOrdered DEF TypeOK
<1> QED
  BY <1>12, <1>13

\* A message is collected: it is late unless the broadcast has not gone on.
LEMMA CollectKeeps ==
    ASSUME Inv, UNCHANGED standing, NEW h \in Handlers, NEW w, Timely(w), Collect(h, w)
    PROVE  Inv'
<1> PICK what \in Collecting : what = w.what
  BY DEF Collect
<1>0. Complete(w) /\ w.what \in Collecting
  BY DEF Timely
<1> PICK m \in Posts : m = w.post
  BY <1>0 DEF Complete
<1>1. /\ data' = [data EXCEPT !.posts = [data.posts EXCEPT ![what] = data.posts[what] \cup {m}],
                              !.keys = data.keys \cup {ChatKey(what)}]
      /\ UNCHANGED <<catalogue, state, late, previewed, swept, broken>>
  BY DEF Collect
<1> PICK posts \in [Collecting -> SUBSET Posts] :
            posts = [data.posts EXCEPT ![what] = data.posts[what] \cup {m}]
  BY InvParts
<1>2. /\ posts[what] = data.posts[what] \cup {m}
      /\ \A c \in Collecting \ {what} : posts[c] = data.posts[c]
  BY InvParts
<1>3. ChatKey(what) \in Keys /\ \A c \in Collecting : ChatKey(c) = ChatKey(what) => c = what
  BY KeysIs DEF ChatKey, Collecting
<1>4. /\ data' \in Data /\ data'.plan = data.plan /\ data'.posts = posts
      /\ data'.keys = data.keys \cup {ChatKey(what)}
  BY <1>1, <1>3, InvParts DEF Data
<1>5. DataOK'
  <2>1. data'.plan # None <=> "selected_plan_id" \in data'.keys
    BY <1>4, InvParts DEF DataOK, ChatKey
  <2>2. ASSUME NEW c \in Collecting
        PROVE  data'.posts[c] # {} <=> ChatKey(c) \in data'.keys
    BY <1>2, <1>3, <1>4, InvParts DEF DataOK
  <2>3. \A c \in Collecting : ChatKey(c)' = ChatKey(c)
    BY DEF ChatKey
  <2> QED
    BY <1>4, <2>1, <2>2, <2>3 DEF DataOK
<1>6. HistoryOK'
  BY <1>1, InvParts DEF HistoryOK
<1>7. /\ CatalogueTypeOK' /\ (NoPlans' => NoPlans)
      /\ standing' \in {"bootstrap", "helper", "removed"} /\ state' \in States
  BY <1>1, InvParts, CatalogueStays DEF TypeOK
<1>8. Shapely
  BY <1>5, <1>6, <1>7 DEF Shapely
<1>9. Grows
  BY <1>1, <1>2, <1>4 DEF Grows, Collecting
<1>10. swept \/ ~GoneOn \/ NewIsLate
  BY <1>1, <1>2, <1>4 DEF NewIsLate, Collecting, Timely
<1>11. swept \/ Ready(state)'
  BY <1>1, <1>9, <1>10, ReadyStays
<1>12. Leaves(h, Idle)
  BY EndsLeaves DEF Collect
<1> QED
  BY <1>1, <1>8, <1>9, <1>10, <1>11, <1>12, IdleIs, StepKeeps, EndsOrdered DEF Onward

LEMMA StartKeeps ==
    ASSUME Inv, UNCHANGED standing, NEW h \in Handlers, NEW w, Timely(w), Start(h, w)
    PROVE  Inv'
<1>1. /\ w.what \in DOMAIN Dialogues /\ w.what # "plan_edit"
      /\ Begins(h, w, None) /\ Ends(h) /\ UNCHANGED catalogue
  BY DEF Start, Fetching
<1> QED
  BY <1>1, BeginsKeeps

LEMMA FetchKeeps ==
    ASSUME Inv, UNCHANGED standing, NEW h \in Handlers, NEW w, Timely(w), Fetch(h, w)
    PROVE  Inv'
<1>1. w \in Work /\ w.what \in Fetching /\ Complete(w) /\ Waits(h, w)
      /\ UNCHANGED <<catalogue, dialogue, broken>>
  BY DEF Fetch, Timely
<1> PICK x \in Work :
            /\ work' = [work EXCEPT ![h] = x]
            /\ x.step = "running" /\ x.what = w.what /\ x.plan = w.plan
            /\ x.post = w.post /\ x.posts = w.posts /\ x.seen = w.seen
  BY <1>1, InvParts, WaitsIs
<1>2. Leaves(h, x)
  BY <1>1 DEF Leaves, Complete, Fetching
<1>3. ActsFor(x) = {}
  BY <1>1, SavingNames, ActsForIs DEF Fetching
<1>4. x.what \notin Further \cup {"content"}
  BY <1>1 DEF Fetching, Further
<1> QED
  BY <1>1, <1>2, <1>3, <1>4, InvParts, CatalogueStays, DialogueStays

LEMMA BeginToggleKeeps ==
    ASSUME Inv, UNCHANGED standing, NEW h \in Handlers, NEW w, Timely(w), BeginToggle(h, w)
    PROVE  Inv'
<1>1. /\ w \in Work /\ w.what = "toggle" /\ UNCHANGED <<catalogue, dialogue, broken>>
      /\ data.plan \in Plans \cup {None}
  BY InvParts DEF BeginToggle, Timely, Data
<1>2. CASE data.plan = None
  <2>1. Leaves(h, Idle)
    BY <1>2, EndsLeaves DEF BeginToggle
  <2>2. Idle.what \notin Further \cup {"content"}
    BY IdleIs DEF Further
  <2> QED
    BY <1>1, <2>1, <2>2, IdleIs, InvParts, CatalogueStays, DialogueStays
<1>3. CASE data.plan # None
  <2> PICK n \in BOOLEAN : n = (data.plan \in linked)
    BY (data.plan \in linked) \in BOOLEAN, Zenon
  <2>1. PICK y : y = [w EXCEPT !.plan = data.plan, !.seen = n]
    OBVIOUS
  <2>2. y \in Work /\ y.what = "toggle" /\ y.plan \in Plans
    BY <1>1, <1>3, <2>1 DEF Work
  <2>3. Waits(h, y)
    BY <1>3, <2>1, Zenon DEF BeginToggle
  <2> PICK x \in Work :
              /\ work' = [work EXCEPT ![h] = x]
              /\ x.step = "running" /\ x.what = "toggle" /\ x.plan \in Plans
    BY <2>2, <2>3, InvParts, WaitsIs
  <2>4. Leaves(h, x)
    BY DEF Leaves, Complete, Collecting
  <2>5. ActsFor(x) = {}
    BY SavingNames, ActsForIs
  <2>6. x.what \notin Further \cup {"content"}
    BY DEF Further
  <2> QED
    BY <1>1, <2>4, <2>5, <2>6, InvParts, CatalogueStays, DialogueStays
<1> QED
  BY <1>2, <1>3

\* What is saved is what was shown: the handler takes it from the dialogue.
LEMMA BeginSaveKeeps ==
    ASSUME Inv, UNCHANGED standing, NEW h \in Handlers, NEW w, Timely(w), BeginSave(h, w)
    PROVE  Inv'
<1>1. w \in Work /\ w.what \in Saving /\ UNCHANGED <<catalogue, dialogue>>
  BY DEF BeginSave, Timely
<1>2. /\ w.what \in Answers \ {"done", "menu_done"} /\ "target" \notin Saving
      /\ w.what \notin Collecting \cup {"card", "plan_edit", "toggle", "landing_edit"}
      /\ w.what # "content"
  BY <1>1, SavingNames, AnswerNames DEF Collecting
<1>3. swept \/ Ready(w.what)
  BY <1>2, CalledReady
<1>4. swept \/ Needs[w.what] \subseteq data.keys
  BY <1>1, <1>3, KeptIs DEF Ready
<1>5. CASE Needs[w.what] \subseteq data.keys
  <2> PICK n \in BOOLEAN : n = NoPlans
    BY DEF NoPlans
  <2>1. Contents(w.what) \in SUBSET Posts
    BY InvParts DEF Contents, Collecting
  <2>2. PICK y : y = [w EXCEPT !.posts = Contents(w.what), !.seen = n]
    OBVIOUS
  <2>3. y \in Work /\ y.what = w.what /\ y.posts = Contents(w.what) /\ y.seen = n
    BY <1>1, <2>1, <2>2 DEF Work
  <2>4. Waits(h, y) /\ UNCHANGED broken
    BY <1>5, <2>2, Zenon DEF BeginSave
  <2> PICK x \in Work :
              /\ work' = [work EXCEPT ![h] = x]
              /\ x.step = "running" /\ x.what = w.what
              /\ x.posts = Contents(w.what) /\ x.seen = n
    BY <2>3, <2>4, InvParts, WaitsIs
  <2>5. CatalogueTypeOK' /\ (NoPlans' <=> NoPlans)
    BY <1>1, InvParts, CatalogueStays
  <2>6. ASSUME x.what = "confirm" PROVE swept' \/ ShownBy(x.posts)
    BY <1>1, <1>3, <2>6 DEF Ready, Shown, ShownBy, Contents, dialogue
  <2>7. Leaves(h, x)
    BY <1>2, <2>5, <2>6 DEF Leaves, Complete
  <2>8. ActsFor(x) = {w.what}
    BY <1>1, ActsForIs
  <2>9. swept \/ /\ state = "content" => x.what \notin Further
                 /\ x.what \in Further => GoneOn
    BY DEF Timely
  <2> QED
    BY <1>1, <1>2, <1>3, <2>4, <2>5, <2>7, <2>8, <2>9, DialogueStays
<1>6. CASE ~(Needs[w.what] \subseteq data.keys)
  <2>1. Leaves(h, Idle)
    BY <1>6, EndsLeaves DEF BeginSave, Fails
  <2>2. UNCHANGED broken
    <3>1. swept \in BOOLEAN /\ broken \in BOOLEAN /\ ~broken
      BY InvParts DEF HistoryOK
    <3>2. broken' = (broken \/ ~swept) /\ swept
      BY <1>4, <1>6 DEF BeginSave, Fails
    <3> QED
      BY <3>1, <3>2
  <2>3. Idle.what \notin Further \cup {"content"}
    BY IdleIs DEF Further
  <2> QED
    BY <1>1, <2>1, <2>2, <2>3, IdleIs, InvParts, CatalogueStays, DialogueStays
<1> QED
  BY <1>5, <1>6

LEMMA DownloadKeeps ==
    ASSUME Inv, UNCHANGED standing, NEW h \in Handlers, NEW w, Timely(w), Download(h, w)
    PROVE  Inv'
<1>1. /\ w \in Work /\ Complete(w) /\ w.what = "landing_html"
      /\ UNCHANGED <<catalogue, dialogue, broken>>
  BY DEF Download, Timely
<1>2. "landing_html" \in Saving /\ "landing_html" \in Answers \ {"done", "menu_done"}
      /\ "landing_html" \notin Further \cup {"content"}
  BY SavingNames, AnswerNames DEF Further
<1> PICK x \in Work : /\ work' = [work EXCEPT ![h] = x]
                      /\ x.step = "loading" /\ x.what = "landing_html"
  <2> DEFINE y == [w EXCEPT !.step = "loading"]
  <2>1. y \in Work /\ y.step = "loading" /\ y.what = "landing_html"
    BY <1>1 DEF Work
  <2> QED
    BY <2>1 DEF Download
<1>3. Leaves(h, x)
  BY DEF Leaves, Complete, Collecting
<1>4. ActsFor(x) = {"landing_html"}
  BY <1>2, ActsForIs
<1>5. swept \/ Ready("landing_html")
  BY <1>1, <1>2, CalledReady
<1> QED
  BY <1>1, <1>2, <1>3, <1>4, <1>5, InvParts, CatalogueStays, DialogueStays

LEMMA RunKeeps ==
    ASSUME Inv, UNCHANGED standing, NEW h \in Handlers, NEW w, Timely(w), Run(h, w)
    PROVE  Inv'
  BY HomeKeeps, StartKeeps, FetchKeeps, FieldKeeps, CollectKeeps, DoneKeeps, ButtonsKeeps,
     PreviewKeeps, BeginToggleKeeps, BeginSaveKeeps, DownloadKeeps DEF Run

-----------------------------------------------------------------------------
(***************************************************************************)
(* Updates                                                                 *)
(***************************************************************************)
\* An update that has just been matched is timely, and so is one that was matched
\* before, as long as no dialogue was cleared meanwhile.
LEMMA MatchedIsTimely ==
    ASSUME Inv, NEW what \in Pressed \cup Answers,
           NEW p \in Plans \cup {None}, NEW m \in Posts \cup {None},
           what \in {"card", "plan_edit"} => p \in Plans,
           what \in Collecting => m \in Posts, what = "landing_edit" => p = None,
           Matches(what)
    PROVE  /\ Timely(Update(what, p, m))
           /\ Update(what, p, m).step = "asked"
           /\ what = "content" => state = "content"
<1> PICK u \in Work : /\ u = Update(what, p, m) /\ u.step = "asked" /\ u.what = what
                      /\ u.plan = p /\ u.post = m
  BY UpdateIs
<1>1. Complete(u)
  BY DEF Complete
<1>2. what \in Answers => state = Awaited(what)
  BY AnswerNames DEF Matches
<1>3. swept \/ Ready(state)
  BY InvParts DEF DialogueInv
<1>4. Further \cup {"content"} \subseteq Answers \ {"done", "menu_done"}
  BY AnswerNames, SavingNames DEF Further, Collecting
<1>5. what \in Further \cup {"content"} => state = what
  BY <1>2, <1>4, AwaitedIs
<1>6. state = "content" => what \notin Further
  BY <1>5 DEF Further
<1>7. what \in Further => GoneOn
  BY <1>5 DEF GoneOn
<1>8. what = "content" => swept \/ ~GoneOn
  BY <1>5, InvParts DEF DialogueInv, GoneOn, Further
<1> QED
  BY <1>1, <1>2, <1>3, <1>5, <1>6, <1>7, <1>8 DEF Timely

\* So is one that was matched before.
LEMMA WaitingIsTimely ==
    ASSUME Inv, NEW h \in Handlers, work[h].step \in {"asked", "loading"}
    PROVE  Timely(work[h])
<1>1. work[h] \in Work /\ Complete(work[h])
  BY InvParts DEF TypeOK
<1>2. ASSUME work[h].what \in Answers PROVE swept \/ Ready(Awaited(work[h].what))
  <2>1. CASE work[h].step = "asked"
    <3>1. ActsFor(work[h]) = {Awaited(work[h].what)}
      BY <1>1, <1>2, <2>1, ActsForIs
    <3> QED
      BY <3>1, InvParts DEF DialogueInv
  <2>2. CASE work[h].step = "loading"
    <3>1. work[h].what = "landing_html"
      BY <1>1, <2>2 DEF Complete
    <3>2. "landing_html" \in Saving /\ "landing_html" \in Answers \ {"done", "menu_done"}
      BY SavingNames, AnswerNames
    <3>3. ActsFor(work[h]) = {"landing_html"} /\ Awaited("landing_html") = "landing_html"
      BY <1>1, <2>2, <3>1, <3>2, ActsForIs, AwaitedIs
    <3> QED
      BY <3>1, <3>3, InvParts DEF DialogueInv
  <2> QED
    BY <2>1, <2>2
<1>3. swept \/ /\ state = "content" => work[h].what \notin Further
               /\ work[h].what \in Further => GoneOn
               /\ work[h].what = "content" /\ GoneOn => work[h].post \in late
  BY InvParts DEF DialogueInv, GoneOn
<1> QED
  BY <1>1, <1>2, <1>3 DEF Timely

LEMMA ArriveKeeps ==
    ASSUME Inv, NEW h \in Handlers, NEW what \in Pressed \cup Answers,
           NEW p \in Plans \cup {None}, NEW m \in Posts \cup {None},
           what \in {"card", "plan_edit"} => p \in Plans,
           what \in Collecting => m \in Posts, what = "landing_edit" => p = None,
           Arrive(h, what, p, m)
    PROVE  Inv'
<1> PICK u : u = Update(what, p, m) /\ u.what = what
  BY UpdateIs
<1>1. /\ Timely(u) /\ u.step = "asked" /\ UNCHANGED standing
      /\ what = "content" => state = "content"
  BY MatchedIsTimely DEF Arrive
<1>2. CASE standing = "bootstrap"
  BY <1>1, <1>2, RunKeeps DEF Arrive
<1>3. CASE standing # "bootstrap"
  <2>1. /\ work' = [work EXCEPT ![h] = u]
        /\ UNCHANGED <<catalogue, dialogue, broken>>
    BY <1>3 DEF Arrive
  <2>2. u \in Work /\ Complete(u)
    BY <1>1 DEF Timely
  <2>3. Leaves(h, u)
    BY <1>1, <2>1, <2>2 DEF Leaves
  <2>4. swept \/ \A st \in ActsFor(u) : Ready(st)
    BY <1>1, <2>2, ActsForIs DEF Timely
  <2>5. swept \/ /\ state = "content" => u.what \notin Further
                 /\ u.what \in Further => GoneOn
    BY <1>1 DEF Timely
  <2> QED
    BY <1>1, <2>1, <2>3, <2>4, <2>5, InvParts, CatalogueStays, DialogueStays
<1> QED
  BY <1>2, <1>3

LEMMA ArrivalsKeep ==
    ASSUME Inv, NEW h \in Handlers, Arrivals(h)
    PROVE  Inv'
<1>1. /\ {"card", "plan_edit"} \subseteq Pressed /\ Collecting \subseteq Answers
      /\ {"card", "plan_edit"} \cap Collecting = {} /\ "landing_edit" \notin Collecting
  BY DialogueNames, AnswerNames DEF Pressed, Collecting
<1>2. ASSUME NEW what \in {"card", "plan_edit"}, NEW p \in Plans, Arrive(h, what, p, None)
      PROVE  Inv'
  BY <1>1, <1>2, ArriveKeeps
<1>3. ASSUME NEW what \in Collecting, NEW m \in Posts, Arrive(h, what, None, m)
      PROVE  Inv'
  BY <1>1, <1>3, ArriveKeeps
<1>4. ASSUME NEW what \in (Pressed \cup Answers) \ ({"card", "plan_edit"} \cup Collecting),
             Arrive(h, what, None, None)
      PROVE  Inv'
  BY <1>4, ArriveKeeps
<1> QED
  BY <1>2, <1>3, <1>4 DEF Arrivals

LEMMA AdmitKeeps ==
    ASSUME Inv, NEW h \in Handlers, Admit(h)
    PROVE  Inv'
<1>1. work[h].step = "asked" /\ UNCHANGED standing /\ Run(h, work[h])
  BY DEF Admit
<1> PICK w : w = work[h]
  OBVIOUS
<1>2. Timely(w) /\ Run(h, w)
  BY <1>1, WaitingIsTimely
<1> QED
  BY <1>1, <1>2, RunKeeps

\* A handler that ends with the dialogue as it was.
LEMMA EndsKeeps ==
    ASSUME Inv, NEW h \in Handlers, Ends(h),
           UNCHANGED <<standing, dialogue, broken>>,
           CatalogueTypeOK', NoPlans' => NoPlans
    PROVE  Inv'
<1>1. Idle.what \notin Further \cup {"content"}
  BY IdleIs DEF Further
<1> QED
  BY <1>1, EndsLeaves, IdleIs, DialogueStays

-----------------------------------------------------------------------------
(***************************************************************************)
(* The handlers, after the await                                           *)
(***************************************************************************)
LEMMA DownloadedKeeps ==
    ASSUME Inv, NEW h \in Handlers, Downloaded(h)
    PROVE  Inv'
<1>1. work[h].step = "loading" /\ UNCHANGED standing /\ BeginSave(h, work[h])
  BY DEF Downloaded
<1> PICK w : w = work[h]
  OBVIOUS
<1>2. Timely(w) /\ BeginSave(h, w)
  BY <1>1, WaitingIsTimely
<1> QED
  BY <1>1, <1>2, BeginSaveKeeps

\* The card of a tariff is shown: it is the one that the dialogue is about.
LEMMA ShowKeeps ==
    ASSUME Inv, NEW h \in Handlers, Show(h)
    PROVE  Inv'
<1> PICK p \in Plans : p = work[h].plan
  BY InvParts DEF Show, Running, TypeOK, Complete
<1>1. UNCHANGED <<catalogue, standing, state, late, previewed, swept, broken>> /\ Ends(h)
  BY DEF Show
<1>2. CASE plan[p] # "active"
  BY <1>1, <1>2, InvParts, CatalogueStays, EndsKeeps DEF Show, dialogue
<1>3. CASE plan[p] = "active"
  <2>1. data' = [data EXCEPT !.plan = p, !.keys = data.keys \cup {"selected_plan_id"}]
    BY <1>3 DEF Show
  <2>2. /\ data' \in Data /\ data'.plan = p /\ data'.posts = data.posts
        /\ data'.keys = data.keys \cup {"selected_plan_id"}
    BY <2>1, InvParts, KeysIs DEF Data
  <2>3. DataOK'
    BY <2>2, InvParts, PanelAssumption DEF DataOK, ChatKey
  <2>4. HistoryOK'
    BY <1>1, InvParts DEF HistoryOK
  <2>5. Shapely
    BY <1>1, <2>3, <2>4, InvParts, CatalogueStays DEF Shapely, TypeOK
  <2>6. Grows /\ NewIsLate
    BY <1>1, <2>2 DEF Grows, NewIsLate
  <2>7. swept \/ Ready(state)'
    BY <1>1, <2>6, ReadyStays
  <2> QED
    BY <1>1, <2>5, <2>6, <2>7, EndsLeaves, IdleIs, StepKeeps, EndsOrdered DEF Onward
<1> QED
  BY <1>2, <1>3

LEMMA OpenKeeps ==
    ASSUME Inv, NEW h \in Handlers, Open(h)
    PROVE  Inv'
<1> PICK w \in Work : w = work[h]
  BY InvParts DEF TypeOK
<1>1. /\ w.what \in {"plan_edit", "landing_edit"} /\ Complete(w)
      /\ Begins(h, w, w.plan) /\ Ends(h) /\ UNCHANGED <<catalogue, standing>>
  BY InvParts DEF Open, Running, TypeOK
<1>2. w.plan \in Plans \cup {None} /\ (w.what = "plan_edit" <=> w.plan # None)
  BY <1>1, PanelAssumption DEF Work, Complete
<1>3. w.what \in DOMAIN Dialogues
  BY <1>1, DialogueNames
<1> QED
  BY <1>1, <1>2, <1>3, BeginsKeeps

LEMMA AskToConfirmKeeps ==
    ASSUME Inv, NEW h \in Handlers, AskToConfirm(h)
    PROVE  Inv'
<1>1. /\ UNCHANGED <<standing, catalogue, swept, late, previewed, broken, data>>
      /\ state' = "confirm" /\ Ends(h) /\ SameKeys
      /\ work[h].step = "running" /\ work[h].what = "target"
  BY DEF AskToConfirm, Running, SameKeys
<1>2. work[h] \in Work
  BY InvParts DEF TypeOK
<1>3. swept \/ Ready("confirm")
  BY <1>1, <1>2, ActsForIs, InvParts DEF DialogueInv
<1>4. swept \/ Ready(state)'
  BY <1>1, <1>3 DEF Ready, Shown, KeptBefore
<1>5. "confirm" \in States
  BY AwaitedIs, AnswerNames, SavingNames
<1>6. Ordered(h, Idle)
  BY <1>1, IdleIs DEF Ordered, GoneOn, Further
<1> QED
  BY <1>1, <1>4, <1>5, <1>6, EndsLeaves, IdleIs, InvParts, OnKeeps DEF HistoryOK

-----------------------------------------------------------------------------
(***************************************************************************)
(* The catalogue                                                           *)
(***************************************************************************)
\* What holds of the tariffs.
Shop == CatalogueTypeOK /\ DefaultPlanStands

LEMMA InsertKeeps ==
    ASSUME CatalogueTypeOK, NEW first \in BOOLEAN, NEW p \in RowFor(first), InsertPlan(p)
    PROVE  /\ CatalogueTypeOK' /\ ~NoPlans'
           /\ Shop /\ (NoPlans => first) => Shop'
<1>1. p \in Plans /\ (p = DefaultPlan <=> first) /\ plan[p] = "none"
  BY DEF RowFor, Known
<1>2. plan' = [plan EXCEPT ![p] = "active"] /\ linked' = linked /\ served' = served
  BY DEF InsertPlan
<1>3. CatalogueTypeOK' /\ ~NoPlans'
  BY <1>1, <1>2 DEF CatalogueTypeOK, NoPlans, Known
<1>4. ASSUME Shop, NoPlans => first PROVE plan'[DefaultPlan] = "active"
  BY <1>1, <1>2, <1>4, CatalogueAssumption DEF Shop, DefaultPlanStands, CatalogueTypeOK
<1> QED
  BY <1>3, <1>4 DEF Shop, DefaultPlanStands

LEMMA CatalogueMovesKeep ==
    ASSUME CatalogueTypeOK, CatalogueMoves
    PROVE  CatalogueTypeOK' /\ (NoPlans' => NoPlans) /\ (Shop => Shop')
<1>1. ASSUME NEW p \in RowFor(NoPlans), InsertPlan(p)
      PROVE  CatalogueTypeOK' /\ (NoPlans' => NoPlans) /\ (Shop => Shop')
  <2> PICK first \in BOOLEAN : first = NoPlans
    BY DEF NoPlans
  <2>1. p \in RowFor(first)
    BY <1>1
  <2> QED
    BY <1>1, <2>1, InsertKeeps
<1>2. ASSUME NEW p \in Plans, ArchivePlan(p) \/ RestorePlan(p)
      PROVE  CatalogueTypeOK' /\ (NoPlans' => NoPlans) /\ (Shop => Shop')
  <2>1. /\ \/ plan' = [plan EXCEPT ![p] = "archived"] /\ p # DefaultPlan
           \/ plan' = [plan EXCEPT ![p] = "active"]
        /\ linked' = linked /\ served' = served
        /\ plan[p] # "none"
    BY <1>2 DEF ArchivePlan, RestorePlan, MayArchive, Known
  <2>2. CatalogueTypeOK' /\ ~NoPlans' /\ ~NoPlans
    BY <2>1 DEF CatalogueTypeOK, NoPlans, Known
  <2>3. Shop => DefaultPlanStands'
    BY <2>1, <2>2, CatalogueAssumption DEF Shop, DefaultPlanStands, CatalogueTypeOK
  <2> QED
    BY <2>2, <2>3 DEF Shop
<1>3. ASSUME RegisterResource \/ DeactivateResource
      PROVE  CatalogueTypeOK' /\ (NoPlans' => NoPlans) /\ (Shop => Shop')
  BY <1>3 DEF RegisterResource, DeactivateResource, Shop, CatalogueTypeOK,
              DefaultPlanStands, NoPlans, Known
<1> QED
  BY <1>1, <1>2, <1>3 DEF CatalogueMoves

LEMMA ToggledKeeps ==
    ASSUME CatalogueTypeOK, NEW p \in Plans, NEW exists \in BOOLEAN, Toggled(p, exists)
    PROVE  CatalogueTypeOK' /\ (NoPlans' => NoPlans) /\ (Shop => Shop')
<1>1. plan' = plan /\ served' = served /\ linked' \subseteq linked \cup {p}
  BY DEF Toggled
<1> QED
  BY <1>1 DEF Shop, CatalogueTypeOK, DefaultPlanStands, NoPlans, Known

\* What the saving of w does to the tariffs.
LEMMA SavesKeeps ==
    ASSUME CatalogueTypeOK, NEW w \in Work, Saves(w)
    PROVE  /\ CatalogueTypeOK' /\ (NoPlans' => NoPlans)
           /\ Shop /\ (w.what = "plan_duration" /\ NoPlans => w.seen) => Shop'
<1>1. CASE UNCHANGED catalogue
  BY <1>1, CatalogueStays DEF Shop, DefaultPlanStands, catalogue
<1>2. CASE ~UNCHANGED catalogue
  <2>1. w.what = "plan_duration" /\ \E p \in RowFor(w.seen) : InsertPlan(p)
    BY <1>2 DEF Saves
  <2>2. w.seen \in BOOLEAN
    BY DEF Work
  <2> QED
    BY <2>1, <2>2, InsertKeeps
<1> QED
  BY <1>1, <1>2

LEMMA CommitToggleKeeps ==
    ASSUME Inv, NEW h \in Handlers, CommitToggle(h)
    PROVE  Inv' /\ (Shop => Shop')
<1> PICK w \in Work : w = work[h]
  BY InvParts DEF TypeOK, CommitToggle
<1>1. /\ w.plan \in Plans /\ w.seen \in BOOLEAN /\ Toggled(w.plan, w.seen)
      /\ Ends(h) /\ UNCHANGED <<standing, dialogue, broken>>
  BY InvParts DEF CommitToggle, Running, TypeOK, Complete, Work
<1>2. CatalogueTypeOK' /\ (NoPlans' => NoPlans) /\ (Shop => Shop')
  BY <1>1, InvParts, ToggledKeeps
<1> QED
  BY <1>1, <1>2, EndsKeeps

\* What was taken from the dialogue is saved, and the dialogue is cleared.
LEMMA CommitSaveKeeps ==
    ASSUME Inv, NEW h \in Handlers, CommitSave(h)
    PROVE  Inv' /\ (Shop => Shop')
<1> PICK w \in Work : w = work[h]
  BY InvParts DEF TypeOK, CommitSave
<1>1. /\ w.step = "running" /\ w.what \in Saving /\ Saves(w) /\ Ends(h) /\ Clears(h)
      /\ state' = "none" /\ data' = NoData /\ UNCHANGED <<standing, broken>>
  BY DEF CommitSave
<1>2. w.what = "plan_duration" /\ NoPlans => w.seen
  BY <1>1 DEF Inv, TariffInv, Running
<1>3. CatalogueTypeOK' /\ (NoPlans' => NoPlans) /\ (Shop => Shop')
  BY <1>1, <1>2, InvParts, SavesKeeps
<1> QED
  BY <1>1, <1>3, ClearedKeeps

-----------------------------------------------------------------------------
(***************************************************************************)
(* All steps                                                               *)
(***************************************************************************)
\* A step that no handler takes.
LEMMA NobodyMoves ==
    ASSUME Inv, CatalogueTypeOK', NoPlans' => NoPlans,
           standing' \in {"bootstrap", "helper", "removed"},
           UNCHANGED <<dialogue, work, broken>>
    PROVE  Inv'
<1>1. TypeOK'
  BY InvParts DEF TypeOK, DataIsThere, dialogue, Data, ChatKey, Complete
<1>2. \A st : Ready(st)' <=> Ready(st)
  BY DEF Ready, Shown, dialogue, KeptBefore
<1>3. DialogueInv'
  <2>1. \A h \in Handlers : ActsFor(work[h])' = ActsFor(work[h])
    BY DEF ActsFor
  <2>2. (Ready(state)' <=> Ready(state)) /\ (GoneOn' <=> GoneOn)
    BY <1>2 DEF dialogue, GoneOn
  <2> QED
    BY <1>2, <2>1, <2>2, InvParts DEF DialogueInv, dialogue
<1>4. TariffInv' /\ PreviewedIsSent'
  BY DEF Inv, TariffInv, PreviewedIsSent, Running, Shown, dialogue
<1> QED
  BY <1>1, <1>3, <1>4 DEF Inv

\* The process starts again, without dialogues and without handlers.
LEMMA RestartKeeps ==
    ASSUME Inv, Restart
    PROVE  Inv'
<1>1. /\ work' = [h \in Handlers |-> Idle] /\ state' = "none" /\ data' = NoData
      /\ late' = {} /\ previewed' = {} /\ swept' = FALSE
      /\ UNCHANGED <<catalogue, standing, broken>>
  BY DEF Restart
<1>2. DataOK'
  BY <1>1, NoDataIs DEF DataOK
<1>3. HistoryOK'
  BY <1>1, InvParts DEF HistoryOK
<1>4. \A h \in Handlers : work'[h] = Idle
  BY <1>1
<1>5. TypeOK'
  <2>1. \A h \in Handlers : Complete(work[h])'
    BY <1>4, IdleIs DEF Complete
  <2>2. CatalogueTypeOK'
    BY <1>1, InvParts, CatalogueStays
  <2>3. work' \in [Handlers -> Work]
    BY <1>1, IdleIs
  <2>4. state' \in States /\ standing' \in {"bootstrap", "helper", "removed"}
    BY <1>1, AwaitedIs, InvParts DEF TypeOK
  <2> QED
    BY <1>2, <1>3, <2>1, <2>2, <2>3, <2>4 DEF TypeOK, DataIsThere, DataOK, HistoryOK
<1>6. DialogueInv'
  <2>1. Ready(state)'
    BY <1>1, ClearedReady
  <2>2. \A h \in Handlers : ActsFor(work[h])' = {}
    <3>1. \A h \in Handlers : ActsFor(work[h])' = ActsFor(work'[h])
      BY DEF ActsFor
    <3> QED
      BY <1>4, <3>1, IdleIs
  <2> QED
    BY <1>1, <1>4, <2>1, <2>2, IdleIs DEF DialogueInv, Further
<1>7. TariffInv' /\ PreviewedIsSent'
  BY <1>4, IdleIs DEF TariffInv, PreviewedIsSent, Running
<1> QED
  BY <1>5, <1>6, <1>7 DEF Inv

\* No handler touches the catalogue before it commits.
LEMMA RunLeavesCatalogue ==
    ASSUME NEW h, NEW w, Run(h, w)
    PROVE  UNCHANGED catalogue
  BY DEF Run, Home, Start, Fetch, Field, Collect, Done, Buttons, Preview, BeginToggle,
         BeginSave, Download

LEMMA ShopStays ==
    ASSUME Shop, UNCHANGED catalogue
    PROVE  Shop'
  BY DEF Shop, CatalogueTypeOK, DefaultPlanStands, NoPlans, Known, catalogue

LEMMA HandlerKeeps ==
    ASSUME Inv, NEW h \in Handlers,
           \/ Arrivals(h) \/ Admit(h) \/ Refuse(h) \/ Downloaded(h) \/ Show(h) \/ Open(h)
           \/ GiveUp(h) \/ AskToConfirm(h)
    PROVE  Inv' /\ (Shop => Shop')
<1>1. CASE Arrivals(h)
  <2>1. ASSUME NEW what, NEW p, NEW m, Arrive(h, what, p, m) PROVE UNCHANGED catalogue
    BY <2>1, RunLeavesCatalogue DEF Arrive
  <2>2. UNCHANGED catalogue
    BY <1>1, <2>1 DEF Arrivals
  <2> QED
    BY <1>1, <2>2, ArrivalsKeep, ShopStays
<1>2. CASE Admit(h)
  <2>1. UNCHANGED catalogue
    BY <1>2, RunLeavesCatalogue DEF Admit
  <2> QED
    BY <1>2, <2>1, AdmitKeeps, ShopStays
<1>3. CASE Refuse(h) \/ GiveUp(h)
  <2>1. Ends(h) /\ UNCHANGED <<catalogue, standing, dialogue, broken>>
    BY <1>3 DEF Refuse, GiveUp
  <2> QED
    BY <2>1, InvParts, CatalogueStays, EndsKeeps, ShopStays
<1>4. CASE Show(h)
  BY <1>4, ShowKeeps, ShopStays DEF Show
<1>5. CASE Open(h)
  BY <1>5, OpenKeeps, ShopStays DEF Open
<1>6. CASE AskToConfirm(h)
  BY <1>6, AskToConfirmKeeps, ShopStays DEF AskToConfirm
<1>7. CASE Downloaded(h)
  BY <1>7, DownloadedKeeps, ShopStays DEF Downloaded, BeginSave
<1> QED
  BY <1>1, <1>2, <1>3, <1>4, <1>5, <1>6, <1>7

LEMMA InvStep == Inv /\ [Next]_vars => Inv' /\ (Shop => Shop')
<1> SUFFICES ASSUME Inv, [Next]_vars PROVE Inv' /\ (Shop => Shop')
  OBVIOUS
<1>1. ASSUME NEW h \in Handlers,
             \/ Arrivals(h) \/ Admit(h) \/ Refuse(h) \/ Downloaded(h) \/ Show(h)
             \/ Open(h) \/ GiveUp(h) \/ AskToConfirm(h)
      PROVE  Inv' /\ (Shop => Shop')
  BY <1>1, HandlerKeeps
<1>2. ASSUME NEW h \in Handlers, CommitToggle(h) \/ CommitSave(h)
      PROVE  Inv' /\ (Shop => Shop')
  BY <1>2, CommitToggleKeeps, CommitSaveKeeps
<1>3. CASE Meanwhile
  <2>1. CatalogueMoves /\ UNCHANGED <<standing, dialogue, work, broken>>
    BY <1>3 DEF Meanwhile
  <2>2. CatalogueTypeOK' /\ (NoPlans' => NoPlans) /\ (Shop => Shop')
    BY <2>1, InvParts, CatalogueMovesKeep
  <2> QED
    BY <2>1, <2>2, InvParts, NobodyMoves DEF TypeOK
<1>4. CASE ChangeRights
  <2>1. /\ UNCHANGED catalogue /\ UNCHANGED <<dialogue, work, broken>>
        /\ standing' \in {"bootstrap", "helper", "removed"}
    BY <1>4 DEF ChangeRights
  <2> QED
    BY <2>1, InvParts, CatalogueStays, NobodyMoves, ShopStays
<1>5. CASE Restart
  BY <1>5, RestartKeeps, ShopStays DEF Restart
<1>6. CASE UNCHANGED vars
  <2>1. UNCHANGED catalogue /\ UNCHANGED <<standing, dialogue, work, broken>>
    BY <1>6 DEF vars
  <2> QED
    BY <2>1, InvParts, CatalogueStays, NobodyMoves, ShopStays DEF TypeOK
<1> QED
  BY <1>1, <1>2, <1>3, <1>4, <1>5, <1>6 DEF Next

LEMMA InvInit == Init => Inv /\ Shop
<1> SUFFICES ASSUME Init PROVE Inv /\ Shop
  OBVIOUS
<1>1. Shop
  BY CatalogueAssumption
     DEF Init, CatalogueInit, Shop, CatalogueTypeOK, DefaultPlanStands, NoPlans, Known
<1>2. DataOK
  BY NoDataIs DEF Init, DataOK
<1>3. work = [h \in Handlers |-> Idle] /\ \A h \in Handlers : work[h] = Idle
  BY DEF Init
<1>4. TypeOK
  BY <1>1, <1>2, <1>3, IdleIs, AwaitedIs DEF Init, Shop, TypeOK, DataIsThere, DataOK
<1>5. DialogueInv
  <2>1. Ready(state)
    BY KeptIs DEF Init, Ready
  <2> QED
    BY <1>3, <2>1, IdleIs DEF DialogueInv, Further
<1>6. TariffInv /\ PreviewedIsSent
  BY <1>3, IdleIs DEF TariffInv, PreviewedIsSent, Running
<1> QED
  BY <1>1, <1>4, <1>5, <1>6 DEF Inv

-----------------------------------------------------------------------------
(***************************************************************************)
(* The theorems                                                            *)
(***************************************************************************)
\* Whatever an administrator does with two, three or more updates in hand, in every
\* order of their handlers, no handler misses what an earlier step of its dialogue has
\* kept, unless the dialogue was begun or cleared while another handler was at work.
THEOREM PanelIsSound == Spec => []Inv
  BY InvInit, InvStep, PTL DEF Spec

\* A broadcast is queued as it was shown to the administrator.  Two things are not
\* claimed: messages that other handlers had in hand when /done was handled may be
\* queued unshown, and so may all of a dialogue that was begun or cleared while a
\* handler of the last one was at work.
THEOREM WhatIsSentWasShown == Spec => []PreviewedIsSent
<1>1. Inv => PreviewedIsSent
  BY DEF Inv
<1> QED
  BY <1>1, PanelIsSound, PTL

\* Once there are tariffs the default one is for sale: whoever creates, archives and
\* restores tariffs at the same time.
THEOREM DefaultPlanAlwaysStands == Spec => []DefaultPlanStands
<1>1. Shop => DefaultPlanStands
  BY DEF Shop
<1> QED
  BY <1>1, InvInit, InvStep, PTL DEF Spec

=============================================================================
