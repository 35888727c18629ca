-------------------------------- MODULE Panel --------------------------------
(***************************************************************************)
(* The administrator's panel: bot/admin_router.py, one administrator and   *)
(* her dialogues, with what the other administrators do to the catalogue.  *)
(*                                                                         *)
(* Telegram's updates come by webhook, and each is handled on its own: a   *)
(* handler is chosen by the dialogue's state when the update arrives, then *)
(* asks the database whether the sender is an administrator, and then runs *)
(* up to its next await.  The store of the dialogues (aiogram's memory     *)
(* storage, with no isolation of events) never waits, so that between two  *)
(* awaits a handler is not disturbed.  An update may be delivered twice.   *)
(***************************************************************************)
EXTENDS Catalogue

CONSTANTS
    Posts,      \* the messages of a broadcast or of a menu page
    Handlers,   \* bound: updates being handled at a time
    Agendas,    \* bound: what an administrator sets out to do, and how often
    None

ASSUME PanelAssumption == None \notin Plans \cup Posts

VARIABLES
    standing,   \* "bootstrap" (in the settings), "helper" (in admins) or "removed"
    state,      \* the state of the dialogue
    data,       \* its data: the keys it has, and the values that matter
    work,       \* what each handler is doing
    agenda,     \* what is still to be done
    late,       \* history: posts still in hand when the collecting was ended
    previewed,  \* history: the contents that were shown for confirmation
    swept,      \* history: this dialogue began, or was cleared, under a handler
    broken      \* history: a handler has missed a key (KeyError) all the same

dialogue == <<state, data, late, previewed, swept>>
vars == <<catalogue, standing, dialogue, work, agenda, broken>>

-----------------------------------------------------------------------------
(***************************************************************************)
(* Dialogues: admin_states.py and what its handlers put into the data      *)
(***************************************************************************)
\* A form asks for one field after another; the last is not kept but saved with.
NextField ==
    [plan_name     |-> "plan_price",     plan_price          |-> "plan_duration",
     landing_name  |-> "landing_slug",   landing_slug        |-> "landing_title",
     landing_title |-> "landing_channel", landing_channel    |-> "landing_description",
     landing_description |-> "landing_html"]

\* The states whose answer is saved, and the keys that the handler reads.
Needs ==
    [plan_duration |-> {"plan_name", "plan_price"},
     plan_value    |-> {"selected_plan_id"},
     landing_html  |-> {"landing_name", "landing_slug", "landing_title",
                        "landing_channel", "landing_description"},
     landing_value |-> {"landing_template_id"},
     setting_value |-> {"setting_key"},
     telegram_id   |-> {},
     menu_buttons  |-> {"menu_content_action", "menu_content_source_chat_id"},
     confirm       |-> {"source_chat_id", "target"}]

Saving == DOMAIN Needs

\* The states that take message after message.
Collecting == {"content", "menu_content"}

\* How a dialogue begins: whether what was there is cleared, the keys that are
\* set, and the state.
Dialogues ==
    [plan_new     |-> [clears |-> FALSE, keys |-> {}, state |-> "plan_name"],
     plan_edit    |-> [clears |-> TRUE, keys |-> {"selected_plan_id"},
                       state |-> "plan_value"],
     landing_new  |-> [clears |-> TRUE, keys |-> {}, state |-> "landing_name"],
     landing_edit |-> [clears |-> TRUE, keys |-> {"landing_template_id"},
                       state |-> "landing_value"],
     setting      |-> [clears |-> FALSE, keys |-> {"setting_key"},
                       state |-> "setting_value"],
     admin        |-> [clears |-> FALSE, keys |-> {},
                       state |-> "telegram_id"],
     menu_new     |-> [clears |-> TRUE, keys |-> {"menu_content_action"},
                       state |-> "menu_content"],
     broadcast_new |-> [clears |-> TRUE, keys |-> {}, state |-> "content"]]

\* Buttons of a keyboard: they work in every state of the dialogue.
Pressed == DOMAIN Dialogues \cup {"home", "card", "toggle"}

\* Pressed ones that look a row up before they touch the dialogue.
Fetching == {"card", "plan_edit", "landing_edit"}

\* The state in which an update finds its handler.
Awaited(what) ==
    CASE what = "done"      -> "content"
      [] what = "menu_done" -> "menu_content"
      [] OTHER              -> what

Answers == DOMAIN NextField \cup Saving \cup
           Collecting \cup {"done", "menu_done", "buttons", "target"}

\* An update: its handler, and the row or the message it is about.
Update(what, p, m) ==
    [step |-> "asked", what |-> what, plan |-> p, post |-> m, posts |-> {}, seen |-> FALSE]

Idle == [Update("none", None, None) EXCEPT !.step = "idle"]

NoData == [keys |-> {}, plan |-> None, posts |-> [c \in Collecting |-> {}]]

Busy(h) == work[h].step # "idle"
OthersBusy(h) == \E g \in Handlers \ {h} : Busy(g)

Init ==
    /\ CatalogueInit
    /\ standing \in {"bootstrap", "helper"}
    /\ state = "none" /\ data = NoData
    /\ work = [h \in Handlers |-> Idle]
    /\ agenda \in Agendas
    /\ late = {} /\ previewed = {} /\ swept = FALSE /\ broken = FALSE

-----------------------------------------------------------------------------
(***************************************************************************)
(* The handlers, from the check of the sender to the next await            *)
(***************************************************************************)
Ends(h) == work' = [work EXCEPT ![h] = Idle]
Waits(h, w) == work' = [work EXCEPT ![h] = [w EXCEPT !.step = "running"]]

\* A key is missing; a dialogue that was cleared under a handler may lack any.
Fails(h) == Ends(h) /\ broken' = (broken \/ ~swept)

\* state.clear(): other handlers of the administrator may still be at work.
Clears(h) == late' = {} /\ previewed' = {} /\ swept' = OthersBusy(h)

\* open_admin, admin_home, cancel_broadcast.
Home(h, w) ==
    /\ w.what = "home"
    /\ state' = "none" /\ data' = NoData
    /\ Clears(h)
    /\ Ends(h)
    /\ UNCHANGED <<catalogue, broken>>

\* Faulty variant: the keys are set before the dialogue is cleared.
BegunTooEarly(d, p) ==
    IF d.clears THEN NoData ELSE [data EXCEPT !.keys = @ \cup d.keys]

\* What the data are when dialogue d begins; a tariff's dialogue keeps its row.
Begun(d, p) ==
    LET old == IF d.clears THEN NoData ELSE data
    IN  [old EXCEPT !.keys = @ \cup d.keys, !.plan = IF p = None THEN @ ELSE p]

Begins(h, w, p) ==
    LET d == Dialogues[w.what]
    IN  /\ state' = d.state
        /\ data' = Begun(d, p)
        /\ IF d.clears THEN Clears(h) ELSE UNCHANGED <<late, previewed, swept>>
        /\ UNCHANGED broken

\* new_plan, new_landing_template, edit_setting, add_admin_start, broadcast_new,
\* _begin_menu_content_edit.
Start(h, w) ==
    /\ w.what \in DOMAIN Dialogues \ Fetching
    /\ Begins(h, w, None)
    /\ Ends(h)
    /\ UNCHANGED catalogue

\* select_plan, show_plan_resources, edit_plan_*, edit_landing_template.
Fetch(h, w) ==
    /\ w.what \in Fetching
    /\ Waits(h, w)
    /\ UNCHANGED <<catalogue, dialogue, broken>>

\* A field of a form, when it is valid.
Field(h, w) ==
    /\ w.what \in DOMAIN NextField
    /\ data' = [data EXCEPT !.keys = @ \cup {w.what}]
    /\ state' = NextField[w.what]
    /\ Ends(h)
    /\ UNCHANGED <<catalogue, late, previewed, swept, broken>>

ChatKey(what) ==
    IF what = "content" THEN "source_chat_id" ELSE "menu_content_source_chat_id"

\* collect_broadcast_content, collect_menu_content: in whatever state the dialogue
\* has come to meanwhile, the list is read and written back without an await.
Collect(h, w) ==
    /\ w.what \in Collecting
    /\ data' = [data EXCEPT !.posts[w.what] = @ \cup {w.post},
                            !.keys = @ \cup {ChatKey(w.what)}]
    /\ Ends(h)
    /\ UNCHANGED <<catalogue, state, late, previewed, swept, broken>>

\* The messages of the broadcast that other handlers have in hand.
InHand(h) == {work[g].post : g \in {f \in Handlers \ {h} : work[f].what = "content"}}

\* broadcast_content_done, menu_content_done: there must be something to send.
Done(h, w) ==
    /\ w.what \in {"done", "menu_done"}
    /\ IF data.posts[Awaited(w.what)] = {} THEN UNCHANGED <<state, late>>
       ELSE IF w.what = "done" THEN state' = "buttons" /\ late' = late \cup InHand(h)
       ELSE state' = "menu_buttons" /\ UNCHANGED late
    /\ Ends(h)
    /\ UNCHANGED <<catalogue, data, previewed, swept, broken>>

\* skip_broadcast_buttons, save_broadcast_buttons.
Buttons(h, w) ==
    /\ w.what = "buttons"
    /\ state' = "target"
    /\ Ends(h)
    /\ UNCHANGED <<catalogue, data, late, previewed, swept, broken>>

\* choose_broadcast_target keeps the target and shows what will be sent.
Preview(h, w) ==
    /\ w.what = "target"
    /\ data' = [data EXCEPT !.keys = @ \cup {"target"}]
    /\ IF "source_chat_id" \in data.keys
       THEN /\ Waits(h, w)
            /\ previewed' = previewed \cup {data.posts["content"]}
            /\ UNCHANGED broken
       ELSE Fails(h) /\ UNCHANGED previewed
    /\ UNCHANGED <<catalogue, state, late, swept>>

\* toggle_plan_resource goes by the tariff opened last, and reads its row first.
BeginToggle(h, w) ==
    /\ w.what = "toggle"
    /\ IF data.plan = None THEN Ends(h)
       ELSE Waits(h, [w EXCEPT !.plan = data.plan, !.seen = data.plan \in linked])
    /\ UNCHANGED <<catalogue, dialogue, broken>>

\* The messages of a broadcast or of a page.
Contents(what) ==
    CASE what = "confirm"      -> data.posts["content"]
      [] what = "menu_buttons" -> data.posts["menu_content"]
      [] OTHER                 -> {}

\* What is saved is read from the data, and a missing key ends the handler.
BeginSave(h, w) ==
    /\ w.what \in Saving
    /\ IF Needs[w.what] \subseteq data.keys
       THEN Waits(h, [w EXCEPT !.posts = Contents(w.what), !.seen = NoPlans])
            /\ UNCHANGED broken
       ELSE Fails(h)
    /\ UNCHANGED <<catalogue, dialogue>>

\* landing_create_html: a document is fetched from Telegram first.
Download(h, w) ==
    /\ w.what = "landing_html"
    /\ work' = [work EXCEPT ![h] = [w EXCEPT !.step = "loading"]]
    /\ UNCHANGED <<catalogue, dialogue, broken>>

Run(h, w) ==
    \/ Home(h, w) \/ Start(h, w) \/ Fetch(h, w) \/ Field(h, w) \/ Collect(h, w)
    \/ Done(h, w) \/ Buttons(h, w) \/ Preview(h, w)
    \/ BeginToggle(h, w) \/ BeginSave(h, w) \/ Download(h, w)

-----------------------------------------------------------------------------
(***************************************************************************)
(* Updates                                                                 *)
(***************************************************************************)
\* Faulty variant: messages are collected in every state of the broadcast.
MatchesGroup(what) ==
    \/ what \in Pressed \/ (what \in Answers /\ state = Awaited(what))
    \/ what = "content" /\ state \in {"buttons", "target", "confirm"}

\* An answer finds its handler in the state that awaits it, a press in any.
Matches(what) == what \in Pressed \/ (what \in Answers /\ state = Awaited(what))

Planned(what) == what \in DOMAIN agenda

\* The update is taken from Telegram.  For a bootstrap administrator the check
\* of the sender does not wait, for another it is a query.
Arrive(h, what, p, m) ==
    LET u == Update(what, p, m)
    IN  /\ ~Busy(h)
        /\ Matches(what)
        /\ Planned(what) => agenda[what] > 0
        /\ agenda' = IF Planned(what) THEN [agenda EXCEPT ![what] = @ - 1] ELSE agenda
        /\ IF standing = "bootstrap" THEN Run(h, u)
           ELSE /\ work' = [work EXCEPT ![h] = u]
                /\ UNCHANGED <<catalogue, dialogue, broken>>
        /\ UNCHANGED standing

Admit(h) ==
    /\ work[h].step = "asked"
    /\ standing = "helper"
    /\ Run(h, work[h])
    /\ UNCHANGED <<standing, agenda>>

Refuse(h) ==
    /\ work[h].step = "asked"
    /\ standing = "removed"
    /\ Ends(h)
    /\ UNCHANGED <<catalogue, standing, dialogue, agenda, broken>>

-----------------------------------------------------------------------------
(***************************************************************************)
(* The handlers, after the await                                           *)
(***************************************************************************)
\* The document has come, and the dialogue is read as it is now.
Downloaded(h) ==
    /\ work[h].step = "loading"
    /\ BeginSave(h, work[h])
    /\ UNCHANGED <<standing, agenda>>

Running(h, what) == work[h].step = "running" /\ work[h].what = what

\* The card or the keyboard of a tariff for sale; another is not found.
Show(h) ==
    /\ Running(h, "card")
    /\ data' = IF plan[work[h].plan] # "active" THEN data
               ELSE [data EXCEPT !.plan = work[h].plan,
                                 !.keys = @ \cup {"selected_plan_id"}]
    /\ Ends(h)
    /\ UNCHANGED <<catalogue, standing, state, late, previewed, swept, agenda, broken>>

\* The dialogue of a row that was found begins.
Open(h) ==
    /\ Running(h, "plan_edit") \/ Running(h, "landing_edit")
    /\ work[h].plan # None => plan[work[h].plan] = "active"
    /\ Begins(h, work[h], work[h].plan)
    /\ Ends(h)
    /\ UNCHANGED <<catalogue, standing, agenda>>

\* The row is not found, Telegram does not copy or the document is no page, or the
\* transaction fails (a trial that is no discount, a slug or a code in use): the
\* dialogue stays.
GiveUp(h) ==
    /\ work[h].step \in {"loading", "running"}
    /\ Ends(h)
    /\ UNCHANGED <<catalogue, standing, dialogue, agenda, broken>>

\* Telegram has copied the messages to the administrator.
AskToConfirm(h) ==
    /\ Running(h, "target")
    /\ state' = "confirm"
    /\ Ends(h)
    /\ UNCHANGED <<catalogue, standing, data, late, previewed, swept, agenda, broken>>

\* The row of a link that another transaction has inserted is not inserted again.
CommitToggle(h) ==
    LET w == work[h]
    IN  /\ Running(h, "toggle")
        /\ w.seen \/ w.plan \notin linked
        /\ Toggled(w.plan, w.seen)
        /\ Ends(h)
        /\ UNCHANGED <<standing, dialogue, agenda, broken>>

\* A new tariff takes a row; tariffs beyond the rows of Plans are not followed.
Saves(w) ==
    IF w.what # "plan_duration" THEN UNCHANGED catalogue
    ELSE IF RowFor(w.seen) # {} THEN \E p \in RowFor(w.seen) : InsertPlan(p)
    ELSE ~w.seen /\ UNCHANGED catalogue

\* The transaction commits, and the dialogue is cleared, whichever it is by now.
CommitSave(h) ==
    LET w == work[h]
    IN  /\ w.step = "running"
        /\ w.what \in Saving
        /\ Saves(w)
        /\ state' = "none" /\ data' = NoData
        /\ Clears(h)
        /\ Ends(h)
        /\ UNCHANGED <<standing, agenda, broken>>

-----------------------------------------------------------------------------
(***************************************************************************)
(* Others                                                                  *)
(***************************************************************************)
Errand(e) == agenda[e] > 0 /\ agenda' = [agenda EXCEPT ![e] = @ - 1]

Meanwhile ==
    /\ Errand("catalogue")
    /\ CatalogueMoves
    /\ UNCHANGED <<standing, dialogue, work, broken>>

\* add_admin and remove_admin, by another; a bootstrap administrator stays one.
ChangeRights ==
    /\ Errand("rights")
    /\ standing # "bootstrap"
    /\ standing' = IF standing = "helper" THEN "removed" ELSE "helper"
    /\ UNCHANGED <<catalogue, dialogue, work, broken>>

\* The process is started again: the dialogues are kept in its memory only.
Restart ==
    /\ Errand("restart")
    /\ work' = [h \in Handlers |-> Idle]
    /\ state' = "none" /\ data' = NoData
    /\ late' = {} /\ previewed' = {} /\ swept' = FALSE
    /\ UNCHANGED <<catalogue, standing, broken>>

\* A press or an answer, with the row or the message it is about.
Arrivals(h) ==
    \/ \E what \in {"card", "plan_edit"}, p \in Plans : Arrive(h, what, p, None)
    \/ \E what \in Collecting, m \in Posts : Arrive(h, what, None, m)
    \/ \E what \in (Pressed \cup Answers) \ ({"card", "plan_edit"} \cup Collecting) :
          Arrive(h, what, None, None)

Next ==
    \/ \E h \in Handlers :
          \/ Arrivals(h) \/ Admit(h) \/ Refuse(h)
          \/ Downloaded(h) \/ Show(h) \/ Open(h) \/ GiveUp(h) \/ AskToConfirm(h)
          \/ CommitToggle(h) \/ CommitSave(h)
    \/ Meanwhile \/ ChangeRights \/ Restart

Spec == Init /\ [][Next]_vars

-----------------------------------------------------------------------------
(***************************************************************************)
(* Properties                                                              *)
(***************************************************************************)
\* No step of a dialogue finds that an earlier one is missing, whichever other
\* dialogue was begun in between, unless it was begun or cleared while a handler of
\* the same administrator waited for the database or for Telegram.
DataIsThere == ~broken

States == {"none"} \cup {Awaited(what) : what \in Answers}

\* The keys that are read somewhere are all that are ever set.
Keys == UNION {Needs[what] : what \in Saving}

Data ==
    [keys : SUBSET Keys, plan : Plans \cup {None},
     posts : [Collecting -> SUBSET Posts]]

Work ==
    [step : {"idle", "asked", "loading", "running"}, what : {"none"} \cup Pressed \cup Answers,
     plan : Plans \cup {None}, post : Posts \cup {None}, posts : SUBSET Posts,
     seen : BOOLEAN]

\* An update about a row or a message says which, and so does a handler that has
\* read which tariff is open; one that has ended is about nothing.
Complete(w) ==
    /\ w.step = "idle" => w.what = "none"
    /\ w.what \in {"card", "plan_edit"} => w.plan \in Plans
    /\ w.what = "toggle" /\ w.step = "running" => w.plan \in Plans
    /\ w.what = "landing_edit" => w.plan = None
    /\ w.what \in Collecting => w.post \in Posts
    /\ w.step = "loading" => w.what = "landing_html"

\* Every variable has its shape, a key is there with its value, and every step of
\* a dialogue finds the data of the earlier ones.
TypeOK ==
    /\ CatalogueTypeOK
    /\ DataIsThere
    /\ standing \in {"bootstrap", "helper", "removed"}
    /\ state \in States
    /\ data \in Data
    /\ data.plan # None <=> "selected_plan_id" \in data.keys
    /\ \A c \in Collecting : data.posts[c] # {} <=> ChatKey(c) \in data.keys
    /\ work \in [Handlers -> Work]
    /\ \A h \in Handlers : Complete(work[h])
    /\ late \subseteq Posts /\ previewed \subseteq SUBSET Posts
    /\ swept \in BOOLEAN /\ broken \in BOOLEAN

\* posts were shown, but for those that came too late.
Shown(posts) ==
    \E shown \in previewed : shown \subseteq posts /\ posts \ shown \subseteq late

\* A broadcast is queued as it was shown to the administrator, whatever came in while
\* buttons and target were chosen and the preview was copied: nothing is missing, and
\* nothing is added but messages that other handlers still had in hand when /done was
\* handled.  A dialogue that was begun, or cleared, while a handler of the last one was
\* waiting may be confirmed unseen (README, section 8).
PreviewedIsSent ==
    \A h \in Handlers : Running(h, "confirm") => swept \/ Shown(work[h].posts)

\* The keys that the steps before st have kept.
KeptBefore(st) ==
    CASE st \in Saving               -> Needs[st]
      [] st = "plan_price"           -> {"plan_name"}
      [] st = "landing_slug"         -> {"landing_name"}
      [] st = "landing_title"        -> {"landing_name", "landing_slug"}
      [] st = "landing_channel"      -> {"landing_name", "landing_slug", "landing_title"}
      [] st = "landing_description"  -> {"landing_name", "landing_slug", "landing_title",
                                         "landing_channel"}
      [] st = "menu_content"         -> {"menu_content_action"}
      [] st \in {"buttons", "target"} -> {"source_chat_id"}
      [] OTHER                       -> {}

\* The dialogue may go on from st: what comes before is there, and was shown.
Ready(st) ==
    /\ KeptBefore(st) \subseteq data.keys
    /\ st = "confirm" => Shown(data.posts["content"])

\* The states of the dialogue that the handler of w acts for.
ActsFor(w) ==
    {st \in States :
        \/ w.step = "asked" /\ w.what \in Answers /\ st = Awaited(w.what)
        \/ w.step \in {"loading", "running"} /\ w.what \in Saving /\ st = w.what
        \/ w.step = "running" /\ w.what = "target" /\ st = "confirm"}

\* The states of a broadcast after /done, and whether somebody acts in one.
Further == {"buttons", "target", "confirm"}
GoneOn == state \in Further \/ \E h \in Handlers : work[h].what \in Further

\* Unless the dialogue was begun or cleared under a handler, every handler acts for a
\* state that is ready; while messages are collected, nobody is further than that, and
\* afterwards all that are still in hand are known to be late.
DialogueInv ==
    \/ swept
    \/ /\ Ready(state)
       /\ \A h \in Handlers : \A st \in ActsFor(work[h]) : Ready(st)
       /\ \A h \in Handlers :
             /\ state = "content" => work[h].what \notin Further
             /\ GoneOn /\ work[h].what = "content" => work[h].post \in late

\* A handler that has counted tariffs has not counted more than there are.
TariffInv ==
    \A h \in Handlers : Running(h, "plan_duration") /\ NoPlans => work[h].seen

\* The dialogue is what every handler takes it to be: this is inductive, and the
\* properties of the panel follow from it.
Inv == TypeOK /\ DialogueInv /\ TariffInv /\ PreviewedIsSent

=============================================================================
