---------------------------- MODULE SettingsProofs ----------------------------
(***************************************************************************)
(* The settings the window edits: the appearance behind its queue of        *)
(* mutations, rebased and coalesced, and the documents saved without one.   *)
(***************************************************************************)
EXTENDS Settings, SequenceProofs

SettingsSpec == SettingsInit /\ [][SettingsNext]_settingVars

\* A gesture carries what its kind needs.
Meant(g) ==
  /\ g \in AppearanceGesture
  /\ g.op = "theme" => g.value \in Theme
  /\ g.op = "terminal" => g.value \in {"w400", "w500"}
  /\ g.op = "glass" => g.value \in GlassOpacity
  /\ g.op \in {"create", "update", "import", "replace", "keep_both"} =>
       g.id \in ThemeId /\ g.value \in ThemeText
  /\ g.op = "remove" => g.id \in ThemeId

\* What one change writes, when nothing else has changed since the last render: its setting and
\* the terminal settings it carries.
TerminalSettings == {"w400", "w500"}
Carrying(g, t) == [f \in {g.op, "terminal"} |-> IF f = g.op THEN g.value ELSE t]

UpdateOf(m) ==
  /\ Len(m.patches) = Len(m.gestures)
  /\ \A i \in 1..Len(m.gestures) :
       m.gestures[i].op \in Whole /\ \E t \in TerminalSettings : m.patches[i] = Carrying(m.gestures[i], t)

\* A task is one command, or a run of settings of the opacity.
TaskOf(m) ==
  /\ \A i \in 1..Len(m.gestures) : m.gestures[i].op \in Commands
  /\ Len(m.gestures) = 1 \/ \A i \in 1..Len(m.gestures) : m.gestures[i].op = "glass"

WellMade(m) ==
  /\ m \in PendingMutation /\ m.gestures # <<>>
  /\ \A i \in 1..Len(m.gestures) : Meant(m.gestures[i])
  /\ m.kind = "update" => UpdateOf(m)
  /\ m.kind = "task" => TaskOf(m)

\* The document once what is out has been served.
Basis ==
  IF running.at # "out" THEN stored
  ELSE IF running.of.kind = "update" THEN running.next ELSE Alone(stored, Command(running.of))

EditorShown == [id : ThemeId, text : ThemeText, fresh : BOOLEAN, saving : BOOLEAN]
RemoveShown == [kind : {"remove"}, id : ThemeId]
ImportShown == [kind : {"import"}, id : ThemeId, text : ThemeText, busy : BOOLEAN, conflict : BOOLEAN]
LookShown == [ref : Appearance, rendered : Appearance, drawn : BOOLEAN,
              load : {"out", "answered", "landed", "failed"}, read : Appearance \cup {None}, known : BOOLEAN]

AllMade(queue) ==
  queue \in Seq(PendingMutation) /\ \A i \in 1..Len(queue) : WellMade(queue[i])

CallMade(call) == call \in MutationCall /\ WellMade(call.of)

DocumentsTyped == stored \in Appearance /\ wish \in Appearance /\ look \in LookShown
PanelTyped == panel \in [editor : {None} \cup EditorShown, dialog : {None} \cup RemoveShown \cup ImportShown]
QueueMade == AllMade(pending) /\ (running = None \/ CallMade(running))

\* Before the document is known nothing has been asked.
Unasked ==
  /\ (look.load \in {"out", "answered"} \/ ~look.known) =>
       running = None /\ pending = <<>> /\ wish = stored
  /\ look.load = "answered" => look.read = stored
  /\ look.load = "landed" => look.known
  /\ look.known => look.load = "landed"

AllMeant(gestures) ==
  gestures \in Seq(AppearanceGesture) /\ \A i \in 1..Len(gestures) : Meant(gestures[i])

AloneSteps(gestures) ==
  [i \in 1..Len(gestures) |-> [d \in Appearance |-> Alone(d, gestures[i])]]

TogetherSteps(queue) ==
  [i \in 1..Len(queue) |-> [d \in Appearance |-> Together(d, queue[i].gestures)]]

\* The documents on the way.
Unfolding(f, N, doc, step) == Unfolds(f, N, doc, step) /\ \A i \in 0..N : f[i] \in Appearance

\* An update over a document leaves the terminal settings asked for in it, whatever it carries.
Writes(doc, m) ==
  m.kind = "update" => Together(doc, m.gestures).terminal = m.patches[Len(m.patches)].terminal

\* Every update of a queue does, over the document on the way when its turn comes.
Right(doc, queue) ==
  \E w : /\ Unfolding(w, Len(queue), doc, TogetherSteps(queue))
         /\ \A k \in 1..Len(queue) : Writes(w[k - 1], queue[k])

\* With nothing out, everything agrees; otherwise what is wished for is what the calls will make
\* of the document.
IdleAgrees ==
  running = None =>
    /\ pending = <<>> /\ wish = stored
    /\ (look.known /\ look.load \notin {"out", "answered"}) => look.ref = stored

BusyAgrees ==
  running # None =>
    /\ wish = Granted(Basis, pending)
    /\ running.at \in {"answered", "read"} => running.answer = stored
    /\ (running.at = "out" /\ running.of.kind = "update") =>
         running.next \in Appearance /\ running.next = Together(stored, running.of.gestures)
    /\ Right(Basis, pending)

AppearanceGood == DocumentsTyped /\ PanelTyped /\ QueueMade /\ Unasked /\ IdleAgrees /\ BusyAgrees
AppearanceInv == astray = {} => AppearanceGood

SheetCall == [kind : {"save", "read"}, value : SheetValue, names : SUBSET SettingName,
              at : {"out", "answered", "refused", "done"}]
SheetTypes ==
  sheet \in [doc : SettingsDocument, core : SheetValue, shown : SheetValue, wish : SheetValue,
             calls : Seq(SheetCall), load : {"out", "answered", "landed", "failed"},
             read : SheetValue \cup {None}]

CallFits(call) ==
  /\ call.at = "out" => sheet.wish = Applied(call)
  /\ call.at \in {"refused", "answered"} => sheet.wish = sheet.core
  /\ call.at = "answered" => call.value = sheet.core

Unsaved ==
  /\ sheet.load # "landed" => sheet.calls = <<>> /\ sheet.wish = sheet.core
  /\ sheet.load = "answered" => sheet.read = sheet.core

OneOut == \A c \in CallsOut, d \in CallsOut : c = d
SheetSettled == sheet.load = "landed" /\ CallsOut = {} => sheet.wish = sheet.core /\ sheet.shown = sheet.core

AllFit == \A c \in CallsOut : CallFits(sheet.calls[c])

SheetGood == SheetTypes /\ Unsaved /\ OneOut /\ SheetSettled /\ AllFit
SheetInv == astray = {} => SheetGood

-------------------------------------------------------------------------------
(* The documents saved without a queue.                                      *)

LEMMA SheetInit ==
  ASSUME SettingsInit
  PROVE  SheetInv
<1>1. PICK d \in SettingsDocument, core \in SheetValue :
        sheet = [doc |-> d, core |-> core, shown |-> DefaultSheet, calls |-> <<>>,
                 load |-> "out", read |-> None, wish |-> core]
  BY DEF SettingsInit
<1>2. DefaultSheet \in SheetValue
  BY DEF DefaultSheet, SheetValue, SettingValue
<1>3. <<>> \in Seq(SheetCall) /\ DOMAIN (<<>>) = {}
  OBVIOUS
<1>4. SheetTypes
  BY <1>1, <1>2, <1>3 DEF SheetTypes
<1>5. CallsOut = {} /\ Unsaved
  BY <1>1, <1>3 DEF CallsOut, Unsaved
<1> QED
  BY <1>1, <1>4, <1>5 DEF SheetInv, SheetGood, AllFit, OneOut, SheetSettled

LEMMA WithValue ==
  ASSUME NEW shown \in SheetValue, NEW names, NEW value \in SettingValue
  PROVE  With(shown, names, value) \in SheetValue
BY DEF With, SheetValue

\* What is offered is a setting's value.
LEMMA OffersSettings ==
  ASSUME SettingsAssumption, SheetTypes, NEW o \in SheetOffers
  PROVE  o[1] \subseteq SettingName /\ o[2] \in SettingValue
<1> DEFINE Sane(q) == q[1] \subseteq SettingName /\ q[2] \in SettingValue
<1>1. ASSUME NEW names, names \subseteq SettingName, NEW q \in Sets(sheet.shown, names)
      PROVE  Sane(q)
  <2>1. PICK p \in names \X SettingValue : q = <<{p[1]}, p[2]>>
    BY <1>1 DEF Sets
  <2> QED
    BY <1>1, <2>1
<1>2. "default" \in SettingValue /\ {"first"} \subseteq SettingName
  BY DEF SettingValue, SettingName
<1>3. ASSUME NEW q \in HotkeysPanelOffers(sheet.shown)
      PROVE  Sane(q)
  <2>1. CASE \E n \in SettingName : q \in Sets(sheet.shown, {n})
    <3>1. PICK n \in SettingName : q \in Sets(sheet.shown, {n})
      BY <2>1
    <3>2. {n} \subseteq SettingName
      BY <3>1
    <3> HIDE DEF Sane
    <3> QED
      BY <1>1, <3>1, <3>2
  <2>2. CASE q = <<SettingName, "default">>
    BY <1>2, <2>2
  <2> QED
    BY <1>3, <2>1, <2>2 DEF HotkeysPanelOffers, HotkeyRowOffers
<1>4. sheet.doc \in {"sidebar", "tools", "notifications", "groups", "assist", "hotkeys"}
  BY DEF SheetTypes, SettingsAssumption, Documented
<1>5. SettingName \subseteq SettingName
  OBVIOUS
<1> HIDE DEF Sane
<1>6. Sane(o)
  BY <1>1, <1>2, <1>3, <1>4, <1>5
    DEF SheetOffers, SidebarPanelOffers, ToolsPanelOffers, NotificationsPanelOffers,
        IntegrationsPanelOffers, AgentsPanelOffers
<1> QED
  BY <1>6 DEF Sane

LEMMA ChangingSetting ==
  ASSUME SettingsAssumption, SheetGood, NEW o \in SheetOffers, ChangeSetting(o[1], o[2]),
         astray' = {}
  PROVE  SheetGood'
<1> PICK names, value : names = o[1] /\ value = o[2]
  OBVIOUS
<1>1. names \subseteq SettingName /\ value \in SettingValue
  BY OffersSettings DEF SheetGood
<1>2. sheet.load = "landed" /\ CallsOut = {}
  BY DEF ChangeSetting
<1>3. sheet.wish = sheet.core /\ sheet.shown = sheet.core
  BY <1>2 DEF SheetGood, SheetSettled
<1>0. SheetTypes
  BY DEF SheetGood
<1>t. sheet.core \in SheetValue /\ sheet.shown \in SheetValue /\ sheet.calls \in Seq(SheetCall)
  BY <1>0 DEF SheetTypes
<1>4. PICK next : next = With(sheet.core, names, value)
  OBVIOUS
<1>5. next \in SheetValue
  BY <1>1, <1>t, <1>4, WithValue
<1>6. PICK written : written = IF Documented[sheet.doc] = "whole" THEN SettingName ELSE names
  OBVIOUS
<1>7. PICK call : call = [kind |-> "save", value |-> next, names |-> written, at |-> "out"]
  OBVIOUS
<1>8. call \in SheetCall
  BY <1>1, <1>5, <1>6, <1>7 DEF SheetCall
<1>9. PICK shown : shown \in {sheet.shown, next}
                   /\ sheet' = [sheet EXCEPT !.shown = shown, !.calls = Append(sheet.calls, call), !.wish = next]
  <2>1. sheet' = [sheet EXCEPT
          !.shown = IF Documented[sheet.doc] = "unshown" THEN sheet.shown ELSE next,
          !.calls = Append(sheet.calls, call), !.wish = next]
    BY <1>3, <1>4, <1>6, <1>7 DEF ChangeSetting, Calling
  <2> QED
    BY <2>1
<1>10. shown \in SheetValue
  BY <1>5, <1>9, <1>t
<1>11. SheetTypes'
  <2>1. Append(sheet.calls, call) \in Seq(SheetCall)
    BY <1>t, <1>8
  <2> QED
    BY <1>0, <1>5, <1>9, <1>10, <2>1 DEF SheetTypes
<1>12. PICK n : n = Len(sheet.calls) + 1
  OBVIOUS
<1>13. sheet'.calls = Append(sheet.calls, call) /\ sheet'.core = sheet.core /\ sheet'.wish = next
       /\ sheet'.load = "landed"
  BY <1>0, <1>2, <1>9 DEF SheetTypes
<1>14. DOMAIN sheet'.calls = DOMAIN sheet.calls \cup {n} /\ sheet'.calls[n] = call
       /\ \A c \in DOMAIN sheet.calls : sheet'.calls[c] = sheet.calls[c]
  BY <1>t, <1>12, <1>13
<1>15. CallsOut' = {n}
  BY <1>2, <1>7, <1>14 DEF CallsOut
<1>16. CallFits(call)'
  <2>1. Applied(call)' = next
    BY <1>4, <1>5, <1>6, <1>7, <1>13 DEF Applied, With, SheetValue
  <2> QED
    BY <1>7, <1>13, <2>1 DEF CallFits
<1> QED
  BY <1>11, <1>13, <1>14, <1>15, <1>16 DEF SheetGood, Unsaved, OneOut, SheetSettled, AllFit

\* A call that moves on: what the others were is known.
MovesTo(c, call, core, shown, wished) ==
  sheet' = [sheet EXCEPT !.core = core, !.shown = shown, !.calls = [sheet.calls EXCEPT ![c] = call],
                         !.wish = wished]
Moved(c, call) ==
  /\ SheetTypes' /\ Unsaved' /\ OneOut'
  /\ CallsOut' = IF call.at = "done" THEN {} ELSE {c}
  /\ sheet'.calls[c] = call

LEMMA CallMoves ==
  ASSUME SheetGood, NEW c \in CallsOut, NEW core \in SheetValue, NEW shown \in SheetValue,
         NEW wished \in SheetValue, NEW call \in SheetCall, MovesTo(c, call, core, shown, wished)
  PROVE  Moved(c, call)
<1> PICK calls : calls = [sheet.calls EXCEPT ![c] = call]
  OBVIOUS
<1>9. sheet' = [sheet EXCEPT !.core = core, !.shown = shown, !.calls = calls, !.wish = wished]
  BY DEF MovesTo
<1>0. SheetTypes /\ sheet.calls \in Seq(SheetCall) /\ c \in DOMAIN sheet.calls
  BY DEF SheetGood, SheetTypes, CallsOut
<1>1. CallsOut = {c}
  BY DEF SheetGood, OneOut
<1>2. sheet.load = "landed"
  BY <1>0, <1>1 DEF SheetGood, Unsaved
<1>3. sheet'.calls = calls /\ sheet'.load = "landed" /\ sheet'.core = core /\ sheet'.wish = wished
  BY <1>0, <1>2, <1>9 DEF SheetTypes
<1>4. calls \in Seq(SheetCall) /\ DOMAIN calls = DOMAIN sheet.calls /\ calls[c] = call
      /\ \A d \in DOMAIN sheet.calls : d # c => calls[d] = sheet.calls[d]
  BY <1>0
<1>5. SheetTypes'
  BY <1>0, <1>4, <1>9 DEF SheetTypes
<1>6. CallsOut' = IF call.at = "done" THEN {} ELSE {c}
  <2>1. \A d \in DOMAIN sheet.calls : d # c => sheet.calls[d].at = "done"
    BY <1>1 DEF CallsOut
  <2> QED
    BY <1>0, <1>3, <1>4, <2>1 DEF CallsOut
<1> QED
  BY <1>2, <1>3, <1>4, <1>5, <1>6 DEF Moved, Unsaved, OneOut

LEMMA ServingSetting ==
  ASSUME SheetGood, NEW c \in DOMAIN sheet.calls, CoreServesSetting(c)
  PROVE  SheetGood'
<1>0. SheetTypes
  BY DEF SheetGood
<1>1. c \in CallsOut /\ sheet.calls[c].at = "out" /\ sheet.calls[c] \in SheetCall
  BY <1>0 DEF CoreServesSetting, CallsOut, SheetTypes
<1>2. PICK next : next = Applied(sheet.calls[c])
  OBVIOUS
<1>t. sheet.core \in SheetValue /\ sheet.shown \in SheetValue /\ sheet.wish \in SheetValue
  BY <1>0 DEF SheetTypes
<1>3. sheet.wish = next
  BY <1>1, <1>2 DEF SheetGood, AllFit, CallFits
<1>4. PICK call : call = [sheet.calls[c] EXCEPT !.value = next, !.at = "answered"]
  OBVIOUS
<1>5. next \in SheetValue
  BY <1>3, <1>t
<1>6. call \in SheetCall /\ call.at = "answered" /\ call.value = next
  BY <1>1, <1>4, <1>5 DEF SheetCall
<1>7. PICK calls : calls = [sheet.calls EXCEPT ![c] = call]
  OBVIOUS
<1>8. PICK shown : shown = sheet.shown
  OBVIOUS
<1>12. MovesTo(c, call, next, shown, next)
  <2>1. sheet' = [sheet EXCEPT !.core = next, !.calls = calls]
    BY <1>2, <1>4, <1>7 DEF CoreServesSetting
  <2> QED
    BY <2>1, <1>0, <1>3, <1>7, <1>8 DEF SheetTypes, MovesTo
<1>9. Moved(c, call)
  BY <1>1, <1>5, <1>6, <1>8, <1>12, <1>t, CallMoves
<1>10. sheet'.core = next /\ sheet'.wish = next
  BY <1>0, <1>12 DEF SheetTypes, MovesTo
<1>11. CallFits(call)'
  BY <1>6, <1>10 DEF CallFits
<1> QED
  BY <1>6, <1>9, <1>11 DEF Moved, SheetGood, SheetSettled, AllFit

LEMMA FailingSetting ==
  ASSUME SheetGood, NEW c \in DOMAIN sheet.calls, CoreFailsSetting(c)
  PROVE  SheetGood'
<1>0. SheetTypes
  BY DEF SheetGood
<1>1. c \in CallsOut /\ sheet.calls[c].at = "out" /\ sheet.calls[c] \in SheetCall
  BY <1>0 DEF CoreFailsSetting, CallsOut, SheetTypes
<1>t. sheet.core \in SheetValue /\ sheet.shown \in SheetValue /\ sheet.wish \in SheetValue
  BY <1>0 DEF SheetTypes
<1>2. PICK wished : wished = IF sheet.calls[c].kind = "save" THEN sheet.core ELSE sheet.wish
  OBVIOUS
<1>3. wished = sheet.core
  <2>1. sheet.calls[c].kind # "save" => sheet.wish = sheet.core
    BY <1>1 DEF SheetGood, AllFit, CallFits, Applied, SheetCall
  <2> QED
    BY <1>2, <2>1
<1>4. PICK call : call = [sheet.calls[c] EXCEPT !.at = "refused"]
  OBVIOUS
<1>6. call \in SheetCall /\ call.at = "refused"
  BY <1>1, <1>4 DEF SheetCall
<1>7. PICK calls : calls = [sheet.calls EXCEPT ![c] = call]
  OBVIOUS
<1>8. PICK shown, core : shown = sheet.shown /\ core = sheet.core
  OBVIOUS
<1>12. MovesTo(c, call, core, shown, core)
  <2>1. sheet' = [sheet EXCEPT !.calls = calls, !.wish = wished]
    BY <1>2, <1>4, <1>7 DEF CoreFailsSetting
  <2> QED
    BY <2>1, <1>0, <1>3, <1>7, <1>8 DEF SheetTypes, MovesTo
<1>9. Moved(c, call)
  BY <1>1, <1>6, <1>8, <1>12, <1>t, CallMoves
<1>10. sheet'.core = core /\ sheet'.wish = core
  BY <1>0, <1>12 DEF SheetTypes, MovesTo
<1>11. CallFits(call)'
  BY <1>6, <1>10 DEF CallFits
<1> QED
  BY <1>6, <1>9, <1>11 DEF Moved, SheetGood, SheetSettled, AllFit

LEMMA AnsweringSetting ==
  ASSUME SheetGood, NEW c \in DOMAIN sheet.calls, SettingAnswered(c)
  PROVE  SheetGood'
<1>0. SheetTypes
  BY DEF SheetGood
<1>1. c \in CallsOut /\ sheet.calls[c].at = "answered" /\ sheet.calls[c] \in SheetCall
  BY <1>0 DEF SettingAnswered, CallsOut, SheetTypes
<1>t. sheet.core \in SheetValue /\ sheet.shown \in SheetValue /\ sheet.wish \in SheetValue
  BY <1>0 DEF SheetTypes
<1>3. sheet.wish = sheet.core /\ sheet.calls[c].value = sheet.core
  BY <1>1 DEF SheetGood, AllFit, CallFits
<1>4. PICK call : call = [sheet.calls[c] EXCEPT !.at = "done"]
  OBVIOUS
<1>6. call \in SheetCall /\ call.at = "done"
  BY <1>1, <1>4 DEF SheetCall
<1>7. PICK calls : calls = [sheet.calls EXCEPT ![c] = call]
  OBVIOUS
<1>8. PICK core : core = sheet.core
  OBVIOUS
<1>12. MovesTo(c, call, core, core, core)
  <2>1. sheet' = [sheet EXCEPT !.shown = sheet.core, !.calls = calls]
    BY <1>3, <1>4, <1>7 DEF SettingAnswered
  <2> QED
    BY <2>1, <1>0, <1>3, <1>7, <1>8 DEF SheetTypes, MovesTo
<1>9. Moved(c, call)
  BY <1>1, <1>6, <1>8, <1>12, <1>t, CallMoves
<1>10. sheet'.core = core /\ sheet'.wish = core /\ sheet'.shown = core
  BY <1>0, <1>12 DEF SheetTypes, MovesTo
<1> QED
  BY <1>6, <1>9, <1>10 DEF Moved, SheetGood, SheetSettled, AllFit

\* A refused write is followed by a read; a refused read leaves the document astray.
LEMMA RefusingSetting ==
  ASSUME SheetGood, NEW c \in DOMAIN sheet.calls, SettingRefused(c), astray' = {}
  PROVE  SheetGood'
<1>0. SheetTypes
  BY DEF SheetGood
<1>1. c \in CallsOut /\ sheet.calls[c].at = "refused" /\ sheet.calls[c] \in SheetCall
  BY <1>0 DEF SettingRefused, CallsOut, SheetTypes
<1>t. sheet.core \in SheetValue /\ sheet.shown \in SheetValue /\ sheet.calls \in Seq(SheetCall)
      /\ c \in DOMAIN sheet.calls
  BY <1>0 DEF SheetTypes
<1>3. sheet.wish = sheet.core
  BY <1>1 DEF SheetGood, AllFit, CallFits
<1>4. PICK call : call = [sheet.calls[c] EXCEPT !.at = "done"]
  OBVIOUS
<1>6. call \in SheetCall /\ call.at = "done"
  BY <1>1, <1>4 DEF SheetCall
<1>7. PICK calls : calls = [sheet.calls EXCEPT ![c] = call]
  OBVIOUS
<1>8. PICK read : read = [kind |-> "read", value |-> sheet.shown, names |-> {}, at |-> "out"]
  OBVIOUS
<1>9. PICK all : all = Append(calls, read)
  OBVIOUS
<1>10. sheet' = [sheet EXCEPT !.calls = all]
  <2>1. PICK done : done = [sheet EXCEPT !.calls = calls]
    OBVIOUS
  <2>2. sheet' = [done EXCEPT !.calls = Append(done.calls, read)]
    <3>1. astray \cup {"unreconciled"} # {}
      OBVIOUS
    <3> QED
      BY <1>4, <1>7, <1>8, <2>1, <3>1 DEF SettingRefused
  <2>3. done.calls = calls
    BY <1>0, <2>1 DEF SheetTypes
  <2> QED
    BY <1>0, <1>9, <2>1, <2>2, <2>3 DEF SheetTypes
<1>11. calls \in Seq(SheetCall) /\ Len(calls) = Len(sheet.calls)
       /\ calls[c] = call /\ \A d \in DOMAIN sheet.calls : d # c => calls[d] = sheet.calls[d]
  BY <1>t, <1>6, <1>7
<1>12. read \in SheetCall
  BY <1>t, <1>8 DEF SheetCall
<1>13. PICK n : n = Len(sheet.calls) + 1
  OBVIOUS
<1>14. all \in Seq(SheetCall) /\ DOMAIN all = DOMAIN sheet.calls \cup {n} /\ all[n] = read
       /\ \A d \in DOMAIN sheet.calls : all[d] = calls[d]
  BY <1>t, <1>9, <1>11, <1>12, <1>13
<1>15. sheet'.calls = all /\ sheet'.core = sheet.core /\ sheet'.wish = sheet.core
       /\ sheet'.load = sheet.load
  BY <1>0, <1>3, <1>10 DEF SheetTypes
<1>16. CallsOut = {c} /\ sheet.load = "landed"
  <2>1. CallsOut = {c}
    BY <1>1 DEF SheetGood, OneOut
  <2> QED
    BY <1>t, <2>1 DEF SheetGood, Unsaved
<1>17. CallsOut' = {n}
  <2>1. \A d \in DOMAIN sheet.calls : all[d].at = "done"
    BY <1>6, <1>11, <1>14, <1>16 DEF CallsOut
  <2> QED
    BY <1>8, <1>14, <1>15, <2>1 DEF CallsOut
<1>18. SheetTypes'
  BY <1>0, <1>10, <1>14 DEF SheetTypes
<1>19. CallFits(read)'
  BY <1>8, <1>15 DEF CallFits, Applied
<1> QED
  BY <1>14, <1>15, <1>16, <1>17, <1>18, <1>19 DEF SheetGood, Unsaved, OneOut, SheetSettled, AllFit

\* The first load.
LEMMA LoadingSheet ==
  ASSUME SheetGood, SheetServesLoad \/ SheetLoadFails \/ SheetLoadLands
  PROVE  SheetGood'
<1>0. SheetTypes
  BY DEF SheetGood
<1>1. sheet.load # "landed" /\ sheet.calls = <<>> /\ sheet.wish = sheet.core
      /\ (sheet.load = "answered" => sheet.read = sheet.core)
  BY DEF SheetGood, Unsaved, SheetServesLoad, SheetLoadFails, SheetLoadLands
<1> DEFINE Loads(load, read, shown) ==
        /\ sheet' = [sheet EXCEPT !.load = load, !.read = read, !.shown = shown]
        /\ load \in {"answered", "failed", "landed"} /\ read \in SheetValue \cup {None}
        /\ shown \in SheetValue
        /\ load = "answered" => read = sheet.core
        /\ load = "landed" => shown = sheet.core
<1>2. PICK load, read, shown : Loads(load, read, shown)
  <2>1. CASE SheetServesLoad
    <3>1. sheet' = [sheet EXCEPT !.load = "answered", !.read = sheet.core, !.shown = sheet.shown]
      BY <1>0, <2>1 DEF SheetServesLoad, SheetTypes
    <3>2. Loads("answered", sheet.core, sheet.shown)
      BY <1>0, <1>1, <3>1 DEF SheetTypes
    <3> HIDE DEF Loads
    <3> QED
      BY <3>2
  <2>2. CASE SheetLoadFails
    <3>1. sheet' = [sheet EXCEPT !.load = "failed", !.read = sheet.read, !.shown = sheet.shown]
      BY <1>0, <2>2 DEF SheetLoadFails, SheetTypes
    <3>2. Loads("failed", sheet.read, sheet.shown)
      BY <1>0, <1>1, <3>1 DEF SheetTypes
    <3> HIDE DEF Loads
    <3> QED
      BY <3>2
  <2>3. CASE SheetLoadLands
    <3>1. sheet' = [sheet EXCEPT !.load = "landed", !.read = sheet.read, !.shown = sheet.core]
      BY <1>0, <1>1, <2>3 DEF SheetLoadLands, SheetTypes
    <3>2. Loads("landed", sheet.read, sheet.core)
      BY <1>0, <1>1, <3>1 DEF SheetTypes
    <3> HIDE DEF Loads
    <3> QED
      BY <3>2
  <2> QED
    BY <2>1, <2>2, <2>3
<1>3. /\ sheet'.load = load /\ sheet'.read = read /\ sheet'.shown = shown
      /\ sheet'.calls = <<>> /\ sheet'.wish = sheet'.core /\ sheet'.core = sheet.core
  BY <1>0, <1>1, <1>2 DEF SheetTypes
<1>4. SheetTypes'
  BY <1>0, <1>2 DEF SheetTypes
<1>5. CallsOut' = {}
  <2>1. DOMAIN (<<>>) = {}
    OBVIOUS
  <2> QED
    BY <1>3, <2>1 DEF CallsOut
<1> QED
  BY <1>2, <1>3, <1>4, <1>5 DEF SheetGood, Unsaved, OneOut, SheetSettled, AllFit

\* Nothing clears what has gone astray.
LEMMA StaysAstray ==
  ASSUME [SettingsNext]_settingVars, astray' = {}
  PROVE  astray = {}
BY DEF SettingsNext, settingVars, SheetNext, ChangeSetting, CoreServesSetting, CoreFailsSetting,
   SettingAnswered, SettingRefused, SheetServesLoad, SheetLoadFails, SheetLoadLands,
   AppearanceNext, UpdateAppearance, RunThemeCommand, UsePanel, Asked, CoreServesAppearance,
   CoreFailsAppearance, AppearanceAnswered, Reread, RereadFails, AppearanceReconciled,
   CoreServesLoad, LoadFails, LoadLands, Draw

LEMMA AppearanceLeavesSheet ==
  ASSUME AppearanceNext
  PROVE  UNCHANGED sheet
BY DEF AppearanceNext, UpdateAppearance, RunThemeCommand, UsePanel, Asked, CoreServesAppearance,
   CoreFailsAppearance, AppearanceAnswered, Reread, RereadFails, AppearanceReconciled,
   CoreServesLoad, LoadFails, LoadLands, Draw

LEMMA SheetLeavesAppearance ==
  ASSUME SheetNext
  PROVE  UNCHANGED <<appearanceVars, wish>>
BY DEF SheetNext, ChangeSetting, CoreServesSetting, CoreFailsSetting,
   SettingAnswered, SettingRefused, SheetServesLoad, SheetLoadFails, SheetLoadLands

LEMMA SheetSameSame ==
  ASSUME SheetGood, UNCHANGED sheet
  PROVE  SheetGood'
BY DEF SheetGood, SheetTypes, Unsaved, OneOut, SheetSettled, AllFit, CallFits, Applied, CallsOut

LEMMA SheetStep ==
  ASSUME SettingsAssumption, SheetInv, [SettingsNext]_settingVars
  PROVE  SheetInv'
<1> SUFFICES ASSUME astray' = {} PROVE SheetGood'
  BY DEF SheetInv
<1>0. SheetGood
  BY StaysAstray DEF SheetInv
<1>1. CASE SheetNext
  <2>1. CASE \E o \in SheetOffers : ChangeSetting(o[1], o[2])
    BY <1>0, <2>1, ChangingSetting
  <2>2. CASE \E c \in DOMAIN sheet.calls :
               CoreServesSetting(c) \/ CoreFailsSetting(c) \/ SettingAnswered(c) \/ SettingRefused(c)
    BY <1>0, <2>2, ServingSetting, FailingSetting, AnsweringSetting, RefusingSetting
  <2>3. CASE SheetServesLoad \/ SheetLoadFails \/ SheetLoadLands
    BY <1>0, <2>3, LoadingSheet
  <2> QED
    BY <1>1, <2>1, <2>2, <2>3 DEF SheetNext
<1>2. CASE UNCHANGED sheet
  BY <1>0, <1>2, SheetSameSame
<1> QED
  BY <1>1, <1>2, AppearanceLeavesSheet DEF SettingsNext, settingVars

-------------------------------------------------------------------------------
(* What a gesture makes of the appearance.                                   *)

LEMMA LeastIn ==
  ASSUME NEW S, S \subseteq Nat, S # {}
  PROVE  Min(S) \in S
<1>1. PICK top : top \in S
  OBVIOUS
<1>2. \E n \in S : \A m \in S : n <= m
  BY <1>1, LeastNat
<1> QED
  BY <1>2 DEF Min

LEMMA InstallsAppearance ==
  ASSUME NEW doc \in Appearance, NEW i \in ThemeId, NEW text \in ThemeText \cup {None}
  PROVE  Installs(doc, i, text) \in Appearance
<1>1. PICK themes : themes = [doc.custom_themes EXCEPT ![i] = text]
  OBVIOUS
<1>2. themes \in [ThemeId -> ThemeText \cup {None}]
  BY <1>1 DEF Appearance
<1>3. Installs(doc, i, text) = [doc EXCEPT !.custom_themes = themes]
  BY <1>1 DEF Installs
<1> QED
  BY <1>2, <1>3 DEF Appearance

\* A gesture is refused or has one outcome.
LEMMA OneOutcome ==
  ASSUME SettingsAssumption, NEW doc \in Appearance, NEW g, Meant(g)
  PROVE  Outcomes(doc, g) = {} \/ \E d \in Appearance : Outcomes(doc, g) = {d}
<1> DEFINE Goal == Outcomes(doc, g) = {} \/ \E d \in Appearance : Outcomes(doc, g) = {d}
<1>0. g.op \in Whole \cup Commands /\ ThemeId \subseteq Nat
  BY DEF Meant, AppearanceGesture, SettingsAssumption
<1>1. CASE g.op = "select"
  <2>1. Outcomes(doc, g) = SelectTheme(doc, g)
    BY <1>1 DEF Outcomes
  <2>2. g.id \in Custom(doc) \cup {DEFAULT_THEME_ID} => [doc EXCEPT !.selected = g.id] \in Appearance
    BY DEF Appearance, Custom
  <2> QED
    BY <2>1, <2>2 DEF SelectTheme
<1>2. CASE g.op \in {"create", "import", "replace", "keep_both"}
  <2>1. Outcomes(doc, g) = InstallCustomTheme(doc, g)
    BY <1>2 DEF Outcomes
  <2>2. g.id \in ThemeId /\ g.value \in ThemeText
    BY <1>2 DEF Meant
  <2>3. Installs(doc, g.id, g.value) \in Appearance
    BY <2>2, InstallsAppearance
  <2>4. Spare(doc) # {} => Installs(doc, Min(Spare(doc)), g.value) \in Appearance
    <3>1. Spare(doc) \subseteq ThemeId
      BY DEF Spare
    <3>2. Spare(doc) # {} => Min(Spare(doc)) \in ThemeId
      BY <1>0, <3>1, LeastIn
    <3> QED
      BY <2>2, <3>2, InstallsAppearance
  <2> QED
    BY <2>1, <2>3, <2>4 DEF InstallCustomTheme
<1>3. CASE g.op = "update"
  <2>1. Outcomes(doc, g) = UpdateCustomTheme(doc, g)
    BY <1>3 DEF Outcomes
  <2>2. g.id \in ThemeId /\ g.value \in ThemeText
    BY <1>3 DEF Meant
  <2>3. Installs(doc, g.id, g.value) \in Appearance
    BY <2>2, InstallsAppearance
  <2> QED
    BY <2>1, <2>3 DEF UpdateCustomTheme
<1>4. CASE g.op = "duplicate"
  <2>1. Outcomes(doc, g) = DuplicateTheme(doc, g)
    BY <1>4 DEF Outcomes
  <2>2. g.id \in Custom(doc) /\ Spare(doc) # {} =>
          Installs(doc, Min(Spare(doc)), doc.custom_themes[g.id]) \in Appearance
    <3>1. Spare(doc) \subseteq ThemeId
      BY DEF Spare
    <3>2. Spare(doc) # {} => Min(Spare(doc)) \in ThemeId
      BY <1>0, <3>1, LeastIn
    <3>3. g.id \in Custom(doc) => doc.custom_themes[g.id] \in ThemeText \cup {None}
      BY DEF Custom, Appearance
    <3> QED
      BY <3>2, <3>3, InstallsAppearance
  <2> QED
    BY <2>1, <2>2 DEF DuplicateTheme
<1>5. CASE g.op = "remove"
  <2>1. Outcomes(doc, g) = RemoveCustomTheme(doc, g)
    BY <1>5 DEF Outcomes
  <2>2. PICK d : d = Installs(doc, g.id, None)
    OBVIOUS
  <2>3. d \in Appearance
    <3>1. g.id \in ThemeId
      BY <1>5 DEF Meant
    <3> QED
      BY <2>2, <3>1, InstallsAppearance
  <2>4. PICK chosen : chosen = IF doc.selected = g.id THEN DEFAULT_THEME_ID ELSE d.selected
    OBVIOUS
  <2>5. [d EXCEPT !.selected = chosen] \in Appearance
    BY <2>3, <2>4 DEF Appearance
  <2>6. RemoveCustomTheme(doc, g) = {[d EXCEPT !.selected = chosen]}
    BY <2>2, <2>4 DEF RemoveCustomTheme
  <2> QED
    BY <2>1, <2>5, <2>6
<1>6. CASE g.op = "glass"
  <2>1. Outcomes(doc, g) = {[doc EXCEPT !.glass_opacity = g.value]}
    BY <1>6 DEF Outcomes
  <2>2. [doc EXCEPT !.glass_opacity = g.value] \in Appearance
    BY <1>6 DEF Meant, Appearance
  <2> QED
    BY <2>1, <2>2
<1>7. CASE g.op \in {"theme", "terminal"}
  <2>1. Outcomes(doc, g) = {[doc EXCEPT ![g.op] = g.value]}
    BY <1>7 DEF Outcomes
  <2>2. [doc EXCEPT ![g.op] = g.value] \in Appearance
    <3>1. CASE g.op = "theme"
      <4>1. [doc EXCEPT !.theme = g.value] \in Appearance
        BY <3>1 DEF Meant, Appearance
      <4> QED
        BY <3>1, <4>1
    <3>2. CASE g.op = "terminal"
      <4>1. [doc EXCEPT !.terminal = g.value] \in Appearance
        BY <3>2 DEF Meant, Appearance
      <4> QED
        BY <3>2, <4>1
    <3> QED
      BY <1>7, <3>1, <3>2
  <2> QED
    BY <2>1, <2>2
<1> QED
  BY <1>0, <1>1, <1>2, <1>3, <1>4, <1>5, <1>6, <1>7 DEF Whole, Commands

LEMMA AloneServes ==
  ASSUME SettingsAssumption, NEW doc \in Appearance, NEW g, Meant(g)
  PROVE  /\ Alone(doc, g) \in Appearance
         /\ Outcomes(doc, g) = {} => Alone(doc, g) = doc
         /\ \A d \in Outcomes(doc, g) : Alone(doc, g) = d
BY OneOutcome DEF Alone

\* A change of one setting, as the user asked for it and as an update writes it.
LEMMA AloneSets ==
  ASSUME SettingsAssumption, NEW doc \in Appearance, NEW g, Meant(g), g.op \in Whole
  PROVE  Alone(doc, g) = [doc EXCEPT ![g.op] = g.value]
<1>1. Outcomes(doc, g) = {[doc EXCEPT ![g.op] = g.value]}
  BY DEF Outcomes, Whole
<1> QED
  BY <1>1, AloneServes

LEMMA CarryingTerminal ==
  ASSUME NEW doc \in Appearance, NEW g, Meant(g), g.op = "terminal", NEW t \in TerminalSettings
  PROVE  Spread(doc, Carrying(g, t)) = [doc EXCEPT !.terminal = g.value]
BY DEF Spread, Carrying, Appearance, Meant

LEMMA CarryingTheme ==
  ASSUME NEW doc \in Appearance, NEW g, Meant(g), g.op = "theme", NEW t \in TerminalSettings
  PROVE  \E d : d = [doc EXCEPT !.theme = g.value] /\ Spread(doc, Carrying(g, t)) = [d EXCEPT !.terminal = t]
<1>1. PICK d : d = [doc EXCEPT !.theme = g.value]
  OBVIOUS
<1>2. Spread(doc, Carrying(g, t)) = [d EXCEPT !.terminal = t]
  BY <1>1 DEF Spread, Carrying, Appearance, Meant, TerminalSettings
<1> QED
  BY <1>1, <1>2

LEMMA CarryingSpreads ==
  ASSUME NEW doc \in Appearance, NEW g, Meant(g), g.op \in Whole, NEW t \in TerminalSettings
  PROVE  /\ Spread(doc, Carrying(g, t)) \in Appearance
         /\ Spread(doc, Carrying(g, t)).terminal = Carrying(g, t).terminal
<1>1. PICK next : next = Spread(doc, Carrying(g, t))
  OBVIOUS
<1>2. next \in Appearance /\ next.terminal = Carrying(g, t).terminal
  <2>1. CASE g.op = "terminal"
    BY <1>1, <2>1 DEF Spread, Carrying, Appearance, Meant
  <2>2. CASE g.op = "theme"
    BY <1>1, <2>2 DEF Spread, Carrying, Appearance, Meant, TerminalSettings
  <2> QED
    BY <2>1, <2>2 DEF Whole
<1> QED
  BY <1>1, <1>2

\* With the terminal settings of the document it changes, an update does what was asked for.
LEMMA AloneSpreads ==
  ASSUME SettingsAssumption, NEW doc \in Appearance, NEW g, Meant(g), g.op \in Whole,
         NEW t \in TerminalSettings, g.op = "theme" => t = doc.terminal
  PROVE  Spread(doc, Carrying(g, t)) = Alone(doc, g)
<1>1. Alone(doc, g) = [doc EXCEPT ![g.op] = g.value]
  BY AloneSets
<1>2. PICK next : next = Spread(doc, Carrying(g, t))
  OBVIOUS
<1>3. CASE g.op = "terminal"
  <2>1. next = [doc EXCEPT !.terminal = g.value]
    BY <1>2, <1>3, CarryingTerminal
  <2> QED
    BY <1>1, <1>2, <1>3, <2>1
<1>4. CASE g.op = "theme"
  <2>1. PICK d : d = [doc EXCEPT !.theme = g.value] /\ next = [d EXCEPT !.terminal = t]
    BY <1>2, <1>4, CarryingTheme
  <2>2. next = [doc EXCEPT !.theme = g.value]
    BY <1>4, <2>1 DEF Appearance
  <2> QED
    BY <1>1, <1>2, <1>4, <2>2
<1> QED
  BY <1>3, <1>4 DEF Whole

\* Only a change of the terminal settings changes them.
LEMMA TerminalAlone ==
  ASSUME SettingsAssumption, NEW doc \in Appearance, NEW g, Meant(g)
  PROVE  Alone(doc, g).terminal = IF g.op = "terminal" THEN g.value ELSE doc.terminal
<1>1. CASE g.op \in Whole
  BY <1>1, AloneSets DEF Appearance, Whole
<1>2. CASE g.op \in Commands
  <2>1. \A d \in Outcomes(doc, g) : d.terminal = doc.terminal
    BY <1>2 DEF Outcomes, SelectTheme, InstallCustomTheme, UpdateCustomTheme, DuplicateTheme, RemoveCustomTheme,
                Installs, Commands, Appearance
  <2>2. Alone(doc, g) = doc \/ Alone(doc, g) \in Outcomes(doc, g)
    BY DEF Alone
  <2> QED
    BY <1>2, <2>1, <2>2 DEF Commands
<1> QED
  BY <1>1, <1>2 DEF Meant, AppearanceGesture

LEMMA SpreadAgain ==
  ASSUME NEW doc, NEW patch
  PROVE  Spread(Spread(doc, patch), patch) = Spread(doc, patch)
BY DEF Spread

\* Of two settings of the opacity the second counts.
LEMMA GlassAgain ==
  ASSUME SettingsAssumption, NEW doc \in Appearance, NEW g, NEW h, Meant(g), Meant(h),
         g.op = "glass", h.op = "glass"
  PROVE  Alone(Alone(doc, g), h) = Alone(doc, h)
<1>1. Alone(doc, g) = [doc EXCEPT !.glass_opacity = g.value]
  BY AloneServes DEF Outcomes
<1>2. PICK d : d = Alone(doc, g)
  OBVIOUS
<1>3. d \in Appearance
  BY <1>2, AloneServes
<1>4. Alone(d, h) = [d EXCEPT !.glass_opacity = h.value]
  BY <1>3, AloneServes DEF Outcomes
<1>5. Alone(doc, h) = [doc EXCEPT !.glass_opacity = h.value]
  BY AloneServes DEF Outcomes
<1> QED
  BY <1>1, <1>2, <1>4, <1>5 DEF Appearance

-------------------------------------------------------------------------------
(* Gestures one after the other, and the queue that holds them.              *)

LEMMA UnfoldingIs ==
  ASSUME NEW N \in Nat, NEW doc, NEW f, NEW step, Unfolding(f, N, doc, step)
  PROVE  f[0] = doc /\ \A i \in 1..N : f[i] = step[i][f[i - 1]]
BY DEF Unfolding, Unfolds

\* The same steps lead to the same documents.
LEMMA SameWay ==
  ASSUME NEW N \in Nat, NEW M \in Nat, NEW n \in 0..N, n <= M, NEW doc, NEW f, NEW g, NEW step, NEW next,
         Unfolding(f, N, doc, step), Unfolding(g, M, doc, next), \A i \in 1..n : step[i] = next[i]
  PROVE  f[n] = g[n]
<1>1. f[0] = doc /\ \A i \in 1..N : f[i] = step[i][f[i - 1]]
  BY UnfoldingIs
<1>2. g[0] = doc /\ \A i \in 1..M : g[i] = next[i][g[i - 1]]
  BY UnfoldingIs
<1> DEFINE T == {i \in 0..n : f[i] = g[i]}
<1>3. 0 \in T
  BY <1>1, <1>2
<1>4. \A i \in 1..n : i - 1 \in T => i \in T
  BY <1>1, <1>2
<1>5. n \in Nat
  OBVIOUS
<1>6. n \in T
  <2> HIDE DEF T
  <2> QED
    BY <1>3, <1>4, <1>5, UpTo
<1> QED
  BY <1>6

\* The rest of the way from the first document on.
LEMMA RestOfWay ==
  ASSUME NEW N \in Nat, N # 0, NEW doc, NEW first, NEW f, NEW g, NEW step, NEW rest,
         Unfolding(f, N, doc, step), Unfolding(g, N - 1, first, rest), first = f[1],
         \A i \in 1..(N - 1) : rest[i] = step[i + 1]
  PROVE  \A i \in 0..(N - 1) : f[i + 1] = g[i]
<1>1. f[0] = doc /\ \A i \in 1..N : f[i] = step[i][f[i - 1]]
  BY UnfoldingIs
<1>2. PICK n : n = N - 1
  OBVIOUS
<1>3. n \in Nat /\ n + 1 = N
  BY <1>2
<1>4. g[0] = first /\ \A i \in 1..n : g[i] = rest[i][g[i - 1]]
  BY <1>2, <1>3, UnfoldingIs
<1> DEFINE T == {i \in 0..n : f[i + 1] = g[i]}
<1>5. 0 \in T
  BY <1>3, <1>4
<1>6. ASSUME NEW i \in 1..n, i - 1 \in T PROVE i \in T
  <2>1. f[i] = g[i - 1] /\ i + 1 \in 1..N /\ (i + 1) - 1 = i
    BY <1>3, <1>6
  <2>2. f[i + 1] = step[i + 1][f[i]]
    BY <1>1, <2>1
  <2> QED
    BY <1>2, <1>4, <2>1, <2>2
<1>7. \A i \in 0..n : i \in T
  <2> HIDE DEF T
  <2>1. \A i \in 1..n : i - 1 \in T => i \in T
    BY <1>6
  <2> QED
    BY <1>3, <1>5, <2>1, UpTo
<1> QED
  BY <1>2, <1>3, <1>7

LEMMA TogetherUnfolds ==
  ASSUME SettingsAssumption, NEW doc \in Appearance, NEW gestures, AllMeant(gestures)
  PROVE  \E f : /\ Unfolding(f, Len(gestures), doc, AloneSteps(gestures))
                /\ Together(doc, gestures) = f[Len(gestures)]
<1>1. PICK N : N = Len(gestures)
  OBVIOUS
<1>2. N \in Nat
  BY <1>1 DEF AllMeant
<1>3. PICK step : step = AloneSteps(gestures)
  OBVIOUS
<1>4. \A i \in 1..N, d \in Appearance : Alone(d, gestures[i]) \in Appearance
  BY <1>1, AloneServes DEF AllMeant
<1>5. step \in [1..N -> [Appearance -> Appearance]]
  BY <1>1, <1>3, <1>4 DEF AloneSteps
<1>6. PICK f : Unfolds(f, N, doc, step) /\ \A i \in 0..N : f[i] \in Appearance
  BY <1>2, <1>5, Recursion
<1> DEFINE Made(g) ==
      g = [i \in 0..Len(gestures) |-> IF i = 0 THEN doc ELSE Alone(g[i - 1], gestures[i])]
<1>7. Made(f)
  <2>1. \A i \in 0..N : i # 0 => step[i][f[i - 1]] = Alone(f[i - 1], gestures[i])
    <3>1. \A i \in 0..N : i # 0 => i \in 1..N /\ f[i - 1] \in Appearance
      BY <1>2, <1>6
    <3> QED
      BY <1>1, <1>3, <3>1 DEF AloneSteps
  <2> QED
    BY <1>1, <1>6, <2>1 DEF Unfolds
<1>8. PICK g : g = CHOOSE h : Made(h)
  OBVIOUS
<1>9. Made(g) /\ Together(doc, gestures) = g[N]
  <2>1. Made(g)
    BY <1>7, <1>8
  <2>2. Together(doc, gestures) = g[N]
    BY <1>1, <1>8 DEF Together
  <2> QED
    BY <2>1, <2>2
<1>10. ASSUME NEW h, Made(h)
       PROVE  h[0] = doc /\ \A i \in 1..N : h[i] = Alone(h[i - 1], gestures[i])
  <2>1. 0 \in 0..Len(gestures) /\ \A i \in 1..N : i \in 0..Len(gestures) /\ i # 0
    BY <1>1, <1>2
  <2>2. \A i \in 0..Len(gestures) : h[i] = IF i = 0 THEN doc ELSE Alone(h[i - 1], gestures[i])
    BY <1>10, Zenon
  <2>3. h[0] = doc
    BY <2>1, <2>2
  <2>4. ASSUME NEW i \in 1..N PROVE h[i] = Alone(h[i - 1], gestures[i])
    BY <2>1, <2>2
  <2> QED
    BY <2>3, <2>4
<1> HIDE DEF Made
<1>11. /\ f[0] = doc /\ \A i \in 1..N : f[i] = Alone(f[i - 1], gestures[i])
       /\ g[0] = doc /\ \A i \in 1..N : g[i] = Alone(g[i - 1], gestures[i])
  BY <1>7, <1>9, <1>10
<1>12. \A i \in 0..N : g[i] = f[i]
  <2> DEFINE T == {i \in 0..N : g[i] = f[i]}
  <2>1. 0 \in T
    BY <1>2, <1>11
  <2>2. \A i \in 1..N : i - 1 \in T => i \in T
    BY <1>2, <1>11
  <2>3. \A i \in 0..N : i \in T
    <3> HIDE DEF T
    <3> QED
      BY <1>2, <2>1, <2>2, UpTo
  <2> QED
    BY <2>3
<1>13. Unfolding(f, N, doc, step) /\ Together(doc, gestures) = f[N]
  <2>1. N \in 0..N
    BY <1>2
  <2>2. g[N] = f[N]
    BY <1>12, <2>1
  <2> QED
    BY <1>6, <1>9, <2>2 DEF Unfolding
<1> QED
  BY <1>1, <1>3, <1>13

LEMMA TogetherMeant ==
  ASSUME SettingsAssumption, NEW doc \in Appearance, NEW gestures, AllMeant(gestures)
  PROVE  Together(doc, gestures) \in Appearance
<1>1. PICK f : /\ Unfolding(f, Len(gestures), doc, AloneSteps(gestures))
               /\ Together(doc, gestures) = f[Len(gestures)]
  BY TogetherUnfolds
<1>2. Len(gestures) \in Nat
  BY DEF AllMeant
<1> QED
  BY <1>1, <1>2 DEF Unfolding

LEMMA TogetherOne ==
  ASSUME SettingsAssumption, NEW doc \in Appearance, NEW gestures, AllMeant(gestures), Len(gestures) = 1
  PROVE  Together(doc, gestures) = Alone(doc, gestures[1])
<1>1. PICK f : /\ Unfolding(f, Len(gestures), doc, AloneSteps(gestures))
               /\ Together(doc, gestures) = f[Len(gestures)]
  BY TogetherUnfolds
<1>2. f[0] = doc /\ f[1] = AloneSteps(gestures)[1][f[0]]
  BY <1>1, UnfoldingIs
<1>3. f[1] = Alone(doc, gestures[1])
  BY <1>2 DEF AloneSteps
<1> QED
  BY <1>1, <1>3

LEMMA TogetherMore ==
  ASSUME SettingsAssumption, NEW doc \in Appearance, NEW gestures, AllMeant(gestures), NEW g, Meant(g)
  PROVE  /\ AllMeant(Append(gestures, g))
         /\ Together(doc, Append(gestures, g)) = Alone(Together(doc, gestures), g)
<1>1. PICK more : more = Append(gestures, g)
  OBVIOUS
<1>2. PICK N : N = Len(gestures)
  OBVIOUS
<1>3. N \in Nat /\ Len(more) = N + 1 /\ more[N + 1] = g /\ \A i \in 1..N : more[i] = gestures[i]
  BY <1>1, <1>2 DEF AllMeant
<1>4. AllMeant(more)
  <2>1. more \in Seq(AppearanceGesture)
    BY <1>1 DEF AllMeant, Meant
  <2>2. \A i \in 1..(N + 1) : Meant(more[i])
    BY <1>2, <1>3 DEF AllMeant
  <2> QED
    BY <1>3, <2>1, <2>2 DEF AllMeant
<1>5. PICK f : Unfolding(f, N, doc, AloneSteps(gestures)) /\ Together(doc, gestures) = f[N]
  BY <1>2, TogetherUnfolds
<1>6. PICK h : Unfolding(h, N + 1, doc, AloneSteps(more)) /\ Together(doc, more) = h[N + 1]
  BY <1>3, <1>4, TogetherUnfolds
<1>7. f[N] = h[N]
  <2>1. \A i \in 1..N : AloneSteps(gestures)[i] = AloneSteps(more)[i]
    BY <1>2, <1>3 DEF AloneSteps
  <2>2. N \in 0..N /\ N <= N + 1 /\ N + 1 \in Nat
    BY <1>3
  <2> QED
    BY <1>3, <1>5, <1>6, <2>1, <2>2, SameWay
<1>8. h[N + 1] = AloneSteps(more)[N + 1][h[N]]
  BY <1>3, <1>6, UnfoldingIs
<1>9. f[N] \in Appearance
  BY <1>3, <1>5 DEF Unfolding
<1>10. h[N + 1] = Alone(h[N], g)
  BY <1>3, <1>7, <1>8, <1>9 DEF AloneSteps
<1> QED
  BY <1>1, <1>4, <1>5, <1>6, <1>7, <1>10

\* The documents on the way, gesture by gesture.
LEMMA TogetherWay ==
  ASSUME SettingsAssumption, NEW doc \in Appearance, NEW gestures, AllMeant(gestures), NEW N, N = Len(gestures)
  PROVE  \E f : /\ f[0] = doc /\ Together(doc, gestures) = f[N]
                /\ \A i \in 0..N : f[i] \in Appearance
                /\ \A i \in 1..N : f[i] = Alone(f[i - 1], gestures[i])
<1>1. PICK f : Unfolding(f, N, doc, AloneSteps(gestures)) /\ Together(doc, gestures) = f[N]
  BY TogetherUnfolds
<1>2. N \in Nat
  BY DEF AllMeant
<1>3. f[0] = doc /\ \A i \in 1..N : f[i] = AloneSteps(gestures)[i][f[i - 1]]
  BY <1>1, <1>2, UnfoldingIs
<1>4. \A i \in 0..N : f[i] \in Appearance
  BY <1>1 DEF Unfolding
<1>5. \A i \in 1..N : i - 1 \in 0..N
  BY <1>2
<1>6. \A i \in 1..N : f[i] = Alone(f[i - 1], gestures[i])
  BY <1>3, <1>4, <1>5 DEF AloneSteps
<1> QED
  BY <1>1, <1>3, <1>4, <1>6

\* The terminal settings gestures make depend on nothing else of the document.
LEMMA TerminalTogether ==
  ASSUME SettingsAssumption, NEW doc \in Appearance, NEW other \in Appearance, doc.terminal = other.terminal,
         NEW gestures, AllMeant(gestures)
  PROVE  Together(doc, gestures).terminal = Together(other, gestures).terminal
<1>1. PICK N : N = Len(gestures)
  OBVIOUS
<1>2. N \in Nat /\ \A i \in 1..N : Meant(gestures[i]) /\ i - 1 \in 0..N
  BY <1>1 DEF AllMeant
<1>3. PICK f : /\ f[0] = doc /\ Together(doc, gestures) = f[N]
               /\ \A i \in 0..N : f[i] \in Appearance
               /\ \A i \in 1..N : f[i] = Alone(f[i - 1], gestures[i])
  BY <1>1, TogetherWay
<1>4. PICK h : /\ h[0] = other /\ Together(other, gestures) = h[N]
               /\ \A i \in 0..N : h[i] \in Appearance
               /\ \A i \in 1..N : h[i] = Alone(h[i - 1], gestures[i])
  BY <1>1, TogetherWay
<1> DEFINE T == {i \in 0..N : f[i].terminal = h[i].terminal}
<1>5. 0 \in T
  BY <1>2, <1>3, <1>4
<1>6. ASSUME NEW i \in 1..N, i - 1 \in T PROVE i \in T
  <2>1. PICK d, e, g : d = f[i - 1] /\ e = h[i - 1] /\ g = gestures[i]
    OBVIOUS
  <2>2. d \in Appearance /\ e \in Appearance /\ Meant(g) /\ d.terminal = e.terminal
    BY <1>2, <1>3, <1>4, <1>6, <2>1
  <2>3. Alone(d, g).terminal = Alone(e, g).terminal
    BY <2>2, TerminalAlone
  <2>4. f[i] = Alone(d, g) /\ h[i] = Alone(e, g)
    BY <1>3, <1>4, <2>1
  <2> QED
    BY <1>2, <2>3, <2>4
<1>7. N \in T
  <2> HIDE DEF T
  <2>1. N \in 0..N /\ \A i \in 1..N : i - 1 \in T => i \in T
    BY <1>2, <1>6
  <2> QED
    BY <1>2, <1>5, <2>1, UpTo
<1> QED
  BY <1>3, <1>4, <1>7

\* Gestures that change no terminal settings leave them.
LEMMA TerminalStays ==
  ASSUME SettingsAssumption, NEW doc \in Appearance, NEW gestures, AllMeant(gestures),
         \A i \in 1..Len(gestures) : gestures[i].op # "terminal"
  PROVE  Together(doc, gestures).terminal = doc.terminal
<1>1. PICK N : N = Len(gestures)
  OBVIOUS
<1>2. N \in Nat /\ \A i \in 1..N : Meant(gestures[i]) /\ i - 1 \in 0..N
  BY <1>1 DEF AllMeant
<1>3. PICK f : /\ f[0] = doc /\ Together(doc, gestures) = f[N]
               /\ \A i \in 0..N : f[i] \in Appearance
               /\ \A i \in 1..N : f[i] = Alone(f[i - 1], gestures[i])
  BY <1>1, TogetherWay
<1> DEFINE T == {i \in 0..N : f[i].terminal = doc.terminal}
<1>4. 0 \in T
  BY <1>2, <1>3
<1>5. ASSUME NEW i \in 1..N, i - 1 \in T PROVE i \in T
  <2>1. PICK d, g : d = f[i - 1] /\ g = gestures[i]
    OBVIOUS
  <2>2. d \in Appearance /\ Meant(g) /\ d.terminal = doc.terminal /\ g.op # "terminal"
    BY <1>1, <1>2, <1>3, <1>5, <2>1
  <2>3. Alone(d, g).terminal = doc.terminal
    BY <2>2, TerminalAlone
  <2> QED
    BY <1>2, <1>3, <2>1, <2>3
<1>6. N \in T
  <2> HIDE DEF T
  <2>1. N \in 0..N /\ \A i \in 1..N : i - 1 \in T => i \in T
    BY <1>2, <1>5
  <2> QED
    BY <1>2, <1>4, <2>1, UpTo
<1> QED
  BY <1>3, <1>6

\* The last gesture, if it changes them, makes them what they are.
LEMMA TerminalLast ==
  ASSUME SettingsAssumption, NEW doc \in Appearance, NEW gestures, AllMeant(gestures), NEW N, N = Len(gestures),
         N # 0, gestures[N].op = "terminal"
  PROVE  Together(doc, gestures).terminal = gestures[N].value
<1>1. N \in 1..N /\ N - 1 \in 0..N /\ Meant(gestures[N])
  BY DEF AllMeant
<1>2. PICK f : /\ Together(doc, gestures) = f[N]
               /\ \A i \in 0..N : f[i] \in Appearance
               /\ \A i \in 1..N : f[i] = Alone(f[i - 1], gestures[i])
  BY TogetherWay
<1>3. PICK d, g : d = f[N - 1] /\ g = gestures[N]
  OBVIOUS
<1>4. d \in Appearance /\ f[N] = Alone(d, g)
  BY <1>1, <1>2, <1>3
<1> QED
  BY <1>1, <1>2, <1>3, <1>4, TerminalAlone

LEMMA MadeMeant ==
  ASSUME NEW m, WellMade(m)
  PROVE  AllMeant(m.gestures) /\ Len(m.gestures) \in Nat \ {0}
BY DEF WellMade, PendingMutation, AllMeant

LEMMA GrantedUnfolds ==
  ASSUME SettingsAssumption, NEW doc \in Appearance, NEW queue, AllMade(queue)
  PROVE  \E f : /\ Unfolding(f, Len(queue), doc, TogetherSteps(queue))
                /\ Granted(doc, queue) = f[Len(queue)]
<1>1. PICK N : N = Len(queue)
  OBVIOUS
<1>2. N \in Nat
  BY <1>1 DEF AllMade
<1>3. PICK step : step = TogetherSteps(queue)
  OBVIOUS
<1>4. \A i \in 1..N, d \in Appearance : Together(d, queue[i].gestures) \in Appearance
  BY <1>1, MadeMeant, TogetherMeant DEF AllMade
<1>5. step \in [1..N -> [Appearance -> Appearance]]
  BY <1>1, <1>3, <1>4 DEF TogetherSteps
<1>6. PICK f : Unfolds(f, N, doc, step) /\ \A i \in 0..N : f[i] \in Appearance
  BY <1>2, <1>5, Recursion
<1> DEFINE Made(g) ==
      g = [i \in 0..Len(queue) |-> IF i = 0 THEN doc ELSE Together(g[i - 1], queue[i].gestures)]
<1>7. Made(f)
  <2>1. \A i \in 0..N : i # 0 => step[i][f[i - 1]] = Together(f[i - 1], queue[i].gestures)
    <3>1. \A i \in 0..N : i # 0 => i \in 1..N /\ f[i - 1] \in Appearance
      BY <1>2, <1>6
    <3> QED
      BY <1>1, <1>3, <3>1 DEF TogetherSteps
  <2> QED
    BY <1>1, <1>6, <2>1 DEF Unfolds
<1>8. PICK g : g = CHOOSE h : Made(h)
  OBVIOUS
<1>9. Made(g) /\ Granted(doc, queue) = g[N]
  <2>1. Made(g)
    BY <1>7, <1>8
  <2>2. Granted(doc, queue) = g[N]
    BY <1>1, <1>8 DEF Granted
  <2> QED
    BY <2>1, <2>2
<1>10. ASSUME NEW h, Made(h)
       PROVE  h[0] = doc /\ \A i \in 1..N : h[i] = Together(h[i - 1], queue[i].gestures)
  <2>1. 0 \in 0..Len(queue) /\ \A i \in 1..N : i \in 0..Len(queue) /\ i # 0
    BY <1>1, <1>2
  <2>2. \A i \in 0..Len(queue) : h[i] = IF i = 0 THEN doc ELSE Together(h[i - 1], queue[i].gestures)
    BY <1>10, Zenon
  <2>3. h[0] = doc
    BY <2>1, <2>2
  <2>4. ASSUME NEW i \in 1..N PROVE h[i] = Together(h[i - 1], queue[i].gestures)
    BY <2>1, <2>2
  <2> QED
    BY <2>3, <2>4
<1> HIDE DEF Made
<1>11. /\ f[0] = doc /\ \A i \in 1..N : f[i] = Together(f[i - 1], queue[i].gestures)
       /\ g[0] = doc /\ \A i \in 1..N : g[i] = Together(g[i - 1], queue[i].gestures)
  BY <1>7, <1>9, <1>10
<1>12. \A i \in 0..N : g[i] = f[i]
  <2> DEFINE T == {i \in 0..N : g[i] = f[i]}
  <2>1. 0 \in T
    BY <1>2, <1>11
  <2>2. \A i \in 1..N : i - 1 \in T => i \in T
    BY <1>2, <1>11
  <2>3. \A i \in 0..N : i \in T
    <3> HIDE DEF T
    <3> QED
      BY <1>2, <2>1, <2>2, UpTo
  <2> QED
    BY <2>3
<1>13. Unfolding(f, N, doc, step) /\ Granted(doc, queue) = f[N]
  <2>1. N \in 0..N
    BY <1>2
  <2>2. g[N] = f[N]
    BY <1>12, <2>1
  <2> QED
    BY <1>6, <1>9, <2>2 DEF Unfolding
<1> QED
  BY <1>1, <1>3, <1>13

LEMMA GrantedMade ==
  ASSUME SettingsAssumption, NEW doc \in Appearance, NEW queue, AllMade(queue)
  PROVE  Granted(doc, queue) \in Appearance
<1>1. PICK f : /\ Unfolding(f, Len(queue), doc, TogetherSteps(queue))
               /\ Granted(doc, queue) = f[Len(queue)]
  BY GrantedUnfolds
<1>2. Len(queue) \in Nat
  BY DEF AllMade
<1> QED
  BY <1>1, <1>2 DEF Unfolding

LEMMA GrantedNone ==
  ASSUME SettingsAssumption, NEW doc \in Appearance
  PROVE  Granted(doc, <<>>) = doc
<1>1. PICK queue : queue = <<>>
  OBVIOUS
<1>2. AllMade(queue) /\ Len(queue) = 0
  BY <1>1 DEF AllMade
<1>3. PICK f : Unfolding(f, 0, doc, TogetherSteps(queue)) /\ Granted(doc, queue) = f[0]
  BY <1>2, GrantedUnfolds
<1>4. f[0] = doc
  BY <1>3, UnfoldingIs
<1> QED
  BY <1>1, <1>3, <1>4

\* A mutation joins at the tail, or its last one is told one gesture more.
LEMMA GrantedMore ==
  ASSUME SettingsAssumption, NEW doc \in Appearance, NEW queue, AllMade(queue), NEW m, WellMade(m)
  PROVE  /\ AllMade(Append(queue, m))
         /\ Granted(doc, Append(queue, m)) = Together(Granted(doc, queue), m.gestures)
<1>1. PICK more : more = Append(queue, m)
  OBVIOUS
<1>2. PICK N : N = Len(queue)
  OBVIOUS
<1>3. N \in Nat /\ Len(more) = N + 1 /\ more[N + 1] = m /\ \A i \in 1..N : more[i] = queue[i]
  BY <1>1, <1>2 DEF AllMade
<1>4. AllMade(more)
  <2>1. more \in Seq(PendingMutation)
    BY <1>1 DEF AllMade, WellMade
  <2>2. \A i \in 1..(N + 1) : WellMade(more[i])
    BY <1>2, <1>3 DEF AllMade
  <2> QED
    BY <1>3, <2>1, <2>2 DEF AllMade
<1>5. PICK f : Unfolding(f, N, doc, TogetherSteps(queue)) /\ Granted(doc, queue) = f[N]
  BY <1>2, GrantedUnfolds
<1>6. PICK h : Unfolding(h, N + 1, doc, TogetherSteps(more)) /\ Granted(doc, more) = h[N + 1]
  BY <1>3, <1>4, GrantedUnfolds
<1>7. f[N] = h[N]
  <2>1. \A i \in 1..N : TogetherSteps(queue)[i] = TogetherSteps(more)[i]
    BY <1>2, <1>3 DEF TogetherSteps
  <2>2. N \in 0..N /\ N <= N + 1 /\ N + 1 \in Nat
    BY <1>3
  <2> QED
    BY <1>3, <1>5, <1>6, <2>1, <2>2, SameWay
<1>8. h[N + 1] = TogetherSteps(more)[N + 1][h[N]]
  BY <1>3, <1>6, UnfoldingIs
<1>9. f[N] \in Appearance
  BY <1>3, <1>5 DEF Unfolding
<1>10. h[N + 1] = Together(h[N], m.gestures)
  BY <1>3, <1>7, <1>8, <1>9 DEF TogetherSteps
<1> QED
  BY <1>1, <1>4, <1>5, <1>6, <1>7, <1>10

\* What joins the queue, wherever it joins, is asked for after all the rest.
Joins(queue, more, doc, g) ==
  /\ AllMade(more) /\ more # <<>> /\ Right(doc, more)
  /\ Granted(doc, more) = Alone(Granted(doc, queue), g)

\* What is right of a queue is right of another that starts with the same mutations.
LEMMA RightPart ==
  ASSUME SettingsAssumption, NEW doc \in Appearance, NEW queue, AllMade(queue), Right(doc, queue), NEW more, AllMade(more),
         NEW n \in 0..Len(queue), n <= Len(more), \A i \in 1..n : more[i] = queue[i],
         NEW h, Unfolding(h, Len(more), doc, TogetherSteps(more))
  PROVE  \A k \in 1..n : Writes(h[k - 1], more[k])
<1>1. PICK N, M : N = Len(queue) /\ M = Len(more)
  OBVIOUS
<1>2. N \in Nat /\ M \in Nat
  BY <1>1 DEF AllMade
<1>3. PICK w : Unfolding(w, N, doc, TogetherSteps(queue)) /\ \A k \in 1..N : Writes(w[k - 1], queue[k])
  BY <1>1 DEF Right
<1> SUFFICES ASSUME NEW k \in 1..n PROVE Writes(h[k - 1], more[k])
  OBVIOUS
<1>4. PICK j : j = k - 1
  OBVIOUS
<1>5. j \in 0..N /\ j <= M /\ k \in 1..N
  BY <1>1, <1>2, <1>4
<1>6. \A i \in 1..j : TogetherSteps(queue)[i] = TogetherSteps(more)[i]
  <2>1. \A i \in 1..j : i \in 1..n /\ i \in 1..N /\ i \in 1..M
    BY <1>1, <1>2, <1>4
  <2> QED
    BY <1>1, <2>1 DEF TogetherSteps
<1>7. PICK step, next : step = TogetherSteps(queue) /\ next = TogetherSteps(more)
  OBVIOUS
<1>8. Unfolding(w, N, doc, step) /\ Unfolding(h, M, doc, next) /\ \A i \in 1..j : step[i] = next[i]
  BY <1>1, <1>3, <1>6, <1>7
<1>9. w[j] = h[j]
  BY <1>2, <1>5, <1>8, SameWay
<1> QED
  BY <1>3, <1>4, <1>5, <1>9

LEMMA GestureJoins ==
  ASSUME SettingsAssumption, NEW doc \in Appearance, NEW queue, AllMade(queue), queue # <<>>, NEW m, WellMade(m),
         NEW g, Meant(g), m.gestures = Append(Last(queue).gestures, g), Right(doc, queue),
         \A d \in Appearance : Together(d, Last(queue).gestures) = Granted(doc, queue) => Writes(d, m)
  PROVE  Joins(queue, [queue EXCEPT ![Len(queue)] = m], doc, g)
<1> PICK more : more = [queue EXCEPT ![Len(queue)] = m]
  OBVIOUS
<1>1. PICK N : N = Len(queue)
  OBVIOUS
<1>2. N \in Nat \ {0} /\ Len(more) = N /\ more[N] = m /\ \A i \in 1..N : i # N => more[i] = queue[i]
  BY <1>1 DEF AllMade
<1>3. more \in Seq(PendingMutation)
  BY DEF AllMade, WellMade
<1>4. AllMade(more)
  <2>1. \A i \in 1..N : WellMade(more[i])
    BY <1>1, <1>2 DEF AllMade
  <2> QED
    BY <1>2, <1>3, <2>1 DEF AllMade
<1>5. PICK f : Unfolding(f, N, doc, TogetherSteps(queue)) /\ Granted(doc, queue) = f[N]
  BY <1>1, GrantedUnfolds
<1>6. PICK h : Unfolding(h, N, doc, TogetherSteps(more)) /\ Granted(doc, more) = h[N]
  BY <1>2, <1>4, GrantedUnfolds
<1>7. PICK n : n = N - 1
  OBVIOUS
<1>8. n \in 0..N /\ n <= N /\ N \in 1..N /\ N \in Nat
  BY <1>2, <1>7
<1>9. f[n] = h[n]
  <2>1. \A i \in 1..n : TogetherSteps(queue)[i] = TogetherSteps(more)[i]
    BY <1>1, <1>2, <1>7 DEF TogetherSteps
  <2>2. PICK step, next : step = TogetherSteps(queue) /\ next = TogetherSteps(more)
    OBVIOUS
  <2>3. Unfolding(f, N, doc, step) /\ Unfolding(h, N, doc, next) /\ \A i \in 1..n : step[i] = next[i]
    BY <1>5, <1>6, <2>1, <2>2
  <2> QED
    BY <1>8, <2>3, SameWay
<1>10. f[N] = TogetherSteps(queue)[N][f[n]] /\ h[N] = TogetherSteps(more)[N][h[n]]
  BY <1>5, <1>6, <1>7, <1>8, UnfoldingIs
<1>11. f[n] \in Appearance
  BY <1>5, <1>8 DEF Unfolding
<1>12. f[N] = Together(f[n], queue[N].gestures) /\ h[N] = Together(f[n], m.gestures)
  BY <1>1, <1>2, <1>8, <1>9, <1>10, <1>11 DEF TogetherSteps
<1>13. PICK gestures : gestures = queue[N].gestures
  OBVIOUS
<1>14. Last(queue) = queue[N] /\ WellMade(queue[N])
  BY <1>1, <1>8 DEF Last, AllMade
<1>15. AllMeant(gestures)
  BY <1>13, <1>14, MadeMeant
<1>16. Together(f[n], Append(gestures, g)) = Alone(Together(f[n], gestures), g)
  BY <1>11, <1>15, TogetherMore
<1>17. more # <<>>
  BY <1>2, <1>3
<1>18. Right(doc, more)
  <2>1. \A k \in 1..n : Writes(h[k - 1], more[k])
    <3>1. n \in 0..Len(queue) /\ n <= Len(more) /\ \A i \in 1..n : more[i] = queue[i]
      BY <1>1, <1>2, <1>7, <1>8
    <3>2. Unfolding(h, Len(more), doc, TogetherSteps(more))
      BY <1>2, <1>6
    <3> QED
      BY <1>4, <3>1, <3>2, RightPart
  <2>2. Writes(f[n], m)
    <3>1. Together(f[n], Last(queue).gestures) = Granted(doc, queue)
      BY <1>5, <1>12, <1>14
    <3> QED
      BY <1>11, <3>1
  <2>3. \A k \in 1..N : Writes(h[k - 1], more[k])
    <3>1. \A k \in 1..N : k = N \/ k \in 1..n
      BY <1>2, <1>7
    <3>2. N - 1 = n
      BY <1>7
    <3> QED
      BY <1>2, <1>9, <2>1, <2>2, <3>1, <3>2
  <2> QED
    BY <1>2, <1>6, <2>3 DEF Right
<1> QED
  BY <1>4, <1>5, <1>6, <1>12, <1>13, <1>14, <1>16, <1>17, <1>18 DEF Joins

\* What is asked for in a queue is what its first mutation asks for, then the rest.
LEMMA GrantedFirst ==
  ASSUME SettingsAssumption, NEW doc \in Appearance, NEW queue, AllMade(queue), queue # <<>>
  PROVE  /\ AllMade(Tail(queue)) /\ WellMade(Head(queue))
         /\ Granted(doc, queue) = Granted(Together(doc, Head(queue).gestures), Tail(queue))
<1>1. PICK N : N = Len(queue)
  OBVIOUS
<1>2. PICK rest : rest = Tail(queue)
  OBVIOUS
<1>3. N \in Nat /\ N # 0 /\ N - 1 \in Nat /\ Head(queue) = queue[1] /\ 1 \in 1..N
  BY <1>1 DEF AllMade
<1>4. rest \in Seq(PendingMutation) /\ Len(rest) = N - 1 /\ \A i \in 1..(N - 1) : rest[i] = queue[i + 1]
  BY <1>1, <1>2 DEF AllMade
<1>5. AllMade(rest) /\ WellMade(queue[1])
  <2>1. \A i \in 1..(N - 1) : i + 1 \in 1..N
    BY <1>3
  <2> QED
    BY <1>1, <1>3, <1>4, <2>1 DEF AllMade
<1>6. PICK first : first = Together(doc, queue[1].gestures)
  OBVIOUS
<1>7. first \in Appearance
  BY <1>5, <1>6, MadeMeant, TogetherMeant
<1>8. PICK f : Unfolding(f, N, doc, TogetherSteps(queue)) /\ Granted(doc, queue) = f[N]
  BY <1>1, GrantedUnfolds
<1>9. PICK g : Unfolding(g, N - 1, first, TogetherSteps(rest)) /\ Granted(first, rest) = g[N - 1]
  BY <1>4, <1>5, <1>7, GrantedUnfolds
<1>10. f[1] = first
  <2>1. f[0] = doc /\ f[1] = TogetherSteps(queue)[1][f[0]]
    BY <1>3, <1>8, UnfoldingIs
  <2> QED
    BY <1>1, <1>3, <1>6, <2>1 DEF TogetherSteps
<1>11. \A i \in 1..(N - 1) : TogetherSteps(rest)[i] = TogetherSteps(queue)[i + 1]
  <2>1. \A i \in 1..(N - 1) : i + 1 \in 1..N
    BY <1>3
  <2> QED
    BY <1>1, <1>4, <2>1 DEF TogetherSteps
<1>12. f[N] = g[N - 1]
  <2>1. \A i \in 0..(N - 1) : f[i + 1] = g[i]
    BY <1>3, <1>8, <1>9, <1>10, <1>11, RestOfWay
  <2>2. N - 1 \in 0..(N - 1) /\ (N - 1) + 1 = N
    BY <1>3
  <2> QED
    BY <2>1, <2>2
<1> QED
  BY <1>2, <1>3, <1>5, <1>6, <1>8, <1>9, <1>12

\* The first mutation writes what it should, and so do the rest after it.
LEMMA RightFirst ==
  ASSUME SettingsAssumption, NEW doc \in Appearance, NEW queue, AllMade(queue), queue # <<>>, Right(doc, queue)
  PROVE  Writes(doc, Head(queue)) /\ Right(Together(doc, Head(queue).gestures), Tail(queue))
<1>1. PICK N, rest : N = Len(queue) /\ rest = Tail(queue)
  OBVIOUS
<1>2. N \in Nat /\ N # 0 /\ N - 1 \in Nat /\ Head(queue) = queue[1] /\ 1 \in 1..N
  BY <1>1 DEF AllMade
<1>3. rest \in Seq(PendingMutation) /\ Len(rest) = N - 1 /\ \A i \in 1..(N - 1) : rest[i] = queue[i + 1]
  BY <1>1 DEF AllMade
<1>4. AllMade(rest) /\ WellMade(queue[1])
  BY <1>1, <1>2, GrantedFirst
<1>5. PICK first : first = Together(doc, queue[1].gestures)
  OBVIOUS
<1>6. first \in Appearance
  BY <1>4, <1>5, MadeMeant, TogetherMeant
<1>7. PICK w : /\ Unfolding(w, N, doc, TogetherSteps(queue))
               /\ \A k \in 1..N : Writes(w[k - 1], queue[k])
  BY <1>1 DEF Right
<1>0. Unfolding(w, N, doc, TogetherSteps(queue))
  BY <1>7
<1>8. PICK g : Unfolding(g, N - 1, first, TogetherSteps(rest))
  BY <1>3, <1>4, <1>6, GrantedUnfolds
<1>9. w[0] = doc /\ w[1] = first
  <2>1. w[0] = doc /\ w[1] = TogetherSteps(queue)[1][w[0]]
    BY <1>0, <1>2, UnfoldingIs
  <2> QED
    BY <1>1, <1>2, <1>5, <2>1 DEF TogetherSteps
<1>10. \A i \in 1..(N - 1) : TogetherSteps(rest)[i] = TogetherSteps(queue)[i + 1]
  <2>1. \A i \in 1..(N - 1) : i + 1 \in 1..N
    BY <1>2
  <2> QED
    BY <1>1, <1>3, <2>1 DEF TogetherSteps
<1>11. \A i \in 0..(N - 1) : w[i + 1] = g[i]
  BY <1>0, <1>2, <1>8, <1>9, <1>10, RestOfWay
<1>12. \A k \in 1..(N - 1) : Writes(g[k - 1], rest[k])
  <2>1. ASSUME NEW k \in 1..(N - 1) PROVE Writes(g[k - 1], rest[k])
    <3>1. k - 1 \in 0..(N - 1) /\ (k - 1) + 1 = k /\ (k + 1) - 1 = k /\ k + 1 \in 1..N
      BY <1>2
    <3>2. w[k] = g[k - 1] /\ rest[k] = queue[k + 1]
      BY <1>3, <1>11, <3>1
    <3>3. Writes(w[(k + 1) - 1], queue[k + 1])
      BY <1>7, <3>1
    <3> QED
      BY <3>1, <3>2, <3>3
  <2> QED
    BY <2>1
<1>13. Writes(doc, queue[1])
  <2>1. 1 - 1 = 0
    OBVIOUS
  <2> QED
    BY <1>2, <1>7, <1>9, <2>1
<1> QED
  BY <1>1, <1>2, <1>3, <1>5, <1>8, <1>12, <1>13 DEF Right

\* What is right over a document is right over one with the same terminal settings.
LEMMA RightOver ==
  ASSUME SettingsAssumption, NEW doc \in Appearance, NEW other \in Appearance, doc.terminal = other.terminal,
         NEW queue, AllMade(queue), Right(doc, queue)
  PROVE  Right(other, queue)
<1>1. PICK N, step : N = Len(queue) /\ step = TogetherSteps(queue)
  OBVIOUS
<1>2. N \in Nat /\ \A i \in 1..N : WellMade(queue[i]) /\ i - 1 \in 0..N
  BY <1>1 DEF AllMade
<1>3. PICK w : Unfolding(w, N, doc, step) /\ \A k \in 1..N : Writes(w[k - 1], queue[k])
  BY <1>1 DEF Right
<1>4. PICK h : Unfolding(h, N, other, step)
  BY <1>1, GrantedUnfolds
<1>5. w[0] = doc /\ h[0] = other /\ \A i \in 1..N : w[i] = step[i][w[i - 1]] /\ h[i] = step[i][h[i - 1]]
  BY <1>2, <1>3, <1>4, UnfoldingIs
<1>6. \A i \in 0..N : w[i] \in Appearance /\ h[i] \in Appearance
  BY <1>3, <1>4 DEF Unfolding
<1> DEFINE T == {i \in 0..N : w[i].terminal = h[i].terminal}
<1>7. 0 \in T
  BY <1>2, <1>5
<1>8. ASSUME NEW i \in 1..N, w[i - 1].terminal = h[i - 1].terminal
      PROVE  w[i].terminal = h[i].terminal /\ (Writes(w[i - 1], queue[i]) => Writes(h[i - 1], queue[i]))
  <2>1. PICK d, e, gestures : d = w[i - 1] /\ e = h[i - 1] /\ gestures = queue[i].gestures
    OBVIOUS
  <2>2. d \in Appearance /\ e \in Appearance /\ AllMeant(gestures) /\ d.terminal = e.terminal
    BY <1>2, <1>6, <1>8, <2>1, MadeMeant
  <2>3. Together(d, gestures).terminal = Together(e, gestures).terminal
    BY <2>2, TerminalTogether
  <2>4. w[i] = Together(d, gestures) /\ h[i] = Together(e, gestures)
    BY <1>1, <1>5, <2>1, <2>2 DEF TogetherSteps
  <2> QED
    BY <2>1, <2>3, <2>4 DEF Writes
<1>9. \A i \in 1..N : i - 1 \in T => i \in T
  BY <1>2, <1>8
<1>10. \A i \in 0..N : i \in T
  <2> HIDE DEF T
  <2> QED
    BY <1>2, <1>7, <1>9, UpTo
<1>11. \A k \in 1..N : Writes(h[k - 1], queue[k])
  BY <1>2, <1>3, <1>8, <1>10
<1> QED
  BY <1>1, <1>4, <1>11 DEF Right

\* An update that leaves the terminal settings asked for writes all that was asked for in it.
LEMMA UpdateGrants ==
  ASSUME SettingsAssumption, NEW doc \in Appearance, NEW m, WellMade(m), m.kind = "update", Writes(doc, m)
  PROVE  Projected(doc, m.patches) = Together(doc, m.gestures)
<1>1. PICK N, gestures, patches : N = Len(m.gestures) /\ gestures = m.gestures /\ patches = m.patches
  OBVIOUS
<1>2. N \in Nat \ {0} /\ Len(patches) = N /\ AllMeant(gestures) /\ N = Len(gestures)
      /\ \A i \in 1..N : i - 1 \in 0..N
  BY <1>1, MadeMeant DEF WellMade, UpdateOf
<1>3. \A i \in 1..N : /\ gestures[i].op \in Whole /\ Meant(gestures[i])
                      /\ \E t \in TerminalSettings : patches[i] = Carrying(gestures[i], t)
  BY <1>1 DEF WellMade, UpdateOf
<1>4. PICK f : /\ f[0] = doc /\ Together(doc, gestures) = f[N]
               /\ \A i \in 0..N : f[i] \in Appearance
               /\ \A i \in 1..N : f[i] = Alone(f[i - 1], gestures[i])
  BY <1>2, TogetherWay
<1> DEFINE Made(h) ==
      h = [i \in 0..Len(patches) |-> IF i = 0 THEN doc ELSE Spread(h[i - 1], patches[i])]
<1>5. \E h : Made(h)
  <2> DEFINE step == [i \in 1..N |-> [d \in Appearance |-> Spread(d, patches[i])]]
  <2>1. step \in [1..N -> [Appearance -> Appearance]]
    <3>1. \A i \in 1..N, d \in Appearance : Spread(d, patches[i]) \in Appearance
      <4>1. SUFFICES ASSUME NEW i \in 1..N, NEW d \in Appearance PROVE Spread(d, patches[i]) \in Appearance
        OBVIOUS
      <4>2. PICK g : g = gestures[i]
        OBVIOUS
      <4>3. PICK t \in TerminalSettings : patches[i] = Carrying(g, t)
        BY <1>3, <4>2
      <4> QED
        BY <1>3, <4>2, <4>3, CarryingSpreads
    <3> QED
      BY <3>1
  <2>2. PICK h : Unfolds(h, N, doc, step) /\ \A i \in 0..N : h[i] \in Appearance
    <3> HIDE DEF step
    <3> QED
      BY <1>2, <2>1, Recursion
  <2>3. \A i \in 0..N : i # 0 => step[i][h[i - 1]] = Spread(h[i - 1], patches[i])
    <3>1. \A i \in 0..N : i # 0 => i \in 1..N /\ h[i - 1] \in Appearance
      BY <1>2, <2>2
    <3> QED
      BY <3>1
  <2> HIDE DEF step
  <2> QED
    BY <1>2, <2>2, <2>3 DEF Unfolds
<1>6. PICK h : h = CHOOSE x : Made(x)
  OBVIOUS
<1>7. Made(h) /\ Projected(doc, patches) = h[N]
  <2>1. Made(h)
    BY <1>5, <1>6
  <2>2. Projected(doc, patches) = h[N]
    BY <1>2, <1>6 DEF Projected
  <2> QED
    BY <2>1, <2>2
<1>8. h[0] = doc /\ \A i \in 1..N : h[i] = Spread(h[i - 1], patches[i])
  <2>1. 0 \in 0..Len(patches) /\ \A i \in 1..N : i \in 0..Len(patches) /\ i # 0
    BY <1>2
  <2>2. \A i \in 0..Len(patches) : h[i] = IF i = 0 THEN doc ELSE Spread(h[i - 1], patches[i])
    BY <1>7, Zenon
  <2>3. h[0] = doc
    BY <2>1, <2>2
  <2>4. ASSUME NEW i \in 1..N PROVE h[i] = Spread(h[i - 1], patches[i])
    BY <2>1, <2>2
  <2> QED
    BY <2>3, <2>4
<1> HIDE DEF Made
\* On the way the two may differ in the terminal settings only.
<1> DEFINE T == {i \in 0..N : /\ h[i] \in Appearance /\ [h[i] EXCEPT !.terminal = f[i].terminal] = f[i]
                              /\ i # 0 => h[i].terminal = patches[i].terminal}
<1>9. 0 \in T
  BY <1>2, <1>4, <1>8 DEF Appearance
<1>10. ASSUME NEW i \in 1..N, i - 1 \in T PROVE i \in T
  <2>1. PICK d, e, g : d = f[i - 1] /\ e = h[i - 1] /\ g = gestures[i]
    OBVIOUS
  <2>2. PICK t \in TerminalSettings : patches[i] = Carrying(g, t)
    BY <1>3, <2>1
  <2>3. d \in Appearance /\ e \in Appearance /\ [e EXCEPT !.terminal = d.terminal] = d /\ Meant(g) /\ g.op \in Whole
    BY <1>2, <1>3, <1>4, <1>10, <2>1
  <2>4. f[i] = [d EXCEPT ![g.op] = g.value]
    BY <1>4, <2>1, <2>3, AloneSets
  <2>5. PICK next : next = Spread(e, Carrying(g, t))
    OBVIOUS
  <2>7. /\ g.op = "terminal" => next = [e EXCEPT !.terminal = g.value]
        /\ g.op = "theme" => \E with : with = [e EXCEPT !.theme = g.value] /\ next = [with EXCEPT !.terminal = t]
        /\ next \in Appearance /\ next.terminal = Carrying(g, t).terminal
    BY <2>3, <2>5, CarryingSpreads, CarryingTerminal, CarryingTheme
  <2>8. h[i] = next /\ h[i] \in Appearance /\ h[i].terminal = patches[i].terminal
    BY <1>8, <2>1, <2>2, <2>5, <2>7
  <2>6. [h[i] EXCEPT !.terminal = f[i].terminal] = f[i]
    <3>1. CASE g.op = "terminal"
      BY <2>3, <2>4, <2>7, <2>8, <3>1 DEF Appearance
    <3>2. CASE g.op = "theme"
      <4>1. PICK with : with = [e EXCEPT !.theme = g.value] /\ next = [with EXCEPT !.terminal = t]
        BY <2>7, <3>2
      <4>2. h[i] = [e EXCEPT !.theme = g.value, !.terminal = t]
        BY <2>3, <2>8, <4>1 DEF Appearance
      <4>3. f[i] = [d EXCEPT !.theme = g.value]
        BY <2>4, <3>2
      <4> QED
        BY <2>3, <4>2, <4>3 DEF Appearance
    <3> QED
      BY <2>3, <3>1, <3>2 DEF Whole
  <2>9. i \in 0..N
    BY <1>2
  <2> QED
    BY <2>6, <2>8, <2>9
<1>11. N \in T
  <2> HIDE DEF T
  <2>1. N \in 0..N /\ N \in Nat /\ \A i \in 1..N : i - 1 \in T => i \in T
    BY <1>2, <1>10
  <2> QED
    BY <1>9, <2>1, UpTo
<1>12. h[N].terminal = f[N].terminal
  BY <1>1, <1>2, <1>4, <1>11 DEF Writes
<1>13. h[N] = f[N]
  BY <1>11, <1>12 DEF Appearance
<1> QED
  BY <1>1, <1>4, <1>7, <1>13

\* A last change of the terminal settings leaves those asked for.
LEMMA TerminalWrites ==
  ASSUME SettingsAssumption, NEW doc \in Appearance, NEW m, WellMade(m), NEW N, N = Len(m.gestures),
         m.kind = "update" => m.gestures[N].op = "terminal"
  PROVE  Writes(doc, m)
<1> SUFFICES ASSUME m.kind = "update" PROVE Together(doc, m.gestures).terminal = m.patches[Len(m.patches)].terminal
  BY DEF Writes
<1>1. AllMeant(m.gestures) /\ N \in Nat \ {0} /\ Len(m.patches) = N /\ N \in 1..N
  BY MadeMeant DEF WellMade, UpdateOf
<1>2. PICK g : g = m.gestures[N]
  OBVIOUS
<1>3. PICK t \in TerminalSettings : m.patches[N] = Carrying(g, t)
  BY <1>1, <1>2 DEF WellMade, UpdateOf
<1>4. Meant(g) /\ g.op = "terminal"
  BY <1>1, <1>2 DEF AllMeant
<1>5. m.patches[N].terminal = g.value
  BY <1>3, <1>4 DEF Carrying
<1> QED
  BY <1>1, <1>2, <1>4, <1>5, TerminalLast

\* A task asks for its last gesture only.
LEMMA TaskGrants ==
  ASSUME SettingsAssumption, NEW doc \in Appearance, NEW m, WellMade(m), m.kind = "task"
  PROVE  Together(doc, m.gestures) = Alone(doc, Command(m))
<1>1. PICK N, gestures : N = Len(m.gestures) /\ gestures = m.gestures
  OBVIOUS
<1>2. N \in Nat \ {0} /\ AllMeant(gestures) /\ N = Len(gestures) /\ Command(m) = gestures[N]
  BY <1>1, MadeMeant DEF Command, Last
<1>3. CASE N = 1
  BY <1>1, <1>2, <1>3, TogetherOne
<1>4. CASE \A i \in 1..N : gestures[i].op = "glass"
  <2>1. PICK f : Unfolding(f, N, doc, AloneSteps(gestures)) /\ Together(doc, gestures) = f[N]
    BY <1>2, TogetherUnfolds
  <2>2. f[0] = doc /\ \A i \in 1..N : f[i] = AloneSteps(gestures)[i][f[i - 1]]
    BY <1>2, <2>1, UnfoldingIs
  <2>3. \A i \in 1..N : f[i] = Alone(f[i - 1], gestures[i])
    BY <1>2, <2>1, <2>2 DEF AloneSteps, Unfolding
  <2> DEFINE T == {i \in 0..N : i # 0 => f[i] = Alone(doc, gestures[i])}
  <2>4. 0 \in T
    BY <1>2
  <2>5. ASSUME NEW i \in 1..N, i - 1 \in T PROVE i \in T
    <3>1. CASE i = 1
      BY <2>2, <2>3, <3>1
    <3>2. CASE i # 1
      <4>1. i - 1 \in 1..N /\ f[i - 1] = Alone(doc, gestures[i - 1])
        BY <1>2, <2>5, <3>2
      <4>2. PICK g, h : g = gestures[i - 1] /\ h = gestures[i]
        OBVIOUS
      <4>3. Meant(g) /\ Meant(h) /\ g.op = "glass" /\ h.op = "glass"
        BY <1>2, <1>4, <4>1, <4>2 DEF AllMeant
      <4>4. Alone(Alone(doc, g), h) = Alone(doc, h)
        BY <4>3, GlassAgain
      <4> QED
        BY <2>3, <4>1, <4>2, <4>4
    <3> QED
      BY <3>1, <3>2
  <2>6. N \in T
    <3> HIDE DEF T
    <3>1. \A i \in 1..N : i - 1 \in T => i \in T
      BY <2>5
    <3>2. N \in 0..N
      BY <1>2
    <3> QED
      BY <1>2, <2>4, <3>1, <3>2, UpTo
  <2> QED
    BY <1>1, <1>2, <2>1, <2>6
<1> QED
  BY <1>1, <1>3, <1>4 DEF WellMade, TaskOf

\* A mutation of one gesture.
LEMMA OneGesture ==
  ASSUME NEW g, Meant(g), NEW gestures, gestures = <<g>>
  PROVE  gestures \in Seq(AppearanceGesture) /\ Len(gestures) = 1 /\ gestures[1] = g /\ AllMeant(gestures)
         /\ gestures # <<>>
<1>1. g \in AppearanceGesture
  BY DEF Meant
<1>2. gestures \in Seq(AppearanceGesture) /\ Len(gestures) = 1 /\ gestures[1] = g
  BY <1>1
<1> QED
  BY <1>2 DEF AllMeant

LEMMA CarryingPatches ==
  ASSUME SettingsAssumption, NEW g, Meant(g), g.op \in Whole, NEW t \in TerminalSettings
  PROVE  Carrying(g, t) \in Patch
<1>1. PICK text : text \in ThemeText
  BY DEF SettingsAssumption
<1>2. DEFAULT_APPEARANCE \in Appearance
  BY DEF DEFAULT_APPEARANCE, Appearance, Theme, GlassOpacity
<1>3. PICK doc : doc = Spread(DEFAULT_APPEARANCE, Carrying(g, t))
  OBVIOUS
<1>4. doc \in Appearance
  BY <1>2, <1>3, CarryingSpreads
<1>5. {g.op, "terminal"} \in SUBSET DOMAIN DEFAULT_APPEARANCE
  BY DEF Whole, DEFAULT_APPEARANCE
<1>6. Carrying(g, t) = [f \in {g.op, "terminal"} |-> doc[f]]
  BY <1>3, <1>5 DEF Carrying, Spread
<1> QED
  BY <1>4, <1>5, <1>6 DEF Patch

\* A gesture over the document its patch was made for.
LEMMA GestureWrites ==
  ASSUME SettingsAssumption, NEW doc \in Appearance, NEW g, Meant(g), g.op \in Whole, NEW t \in TerminalSettings,
         g.op = "theme" => t = doc.terminal
  PROVE  Alone(doc, g).terminal = Carrying(g, t).terminal
<1>1. PICK next : next = Spread(doc, Carrying(g, t))
  OBVIOUS
<1>2. next.terminal = Carrying(g, t).terminal
  BY <1>1, CarryingSpreads
<1>3. next = Alone(doc, g)
  BY <1>1, AloneSpreads
<1> QED
  BY <1>2, <1>3

LEMMA NewUpdate ==
  ASSUME SettingsAssumption, NEW g, Meant(g), g.op \in Whole, NEW t \in TerminalSettings
  PROVE  WellMade(Mutation("update", g, <<Carrying(g, t)>>))
<1>1. PICK gestures, patches : gestures = <<g>> /\ patches = <<Carrying(g, t)>>
  OBVIOUS
<1>2. gestures \in Seq(AppearanceGesture) /\ Len(gestures) = 1 /\ gestures[1] = g /\ gestures # <<>>
  BY <1>1, OneGesture
<1>3. patches \in Seq(Patch) /\ Len(patches) = 1 /\ patches[1] = Carrying(g, t)
  BY <1>1, CarryingPatches
<1>4. PICK m : m = [kind |-> "update", gestures |-> gestures, patches |-> patches]
  OBVIOUS
<1>5. m \in PendingMutation
  BY <1>2, <1>3, <1>4 DEF PendingMutation
<1>6. UpdateOf(m) /\ \A i \in 1..Len(m.gestures) : Meant(m.gestures[i])
  <2>1. m.gestures = gestures /\ m.patches = patches
    BY <1>4
  <2>2. \A i \in 1..Len(gestures) : gestures[i] = g /\ patches[i] = Carrying(g, t)
    BY <1>2, <1>3
  <2> QED
    BY <1>2, <1>3, <2>1, <2>2 DEF UpdateOf
<1>7. WellMade(m)
  BY <1>2, <1>4, <1>5, <1>6 DEF WellMade
<1> QED
  BY <1>1, <1>4, <1>7 DEF Mutation

LEMMA NewTask ==
  ASSUME SettingsAssumption, NEW g, Meant(g), g.op \in Commands
  PROVE  WellMade(Mutation("task", g, <<>>))
<1>1. PICK gestures : gestures = <<g>>
  OBVIOUS
<1>2. gestures \in Seq(AppearanceGesture) /\ Len(gestures) = 1 /\ gestures[1] = g /\ gestures # <<>>
  BY <1>1, OneGesture
<1>4. PICK m : m = [kind |-> "task", gestures |-> gestures, patches |-> <<>>]
  OBVIOUS
<1>5. m \in PendingMutation
  BY <1>2, <1>4 DEF PendingMutation
<1>6. TaskOf(m) /\ \A i \in 1..Len(m.gestures) : Meant(m.gestures[i])
  <2>1. m.gestures = gestures
    BY <1>4
  <2>2. \A i \in 1..Len(gestures) : gestures[i] = g
    BY <1>2
  <2> QED
    BY <1>2, <2>1, <2>2 DEF TaskOf
<1>7. WellMade(m)
  BY <1>2, <1>4, <1>5, <1>6 DEF WellMade
<1> QED
  BY <1>1, <1>4, <1>7 DEF Mutation

LEMMA MutationJoins ==
  ASSUME SettingsAssumption, NEW doc \in Appearance, NEW queue, AllMade(queue), NEW m, WellMade(m),
         NEW g, Meant(g), m.gestures = <<g>>, Right(doc, queue), Writes(Granted(doc, queue), m)
  PROVE  Joins(queue, Append(queue, m), doc, g)
<1>1. PICK more : more = Append(queue, m)
  OBVIOUS
<1>2. AllMade(more) /\ Granted(doc, more) = Together(Granted(doc, queue), m.gestures)
  BY <1>1, GrantedMore
<1>3. PICK d, gestures : d = Granted(doc, queue) /\ gestures = m.gestures
  OBVIOUS
<1>4. d \in Appearance
  BY <1>3, GrantedMade
<1>5. AllMeant(gestures) /\ Len(gestures) = 1 /\ gestures[1] = g
  BY <1>3, OneGesture
<1>6. Together(d, gestures) = Alone(d, g)
  BY <1>4, <1>5, TogetherOne
<1>7. more # <<>>
  BY <1>1 DEF AllMade
<1>8. PICK N : N = Len(queue)
  OBVIOUS
<1>9. N \in Nat /\ Len(more) = N + 1 /\ more[N + 1] = m /\ \A i \in 1..N : more[i] = queue[i]
  BY <1>1, <1>8 DEF AllMade
<1>10. PICK f : Unfolding(f, N, doc, TogetherSteps(queue)) /\ Granted(doc, queue) = f[N]
  BY <1>8, GrantedUnfolds
<1>11. PICK h : Unfolding(h, N + 1, doc, TogetherSteps(more))
  BY <1>2, <1>9, GrantedUnfolds
<1>12. f[N] = h[N]
  <2>1. \A i \in 1..N : TogetherSteps(queue)[i] = TogetherSteps(more)[i]
    BY <1>8, <1>9 DEF TogetherSteps
  <2>2. N \in 0..N /\ N <= N + 1 /\ N + 1 \in Nat
    BY <1>9
  <2> QED
    BY <1>9, <1>10, <1>11, <2>1, <2>2, SameWay
<1>13. \A k \in 1..N : Writes(h[k - 1], more[k])
  <2>1. N \in 0..Len(queue) /\ N <= Len(more)
    BY <1>8, <1>9
  <2>2. Unfolding(h, Len(more), doc, TogetherSteps(more))
    BY <1>9, <1>11
  <2> QED
    BY <1>2, <1>9, <2>1, <2>2, RightPart
<1>14. \A k \in 1..(N + 1) : Writes(h[k - 1], more[k])
  <2>1. \A k \in 1..(N + 1) : k = N + 1 \/ k \in 1..N
    BY <1>9
  <2>2. (N + 1) - 1 = N
    BY <1>9
  <2> QED
    BY <1>9, <1>10, <1>12, <1>13, <2>1, <2>2
<1>15. Right(doc, more)
  BY <1>9, <1>11, <1>14 DEF Right
<1> QED
  BY <1>1, <1>2, <1>3, <1>6, <1>7, <1>15 DEF Joins

LEMMA LastMade ==
  ASSUME NEW queue, AllMade(queue), queue # <<>>
  PROVE  WellMade(Last(queue))
<1>1. Len(queue) \in 1..Len(queue)
  BY DEF AllMade
<1> QED
  BY <1>1 DEF AllMade, Last

\* An update that another change of a setting joins.
Longer(last, g, t) ==
  [last EXCEPT !.gestures = Append(last.gestures, g), !.patches = Append(last.patches, Carrying(g, t))]

LEMMA UpdateGrows ==
  ASSUME SettingsAssumption, NEW last, WellMade(last), last.kind = "update", NEW g, Meant(g), g.op \in Whole,
         NEW t \in TerminalSettings, NEW m, m = Longer(last, g, t)
  PROVE  WellMade(m) /\ m.gestures = Append(last.gestures, g) /\ m.patches = Append(last.patches, Carrying(g, t))
<1>1. PICK N, gestures, patches : N = Len(last.gestures) /\ gestures = last.gestures /\ patches = last.patches
  OBVIOUS
<1>2. last \in PendingMutation /\ gestures \in Seq(AppearanceGesture) /\ patches \in Seq(Patch) /\ N \in Nat
      /\ Len(gestures) = N /\ Len(patches) = N
  BY <1>1 DEF WellMade, UpdateOf, PendingMutation
<1>3. \A i \in 1..N : Meant(gestures[i]) /\ gestures[i].op \in Whole /\ \E u \in TerminalSettings : patches[i] = Carrying(gestures[i], u)
  BY <1>1 DEF WellMade, UpdateOf
<1>4. PICK told, written : told = Append(gestures, g) /\ written = Append(patches, Carrying(g, t))
  OBVIOUS
<1>5. m = [last EXCEPT !.gestures = told, !.patches = written]
  BY <1>1, <1>4 DEF Longer
<1>6. told \in Seq(AppearanceGesture) /\ written \in Seq(Patch)
  <2>1. g \in AppearanceGesture /\ Carrying(g, t) \in Patch
    BY CarryingPatches DEF Meant
  <2> QED
    BY <1>2, <1>4, <2>1
<1>7. Len(told) = N + 1 /\ Len(written) = N + 1 /\ told[N + 1] = g /\ written[N + 1] = Carrying(g, t)
      /\ \A i \in 1..N : told[i] = gestures[i] /\ written[i] = patches[i]
  BY <1>2, <1>4
<1>8. \A i \in 1..(N + 1) : Meant(told[i]) /\ told[i].op \in Whole /\ \E u \in TerminalSettings : written[i] = Carrying(told[i], u)
  <2>1. \A i \in 1..(N + 1) : i = N + 1 \/ i \in 1..N
    BY <1>2
  <2> QED
    BY <1>3, <1>7, <2>1
<1>9. m \in PendingMutation /\ m.gestures = told /\ m.patches = written /\ m.kind = "update"
  BY <1>2, <1>5, <1>6 DEF PendingMutation
<1>10. UpdateOf(m)
  BY <1>7, <1>8, <1>9 DEF UpdateOf
<1>11. told # <<>>
  BY <1>2, <1>4
<1> QED
  BY <1>1, <1>4, <1>7, <1>8, <1>9, <1>10, <1>11 DEF WellMade

LEMMA TaskGrows ==
  ASSUME NEW last, WellMade(last), last.gestures[1].op = "glass", NEW g, Meant(g), g.op = "glass",
         NEW m, m = [last EXCEPT !.gestures = Append(last.gestures, g)]
  PROVE  WellMade(m) /\ m.gestures = Append(last.gestures, g) /\ m.kind = "task"
<1>1. PICK N, gestures : N = Len(last.gestures) /\ gestures = last.gestures
  OBVIOUS
<1>2. last \in PendingMutation /\ gestures \in Seq(AppearanceGesture) /\ N \in Nat \ {0} /\ Len(gestures) = N
  BY <1>1, MadeMeant DEF WellMade, PendingMutation
<1>3. last.kind = "task"
  <2>1. last.kind # "update"
    BY <1>1, <1>2 DEF WellMade, UpdateOf, Whole
  <2> QED
    BY <1>2, <2>1 DEF PendingMutation
<1>4. \A i \in 1..N : Meant(gestures[i]) /\ gestures[i].op = "glass"
  <2>1. TaskOf(last) /\ \A i \in 1..N : Meant(gestures[i])
    BY <1>1, <1>3 DEF WellMade
  <2> QED
    BY <1>1, <1>2, <2>1 DEF TaskOf
<1>5. PICK told : told = Append(gestures, g)
  OBVIOUS
<1>6. m = [last EXCEPT !.gestures = told]
  BY <1>1, <1>5
<1>7. told \in Seq(AppearanceGesture) /\ told # <<>>
  <2>1. g \in AppearanceGesture
    BY DEF Meant
  <2> QED
    BY <1>2, <1>5, <2>1
<1>8. Len(told) = N + 1 /\ told[N + 1] = g /\ \A i \in 1..N : told[i] = gestures[i]
  BY <1>2, <1>5
<1>9. \A i \in 1..(N + 1) : Meant(told[i]) /\ told[i].op = "glass"
  <2>1. \A i \in 1..(N + 1) : i = N + 1 \/ i \in 1..N
    BY <1>2
  <2> QED
    BY <1>4, <1>8, <2>1
<1>10. m \in PendingMutation /\ m.gestures = told /\ m.kind = "task"
  BY <1>2, <1>3, <1>6, <1>7 DEF PendingMutation
<1>11. TaskOf(m)
  BY <1>8, <1>9, <1>10 DEF TaskOf, Commands
<1> QED
  BY <1>1, <1>5, <1>7, <1>8, <1>9, <1>10, <1>11 DEF WellMade

LEMMA UpdatedJoins ==
  ASSUME SettingsAssumption, NEW doc \in Appearance, NEW queue, AllMade(queue), Right(doc, queue),
         NEW g, Meant(g), g.op \in Whole, NEW t \in TerminalSettings, g.op = "theme" => t = Granted(doc, queue).terminal
  PROVE  Joins(queue, Updated(queue, g, Carrying(g, t)), doc, g)
<1>0. PICK asked : asked = Granted(doc, queue)
  OBVIOUS
<1>w. Alone(asked, g).terminal = Carrying(g, t).terminal /\ asked \in Appearance
  BY <1>0, GrantedMade, GestureWrites
<1>1. CASE queue # <<>> /\ Last(queue).kind = "update"
  <2>1. PICK last : last = Last(queue)
    OBVIOUS
  <2>2. PICK m : m = Longer(last, g, t)
    OBVIOUS
  <2>3. WellMade(last) /\ last.kind = "update"
    BY <1>1, <2>1, LastMade
  <2>8. WellMade(m) /\ m.gestures = Append(last.gestures, g) /\ m.patches = Append(last.patches, Carrying(g, t))
    BY <2>2, <2>3, UpdateGrows
  <2>4. m.patches[Len(m.patches)] = Carrying(g, t)
    <3>1. PICK patches : patches = last.patches
      OBVIOUS
    <3>2. patches \in Seq(Patch)
      BY <2>3, <3>1 DEF WellMade, PendingMutation
    <3> QED
      BY <2>8, <3>1, <3>2
  <2>5. ASSUME NEW d \in Appearance, Together(d, last.gestures) = asked PROVE Writes(d, m)
    <3>1. PICK gestures : gestures = last.gestures
      OBVIOUS
    <3>2. Together(d, Append(gestures, g)) = Alone(asked, g)
      BY <2>3, <2>5, <3>1, MadeMeant, TogetherMore
    <3> QED
      BY <1>w, <2>4, <2>8, <3>1, <3>2 DEF Writes
  <2>6. Joins(queue, [queue EXCEPT ![Len(queue)] = m], doc, g)
    BY <1>0, <1>1, <2>1, <2>8, <2>5, GestureJoins
  <2> QED
    BY <1>1, <2>1, <2>2, <2>6 DEF Updated, Longer
<1>2. CASE ~(queue # <<>> /\ Last(queue).kind = "update")
  <2>1. PICK m : m = Mutation("update", g, <<Carrying(g, t)>>)
    OBVIOUS
  <2>2. PICK gestures, patches : gestures = m.gestures /\ patches = m.patches
    OBVIOUS
  <2>3. WellMade(m) /\ gestures = <<g>> /\ patches = <<Carrying(g, t)>>
    BY <2>1, <2>2, NewUpdate DEF Mutation
  <2>4. AllMeant(gestures) /\ Len(gestures) = 1 /\ gestures[1] = g /\ Len(patches) = 1 /\ patches[1] = Carrying(g, t)
    BY <2>3, OneGesture
  <2>5. Together(asked, gestures) = Alone(asked, g)
    BY <1>w, <2>4, TogetherOne
  <2>6. Writes(asked, m)
    BY <1>w, <2>2, <2>4, <2>5 DEF Writes
  <2>7. Joins(queue, Append(queue, m), doc, g)
    BY <1>0, <2>2, <2>3, <2>6, MutationJoins
  <2>8. Updated(queue, g, Carrying(g, t)) = Append(queue, m)
    BY <1>2, <2>1 DEF Updated
  <2> QED
    BY <2>7, <2>8
<1> QED
  BY <1>1, <1>2

LEMMA TaskedJoins ==
  ASSUME SettingsAssumption, NEW doc \in Appearance, NEW queue, AllMade(queue), Right(doc, queue),
         NEW g, Meant(g), g.op \in Commands
  PROVE  Joins(queue, Tasked(queue, g), doc, g)
<1>1. CASE queue # <<>> /\ g.op = "glass" /\ Last(queue).gestures[1].op = "glass"
  <2>1. PICK last : last = Last(queue)
    OBVIOUS
  <2>2. PICK m : m = [last EXCEPT !.gestures = Append(last.gestures, g)]
    OBVIOUS
  <2>3. WellMade(last) /\ last.gestures[1].op = "glass"
    BY <1>1, <2>1, LastMade
  <2>4. WellMade(m) /\ m.gestures = Append(last.gestures, g) /\ m.kind = "task"
    BY <1>1, <2>2, <2>3, TaskGrows
  <2>5. Joins(queue, [queue EXCEPT ![Len(queue)] = m], doc, g)
    BY <1>1, <2>1, <2>4, GestureJoins DEF Writes
  <2> QED
    BY <1>1, <2>1, <2>2, <2>5 DEF Tasked
<1>2. CASE ~(queue # <<>> /\ g.op = "glass" /\ Last(queue).gestures[1].op = "glass")
  <2>1. PICK m : m = Mutation("task", g, <<>>)
    OBVIOUS
  <2>2. WellMade(m) /\ m.gestures = <<g>> /\ m.kind = "task"
    BY <2>1, NewTask DEF Mutation
  <2>3. Joins(queue, Append(queue, m), doc, g)
    BY <2>2, MutationJoins DEF Writes
  <2>4. Tasked(queue, g) = Append(queue, m)
    BY <1>2, <2>1 DEF Tasked
  <2> QED
    BY <2>3, <2>4
<1> QED
  BY <1>1, <1>2

-------------------------------------------------------------------------------
(* What the controls ask, and what becomes of the panel.                     *)

OfThePanel == {"edit", "openCreate", "draft", "cancel", "askRemove", "openImport", "close"}

Offered(g) ==
  /\ g.op \in Whole \cup Commands \cup OfThePanel
  /\ g.op \in Whole \cup Commands => Meant(g)
  /\ g.op \in {"create", "update", "draft"} => panel.editor \in EditorShown
  /\ g.op \in {"import", "replace", "keep_both"} => panel.dialog \in ImportShown
  /\ g.op \in {"edit", "openCreate", "openImport", "draft"} => g.value \in ThemeText
  /\ g.op \in {"edit", "openCreate", "openImport", "askRemove"} => g.id \in ThemeId

LEMMA ControlIs ==
  ASSUME NEW op, NEW id, NEW value
  PROVE  /\ Control(op, id, value).op = op /\ Control(op, id, value).id = id
         /\ Control(op, id, value).value = value
         /\ (op \in Whole \cup Commands /\ id \in ThemeId \cup {DEFAULT_THEME_ID, None}
             /\ value \in {None, "w400", "w500"} \cup Theme \cup GlassOpacity \cup ThemeText) =>
               Control(op, id, value) \in AppearanceGesture
BY DEF Control, AppearanceGesture, Custom

LEMMA CustomText ==
  ASSUME NEW doc \in Appearance, NEW i \in Custom(doc)
  PROVE  i \in ThemeId /\ doc.custom_themes[i] \in ThemeText
BY DEF Custom, Appearance

\* The controls that write a setting.
LEMMA SettingOffered ==
  ASSUME NEW doc, NEW g \in SizeSteps(doc) \cup AppearanceModeCardsOffers(doc) \cup GlassOpacityControlOffers(doc)
  PROVE  Offered(g)
<1>1. CASE g \in SizeSteps(doc)
  <2>1. PICK v : v \in {"w400", "w500"} /\ g = Control("terminal", None, v)
    BY <1>1 DEF SizeSteps
  <2>2. g.op = "terminal" /\ g.value = v /\ g \in AppearanceGesture
    BY <2>1, ControlIs DEF Whole
  <2> QED
    BY <2>1, <2>2 DEF Offered, Meant, Whole, Commands, OfThePanel
<1>2. CASE g \in AppearanceModeCardsOffers(doc)
  <2>1. PICK v : v \in Theme /\ g = Control("theme", None, v)
    BY <1>2 DEF AppearanceModeCardsOffers
  <2>2. g.op = "theme" /\ g.value = v /\ g \in AppearanceGesture
    BY <2>1, ControlIs DEF Whole
  <2> QED
    BY <2>1, <2>2 DEF Offered, Meant, Whole, Commands, OfThePanel
<1>3. CASE g \in GlassOpacityControlOffers(doc)
  <2>1. PICK v : v \in GlassOpacity /\ g = Control("glass", None, v)
    BY <1>3 DEF GlassOpacityControlOffers
  <2>2. g.op = "glass" /\ g.value = v /\ g \in AppearanceGesture
    BY <2>1, ControlIs DEF Commands
  <2> QED
    BY <2>1, <2>2 DEF Offered, Meant, Whole, Commands, OfThePanel
<1> QED
  BY <1>1, <1>2, <1>3

LEMMA CardOffered ==
  ASSUME NEW doc \in Appearance, NEW g \in ThemeCardOffers(doc)
  PROVE  Offered(g)
<1>1. PICK op, i, value :
        /\ g = Control(op, i, value)
        /\ \/ op = "select" /\ i \in Custom(doc) \cup {DEFAULT_THEME_ID} /\ value = None
           \/ op = "duplicate" /\ i \in Custom(doc) /\ value = None
           \/ op = "edit" /\ i \in Custom(doc) /\ value = doc.custom_themes[i]
           \/ op = "askRemove" /\ i \in Custom(doc) /\ value = None
  BY DEF ThemeCardOffers
<1>2. i \in Custom(doc) => i \in ThemeId /\ doc.custom_themes[i] \in ThemeText
  BY CustomText
<1>3. g.op = op /\ g.id = i /\ g.value = value
  BY <1>1, ControlIs
<1>4. op \in {"select", "duplicate"} => g \in AppearanceGesture
  <2>1. op \in {"select", "duplicate"} =>
          op \in Whole \cup Commands /\ i \in ThemeId \cup {DEFAULT_THEME_ID, None} /\ value = None
    BY <1>1, <1>2 DEF Commands
  <2> QED
    BY <1>1, <2>1, ControlIs
<1> QED
  BY <1>1, <1>2, <1>3, <1>4 DEF Offered, Meant, Whole, Commands, OfThePanel

LEMMA EditorOffered ==
  ASSUME PanelTyped, NEW g \in ThemeEditorOffers
  PROVE  Offered(g)
<1>1. panel.editor \in EditorShown
  BY DEF ThemeEditorOffers, PanelTyped
<1>2. PICK op, id, value :
        /\ g = Control(op, id, value)
        /\ \/ op = "draft" /\ value \in ThemeText
           \/ op = "cancel"
           \/ op \in {"create", "update"} /\ id = panel.editor.id /\ value = panel.editor.text
  BY DEF ThemeEditorOffers, CommitsDraft
<1>3. g.op = op /\ g.id = id /\ g.value = value
  BY <1>2, ControlIs
<1>4. op \in {"create", "update"} => id \in ThemeId /\ value \in ThemeText
  BY <1>1, <1>2 DEF EditorShown
<1>5. op \in {"create", "update"} => g \in AppearanceGesture
  BY <1>2, <1>4, ControlIs DEF Commands
<1> QED
  BY <1>1, <1>2, <1>3, <1>4, <1>5 DEF Offered, Meant, Whole, Commands, OfThePanel

LEMMA DialogOffered ==
  ASSUME PanelTyped, panel.dialog # None,
         NEW g, g \in {Control("remove", panel.dialog.id, None)} \/ g \in ThemeImportOffers(panel.dialog),
         g \in ThemeImportOffers(panel.dialog) => panel.dialog.kind # "remove"
  PROVE  Offered(g)
<1>1. panel.dialog \in RemoveShown \cup ImportShown
  BY DEF PanelTyped
<1>2. CASE g = Control("remove", panel.dialog.id, None)
  <2>1. PICK id : id = panel.dialog.id /\ id \in ThemeId
    BY <1>1 DEF RemoveShown, ImportShown
  <2>2. g.op = "remove" /\ g.id = id /\ g \in AppearanceGesture
    BY <1>2, <2>1, ControlIs DEF Commands
  <2> QED
    BY <2>1, <2>2 DEF Offered, Meant, Whole, Commands, OfThePanel
<1>3. CASE g \in ThemeImportOffers(panel.dialog)
  <2>1. panel.dialog \in ImportShown
    BY <1>1, <1>3 DEF RemoveShown
  <2>2. PICK op, id, value : /\ g = Control(op, id, value) /\ op \in {"import", "replace", "keep_both"}
                             /\ id = panel.dialog.id /\ value = panel.dialog.text
    BY <1>3 DEF ThemeImportOffers
  <2>3. id \in ThemeId /\ value \in ThemeText
    BY <2>1, <2>2 DEF ImportShown
  <2>4. g.op = op /\ g.id = id /\ g.value = value /\ g \in AppearanceGesture
    BY <2>2, <2>3, ControlIs DEF Commands
  <2> QED
    BY <2>1, <2>2, <2>3, <2>4 DEF Offered, Meant, Whole, Commands, OfThePanel
<1> QED
  BY <1>2, <1>3

LEMMA OffersAppearance ==
  ASSUME SettingsAssumption, DocumentsTyped, PanelTyped, NEW g \in AppearanceOffers(look.rendered)
  PROVE  Offered(g)
<1>1. PICK doc : doc = look.rendered
  OBVIOUS
<1>2. doc \in Appearance
  BY <1>1 DEF DocumentsTyped, LookShown
<1>3. CASE g \in SizeSteps(doc) \cup AppearanceModeCardsOffers(doc) \cup GlassOpacityControlOffers(doc)
  BY <1>3, SettingOffered
<1>4. CASE g \in ThemeCardOffers(doc)
  BY <1>2, <1>4, CardOffered
<1>5. CASE g \in ThemeEditorOffers
  BY <1>5, EditorOffered
<1>6. CASE g \in {Control(op, i, FirstText) : op \in {"openCreate", "openImport"}, i \in ThemeId}
  <2>1. PICK op, i : op \in {"openCreate", "openImport"} /\ i \in ThemeId /\ g = Control(op, i, FirstText)
    BY <1>6
  <2>2. g.op = op /\ g.id = i /\ g.value = FirstText
    BY <2>1, ControlIs
  <2>3. FirstText \in ThemeText
    BY DEF FirstText, SettingsAssumption
  <2> QED
    BY <2>1, <2>2, <2>3 DEF Offered, Whole, Commands, OfThePanel
<1>7. CASE g = Control("close", None, None)
  <2>1. g.op = "close"
    BY <1>7, ControlIs
  <2> QED
    BY <2>1 DEF Offered, Whole, Commands, OfThePanel
<1>8. CASE /\ panel.dialog # None
           /\ g \in IF panel.dialog.kind = "remove" THEN {Control("remove", panel.dialog.id, None)}
                    ELSE ThemeImportOffers(panel.dialog)
  <2>1. CASE panel.dialog.kind = "remove"
    <3>1. g = Control("remove", panel.dialog.id, None)
      BY <1>8, <2>1
    <3>2. CASE g \in ThemeImportOffers(panel.dialog)
      <4>1. \E p \in {"import", "replace", "keep_both"} : g = Control(p, panel.dialog.id, panel.dialog.text)
        BY <3>2 DEF ThemeImportOffers
      <4>2. g.op \in {"import", "replace", "keep_both"} /\ g.op = "remove"
        BY <3>1, <4>1, ControlIs
      <4> QED
        BY <4>2
    <3>3. CASE g \notin ThemeImportOffers(panel.dialog)
      BY <1>8, <3>1, <3>3, DialogOffered
    <3> QED
      BY <3>2, <3>3
  <2>2. CASE panel.dialog.kind # "remove"
    BY <1>8, <2>2, DialogOffered
  <2> QED
    BY <2>1, <2>2
<1> QED
  BY <1>1, <1>3, <1>4, <1>5, <1>6, <1>7, <1>8
    DEF AppearanceOffers, ThemeSettingsOffers, AppearancePanelOffers

\* The panel, whatever it is set to.
PanelIs(p) == p \in [editor : {None} \cup EditorShown, dialog : {None} \cup RemoveShown \cup ImportShown]

LEMMA PanelWith ==
  ASSUME PanelTyped, NEW editor \in {None} \cup EditorShown, NEW dialog \in {None} \cup RemoveShown \cup ImportShown
  PROVE  PanelIs([panel EXCEPT !.editor = editor, !.dialog = dialog])
BY DEF PanelTyped, PanelIs

LEMMA EditorIs ==
  ASSUME NEW i \in ThemeId, NEW text \in ThemeText, NEW fresh \in BOOLEAN
  PROVE  Editor(i, text, fresh) \in EditorShown
BY DEF Editor, EditorShown

LEMMA WaitingPanel ==
  ASSUME PanelTyped, NEW g, Offered(g)
  PROVE  PanelIs(Waiting(g))
<1>0. panel.editor \in {None} \cup EditorShown /\ panel.dialog \in {None} \cup RemoveShown \cup ImportShown
  BY DEF PanelTyped
<1>1. CASE g.op \in {"create", "update"}
  <2>1. PICK editor : editor = [panel.editor EXCEPT !.saving = TRUE]
    OBVIOUS
  <2>2. editor \in EditorShown
    BY <1>1, <2>1 DEF Offered, EditorShown
  <2>3. Waiting(g) = [panel EXCEPT !.editor = editor]
    BY <1>1, <2>1 DEF Waiting
  <2> QED
    BY <2>2, <2>3 DEF PanelTyped, PanelIs
<1>2. CASE g.op = "remove"
  <2>1. Waiting(g) = [panel EXCEPT !.dialog = None]
    BY <1>2 DEF Waiting
  <2> QED
    BY <2>1 DEF PanelTyped, PanelIs
<1>3. CASE g.op \in {"import", "replace", "keep_both"}
  <2>1. PICK dialog : dialog = [panel.dialog EXCEPT !.busy = TRUE]
    OBVIOUS
  <2>2. dialog \in ImportShown
    BY <1>3, <2>1 DEF Offered, ImportShown
  <2>3. Waiting(g) = [panel EXCEPT !.dialog = dialog]
    BY <1>3, <2>1 DEF Waiting
  <2> QED
    BY <2>2, <2>3 DEF PanelTyped, PanelIs
<1>4. CASE g.op \notin {"create", "update", "remove", "import", "replace", "keep_both"}
  <2>1. Waiting(g) = panel
    BY <1>4 DEF Waiting
  <2> QED
    BY <2>1 DEF PanelTyped, PanelIs
<1> QED
  BY <1>1, <1>2, <1>3, <1>4

\* A gesture of the panel's own: one the panel offers, and no write.
LEMMA OpenedPanel ==
  ASSUME PanelTyped, NEW g, Offered(g),
         g.op \in OfThePanel
  PROVE  PanelIs(Opened(g))
<1>1. CASE g.op \in {"edit", "openCreate"}
  <2>1. PICK editor : editor = Editor(g.id, g.value, g.op = "openCreate")
    OBVIOUS
  <2>2. editor \in EditorShown
    BY <1>1, <2>1, EditorIs DEF Offered
  <2>3. Opened(g) = [panel EXCEPT !.editor = editor]
    BY <1>1, <2>1 DEF Opened, Editor
  <2> QED
    BY <2>2, <2>3 DEF PanelTyped, PanelIs
<1>2. CASE g.op = "draft"
  <2>1. PICK editor : editor = [panel.editor EXCEPT !.text = g.value]
    OBVIOUS
  <2>2. editor \in EditorShown
    BY <1>2, <2>1 DEF Offered, EditorShown
  <2>3. Opened(g) = [panel EXCEPT !.editor = editor]
    BY <1>2, <2>1 DEF Opened
  <2> QED
    BY <2>2, <2>3 DEF PanelTyped, PanelIs
<1>3. CASE g.op = "cancel"
  <2>1. Opened(g) = [panel EXCEPT !.editor = None]
    BY <1>3 DEF Opened
  <2> QED
    BY <2>1 DEF PanelTyped, PanelIs
<1>4. CASE g.op = "askRemove"
  <2>1. PICK dialog : dialog = [kind |-> "remove", id |-> g.id]
    OBVIOUS
  <2>2. dialog \in RemoveShown
    BY <1>4, <2>1 DEF Offered, RemoveShown
  <2>3. Opened(g) = [panel EXCEPT !.dialog = dialog]
    BY <1>4, <2>1 DEF Opened
  <2> QED
    BY <2>2, <2>3 DEF PanelTyped, PanelIs
<1>5. CASE g.op = "openImport"
  <2>1. PICK dialog : dialog = [kind |-> "import", id |-> g.id, text |-> g.value, busy |-> FALSE, conflict |-> FALSE]
    OBVIOUS
  <2>2. dialog \in ImportShown
    BY <1>5, <2>1 DEF Offered, ImportShown
  <2>3. Opened(g) = [panel EXCEPT !.dialog = dialog]
    BY <1>5, <2>1 DEF Opened
  <2> QED
    BY <2>2, <2>3 DEF PanelTyped, PanelIs
<1>6. CASE g.op = "close"
  <2>1. Opened(g) = [panel EXCEPT !.dialog = None]
    BY <1>6 DEF Opened
  <2> QED
    BY <2>1 DEF PanelTyped, PanelIs
<1> QED
  BY <1>1, <1>2, <1>3, <1>4, <1>5, <1>6 DEF OfThePanel

LEMMA ResolvedPanel ==
  ASSUME PanelTyped, NEW g, NEW doc \in Appearance, NEW p \in Resolved(g, doc)
  PROVE  PanelIs(p)
<1>1. CASE g.op \in {"create", "update"}
  <2>1. p = [panel EXCEPT !.editor = None]
    BY <1>1 DEF Resolved
  <2> QED
    BY <2>1 DEF PanelTyped, PanelIs
<1>2. CASE g.op \in {"import", "replace", "keep_both"}
  <2>1. p = [panel EXCEPT !.dialog = None]
    BY <1>2 DEF Resolved
  <2> QED
    BY <2>1 DEF PanelTyped, PanelIs
<1>3. CASE g.op = "duplicate"
  <2>1. PICK i : i \in Custom(doc) /\ p = [panel EXCEPT !.editor = Editor(i, doc.custom_themes[i], FALSE)]
    BY <1>3 DEF Resolved
  <2>2. PICK editor : editor = Editor(i, doc.custom_themes[i], FALSE)
    OBVIOUS
  <2>3. editor \in EditorShown
    BY <2>1, <2>2, CustomText, EditorIs
  <2> QED
    BY <2>1, <2>2, <2>3 DEF PanelTyped, PanelIs
<1>4. CASE g.op \notin {"create", "update", "import", "replace", "keep_both", "duplicate"}
  <2>1. p = panel
    BY <1>4 DEF Resolved
  <2> QED
    BY <2>1 DEF PanelTyped, PanelIs
<1> QED
  BY <1>1, <1>2, <1>3, <1>4

LEMMA RejectedPanel ==
  ASSUME PanelTyped, NEW g
  PROVE  PanelIs(Rejected(g))
<1>1. PICK editor : editor = IF panel.editor # None /\ g.op \in {"create", "update"}
                               THEN [panel.editor EXCEPT !.saving = FALSE] ELSE panel.editor
  OBVIOUS
<1>2. PICK conflict : conflict = (panel.dialog.conflict \/ (g.op = "import" /\ g.id \in Custom(look'.ref)))
  OBVIOUS
<1>3. PICK dialog : dialog = IF panel.dialog # None /\ g.op \in {"import", "replace", "keep_both"}
                                /\ panel.dialog.kind = "import"
                               THEN [panel.dialog EXCEPT !.busy = FALSE, !.conflict = conflict] ELSE panel.dialog
  OBVIOUS
<1>4. editor \in {None} \cup EditorShown
  BY <1>1 DEF PanelTyped, EditorShown
<1>5. dialog \in {None} \cup RemoveShown \cup ImportShown
  <2>0. conflict \in BOOLEAN
    BY <1>2
  <2>1. CASE dialog = panel.dialog
    BY <2>1 DEF PanelTyped
  <2>2. CASE /\ panel.dialog # None /\ panel.dialog.kind = "import"
             /\ dialog = [panel.dialog EXCEPT !.busy = FALSE, !.conflict = conflict]
    <3>1. panel.dialog \in ImportShown
      BY <2>2 DEF PanelTyped, RemoveShown
    <3>2. dialog \in ImportShown
      BY <2>0, <2>2, <3>1 DEF ImportShown
    <3> QED
      BY <3>2
  <2> QED
    BY <1>3, <2>1, <2>2
<1>6. Rejected(g) = [panel EXCEPT !.editor = editor, !.dialog = dialog]
  BY <1>1, <1>2, <1>3 DEF Rejected
<1> QED
  BY <1>4, <1>5, <1>6, PanelWith

-------------------------------------------------------------------------------
(* The queue is drained.                                                     *)

LEMMA BasisIs ==
  ASSUME SettingsAssumption, DocumentsTyped, running # None, QueueMade, BusyAgrees
  PROVE  Basis \in Appearance
<1>1. running \in MutationCall /\ WellMade(running.of)
  BY DEF QueueMade, CallMade
<1>2. CASE running.at # "out"
  BY <1>2 DEF Basis, DocumentsTyped
<1>3. CASE running.at = "out" /\ running.of.kind = "update"
  BY <1>3 DEF Basis, BusyAgrees
<1>4. CASE running.at = "out" /\ running.of.kind # "update"
  <2>1. PICK m, g : m = running.of /\ g = Command(running.of)
    OBVIOUS
  <2>2. Meant(g)
    <3>1. AllMeant(m.gestures) /\ Len(m.gestures) \in Nat \ {0}
      BY <1>1, <2>1, MadeMeant
    <3> QED
      BY <2>1, <3>1 DEF AllMeant, Command, Last
  <2>3. Alone(stored, g) \in Appearance
    BY <2>2, AloneServes DEF DocumentsTyped
  <2> QED
    BY <1>4, <2>1, <2>3 DEF Basis
<1> QED
  BY <1>2, <1>3, <1>4

\* Nothing queued is right, and so are updates of the terminal settings alone.
LEMMA RightNone ==
  ASSUME SettingsAssumption, NEW doc \in Appearance
  PROVE  Right(doc, <<>>)
<1>1. PICK queue : queue = <<>>
  OBVIOUS
<1>2. AllMade(queue) /\ Len(queue) = 0
  BY <1>1 DEF AllMade
<1>3. PICK f : Unfolding(f, 0, doc, TogetherSteps(queue))
  BY <1>2, GrantedUnfolds
<1> QED
  BY <1>1, <1>2, <1>3 DEF Right

LEMMA RightTerminal ==
  ASSUME SettingsAssumption, NEW doc \in Appearance, NEW queue, AllMade(queue),
         ~\E k \in 1..Len(queue) : Asks(queue[k], "theme")
  PROVE  Right(doc, queue)
<1>1. PICK N : N = Len(queue)
  OBVIOUS
<1>2. N \in Nat /\ \A i \in 1..N : WellMade(queue[i]) /\ i - 1 \in 0..N
  BY <1>1 DEF AllMade
<1>3. PICK f : Unfolding(f, N, doc, TogetherSteps(queue))
  BY <1>1, GrantedUnfolds
<1>4. ASSUME NEW k \in 1..N PROVE Writes(f[k - 1], queue[k])
  <2>1. PICK d, m : d = f[k - 1] /\ m = queue[k]
    OBVIOUS
  <2>2. d \in Appearance /\ WellMade(m) /\ ~Asks(m, "theme")
    BY <1>1, <1>2, <1>3, <1>4, <2>1 DEF Unfolding
  <2>3. PICK n : n = Len(m.gestures)
    OBVIOUS
  <2>4. n \in 1..n
    BY <2>2, <2>3, MadeMeant
  <2>5. m.kind = "update" => m.gestures[n].op = "terminal"
    BY <2>2, <2>3, <2>4 DEF WellMade, UpdateOf, Asks, Whole
  <2> QED
    BY <2>1, <2>2, <2>3, <2>5, TerminalWrites
<1> QED
  BY <1>1, <1>3, <1>4 DEF Right

\* What the first mutation of a queue sends makes the document it asks for.
Sends(queue, ref) ==
  queue # <<>> /\ Head(queue).kind = "update" =>
    Projected(ref, Head(queue).patches) = Together(stored, Head(queue).gestures)

Drained(queue) ==
  /\ QueueMade' /\ BusyAgrees'
  /\ queue = <<>> => running' = None
  /\ queue # <<>> => running' # None
  /\ running' = None => pending' = <<>> /\ wish' = stored'

LEMMA Drains ==
  ASSUME SettingsAssumption, stored \in Appearance, stored' = stored, NEW queue, AllMade(queue),
         wish' = Granted(stored, queue), NEW ref, Sends(queue, ref), Right(stored, queue), Drain(queue, ref)
  PROVE  Drained(queue)
<1>1. CASE queue = <<>>
  <2>1. running' = None /\ pending' = <<>>
    BY <1>1 DEF Drain
  <2>2. wish' = stored'
    BY <1>1, GrantedNone
  <2>3. AllMade(<<>>)
    BY DEF AllMade
  <2> QED
    BY <1>1, <2>1, <2>2, <2>3 DEF Drained, QueueMade, BusyAgrees
<1>2. CASE queue # <<>>
  <2>1. PICK m, rest : m = Head(queue) /\ rest = Tail(queue)
    OBVIOUS
  <2>2. AllMade(rest) /\ WellMade(m) /\ Granted(stored, queue) = Granted(Together(stored, m.gestures), rest)
        /\ Right(Together(stored, m.gestures), rest)
    BY <1>2, <2>1, GrantedFirst, RightFirst
  <2>3. PICK first : first = Together(stored, m.gestures)
    OBVIOUS
  <2>4. first \in Appearance
    BY <2>2, <2>3, MadeMeant, TogetherMeant
  <2>5. PICK next : next = IF m.kind = "update" THEN first ELSE None
    OBVIOUS
  <2>6. running' = [of |-> m, at |-> "out", answer |-> None, next |-> next] /\ pending' = rest
    BY <1>2, <2>1, <2>3, <2>5 DEF Drain, Sent, Sends
  <2>7. running' \in MutationCall /\ running'.of = m /\ running'.at = "out" /\ running'.next = next
    <3>1. m \in PendingMutation
      BY <2>2 DEF WellMade
    <3> QED
      BY <2>4, <2>5, <2>6, <3>1 DEF MutationCall
  <2>8. running' # None
    BY <2>7 DEF SettingsAssumption
  <2>9. Basis' = first
    <3>1. CASE m.kind = "update"
      BY <2>5, <2>7, <3>1 DEF Basis
    <3>2. CASE m.kind # "update"
      <4>1. m.kind = "task"
        BY <2>2, <3>2 DEF WellMade, PendingMutation
      <4>2. first = Alone(stored, Command(m))
        BY <2>2, <2>3, <4>1, TaskGrants
      <4>3. Basis' = Alone(stored, Command(m))
        BY <2>7, <3>2 DEF Basis
      <4> QED
        BY <4>2, <4>3
    <3> QED
      BY <3>1, <3>2
  <2>10. wish' = Granted(Basis', pending')
    BY <2>2, <2>3, <2>6, <2>9
  <2>11. BusyAgrees'
    <3>1. Right(Basis', pending')
      BY <2>2, <2>3, <2>6, <2>9
    <3>2. running'.of.kind = "update" => running'.next \in Appearance /\ running'.next = Together(stored', running'.of.gestures)
      BY <2>3, <2>4, <2>5, <2>7
    <3> QED
      BY <2>7, <2>10, <3>1, <3>2 DEF BusyAgrees
  <2>12. QueueMade'
    BY <2>2, <2>6, <2>7 DEF QueueMade, CallMade
  <2> QED
    BY <1>2, <2>8, <2>11, <2>12 DEF Drained
<1> QED
  BY <1>1, <1>2

\* An update is rebased onto what was answered.
LEMMA Rebased ==
  ASSUME SettingsAssumption, stored \in Appearance, NEW queue, AllMade(queue), Right(stored, queue)
  PROVE  Sends(queue, stored)
<1> SUFFICES ASSUME queue # <<>>, Head(queue).kind = "update"
             PROVE  Projected(stored, Head(queue).patches) = Together(stored, Head(queue).gestures)
  BY DEF Sends
<1>1. PICK m : m = Head(queue)
  OBVIOUS
<1>2. WellMade(m) /\ Writes(stored, m)
  BY <1>1, GrantedFirst, RightFirst
<1> QED
  BY <1>1, <1>2, UpdateGrants

\* A control is used: what it asks joins the queue, or goes out at once.
LEMMA Enqueues ==
  ASSUME SettingsAssumption, DocumentsTyped, QueueMade, IdleAgrees, BusyAgrees, stored' = stored,
         NEW g, Meant(g), wish' = Alone(wish, g), NEW queue, NEW ref,
         running = None => Joins(pending, queue, stored, g) /\ Sends(queue, ref),
         running # None => Joins(pending, queue, Basis, g), Enqueue(queue, ref)
  PROVE  QueueMade' /\ BusyAgrees' /\ running' # None
<1>0. stored \in Appearance /\ wish \in Appearance
  BY DEF DocumentsTyped
<1>1. CASE running = None
  <2>1. pending = <<>> /\ wish = stored
    BY <1>1 DEF IdleAgrees
  <2>2. AllMade(queue) /\ queue # <<>> /\ Granted(stored, queue) = Alone(Granted(stored, pending), g)
        /\ Right(stored, queue)
    BY <1>1 DEF Joins
  <2>3. Granted(stored, pending) = stored
    BY <1>0, <2>1, GrantedNone
  <2>4. wish' = Granted(stored, queue)
    BY <2>1, <2>2, <2>3
  <2>5. Drained(queue)
    <3>1. Drain(queue, ref) /\ Sends(queue, ref)
      BY <1>1 DEF Enqueue
    <3> QED
      BY <1>0, <2>2, <2>4, <3>1, Drains
  <2> QED
    BY <2>2, <2>5 DEF Drained
<1>2. CASE running # None
  <2>1. pending' = queue /\ running' = running
    BY <1>2 DEF Enqueue
  <2>2. Basis' = Basis
    BY <2>1 DEF Basis
  <2>3. PICK doc : doc = Basis
    OBVIOUS
  <2>4. doc \in Appearance /\ wish = Granted(doc, pending)
    BY <1>2, <2>3, BasisIs DEF BusyAgrees
  <2>5. Joins(pending, queue, doc, g)
    BY <1>2, <2>3
  <2>6. wish' = Granted(Basis', pending')
    BY <2>1, <2>2, <2>3, <2>4, <2>5 DEF Joins
  <2>7. QueueMade'
    BY <1>2, <2>1, <2>5 DEF QueueMade, CallMade, Joins
  <2>8. BusyAgrees'
    BY <1>2, <2>1, <2>2, <2>3, <2>5, <2>6 DEF BusyAgrees, Joins
  <2> QED
    BY <1>2, <2>1, <2>7, <2>8
<1> QED
  BY <1>1, <1>2

-------------------------------------------------------------------------------
(* What each action keeps.                                                   *)

LEMMA AppearanceInit ==
  ASSUME SettingsAssumption, SettingsInit
  PROVE  AppearanceInv
<1>1. DEFAULT_APPEARANCE \in Appearance
  BY DEF DEFAULT_APPEARANCE, Appearance, Theme, GlassOpacity
<1>2. PICK other : other = [theme |-> "dark", terminal |-> "w500", selected |-> Min(ThemeId),
                  custom_themes |-> [i \in ThemeId |-> IF i = Min(ThemeId) THEN FirstText ELSE None],
                  glass_opacity |-> "80"]
  OBVIOUS
<1>3. other \in Appearance
  <2>1. Min(ThemeId) \in ThemeId /\ FirstText \in ThemeText
    BY LeastIn DEF SettingsAssumption, FirstText
  <2>2. PICK least, text : least = Min(ThemeId) /\ text = FirstText
    OBVIOUS
  <2> QED
    BY <1>2, <2>1, <2>2 DEF Appearance, Theme, GlassOpacity
<1>4. stored \in Appearance /\ wish = stored
  BY <1>1, <1>2, <1>3 DEF SettingsInit
<1>5. look = [ref |-> DEFAULT_APPEARANCE, rendered |-> DEFAULT_APPEARANCE, drawn |-> TRUE,
             load |-> "out", read |-> None, known |-> FALSE]
  BY DEF SettingsInit
<1>6. look \in LookShown /\ look.load = "out" /\ ~look.known
  BY <1>1, <1>5 DEF LookShown
<1>7. pending = <<>> /\ running = None /\ PanelTyped
  BY DEF SettingsInit, PanelTyped
<1>8. AllMade(<<>>)
  BY DEF AllMade
<1> QED
  BY <1>4, <1>6, <1>7, <1>8
    DEF AppearanceInv, AppearanceGood, DocumentsTyped, QueueMade, Unasked, IdleAgrees, BusyAgrees

\* Once a control may be used, the document is known and the change is of one setting.
LEMMA AskedInTime ==
  ASSUME DocumentsTyped, NEW g, Asked(g), astray' = {}
  PROVE  /\ look.known /\ look.load \notin {"out", "answered"}
         /\ g.op = "theme" => look.drawn /\ look.ref.terminal = wish.terminal
         /\ stored' = stored /\ wish' = Alone(wish, g)
<1>1. Straying(g) = {}
  BY DEF Asked
<1>2. "early" \notin Straying(g) /\ "unrendered" \notin Straying(g) /\ "carried" \notin Straying(g)
  BY <1>1
<1>3. look.known \in BOOLEAN /\ look.drawn \in BOOLEAN
  BY DEF DocumentsTyped, LookShown
<1>4. look.known /\ look.load \notin {"out", "answered"}
  BY <1>2, <1>3 DEF Straying
<1>5. g.op = "theme" => look.drawn /\ look.ref.terminal = wish.terminal
  BY <1>2, <1>3 DEF Straying
<1> QED
  BY <1>4, <1>5 DEF Asked

LEMMA UpdatingAppearance ==
  ASSUME SettingsAssumption, AppearanceGood, NEW g, Offered(g), UpdateAppearance(g), astray' = {}
  PROVE  AppearanceGood'
<1>0. DocumentsTyped /\ PanelTyped /\ QueueMade /\ IdleAgrees /\ BusyAgrees /\ Unasked
  BY DEF AppearanceGood
<1>1. Meant(g) /\ g.op \in Whole
  BY DEF UpdateAppearance, Offered
<1>2. look.known /\ look.load \notin {"out", "answered"} /\ stored' = stored /\ wish' = Alone(wish, g)
      /\ (g.op = "theme" => look.drawn /\ look.ref.terminal = wish.terminal)
  BY <1>0, AskedInTime DEF UpdateAppearance
<1>3. PICK ref, t : ref = look.ref /\ t = look.ref.terminal
  OBVIOUS
<1>4. ref \in Appearance /\ t \in TerminalSettings /\ stored \in Appearance /\ wish \in Appearance /\ look \in LookShown
  BY <1>0, <1>3 DEF DocumentsTyped, LookShown, Appearance, TerminalSettings
<1>5. PatchOf(g) = Carrying(g, t)
  <2>1. CASE g.op = "terminal"
    <3>1. {g.op} \cup {} = {g.op, "terminal"}
      BY <2>1
    <3> QED
      BY <2>1, <3>1 DEF PatchOf, Carrying
  <2>2. CASE g.op = "theme"
    <3>1. {g.op} \cup ({"terminal"} \cup {}) = {g.op, "terminal"}
      OBVIOUS
    <3> QED
      BY <1>2, <1>3, <2>2, <3>1 DEF PatchOf, Carrying
  <2> QED
    BY <1>1, <2>1, <2>2 DEF Whole
<1>6. PICK next, queue : next = Spread(ref, Carrying(g, t)) /\ queue = Updated(pending, g, Carrying(g, t))
  OBVIOUS
<1>7. next = Alone(ref, g) /\ next \in Appearance
  BY <1>1, <1>3, <1>4, <1>6, AloneSpreads, AloneServes
<1>9. look' = [look EXCEPT !.ref = next, !.rendered = next, !.drawn = TRUE] /\ Enqueue(queue, next)
      /\ panel' = panel
  BY <1>3, <1>5, <1>6 DEF UpdateAppearance
<1>10. ASSUME running # None PROVE Joins(pending, queue, Basis, g)
  <2>1. PICK doc : doc = Basis
    OBVIOUS
  <2>2. doc \in Appearance /\ wish = Granted(doc, pending) /\ Right(doc, pending) /\ AllMade(pending)
    BY <1>0, <1>10, <2>1, BasisIs DEF BusyAgrees, QueueMade
  <2> QED
    BY <1>1, <1>2, <1>3, <1>4, <1>6, <2>1, <2>2, UpdatedJoins
<1>11. ASSUME running = None PROVE Joins(pending, queue, stored, g) /\ Sends(queue, next)
  <2>1. pending = <<>> /\ ref = stored /\ wish = stored
    BY <1>0, <1>2, <1>3, <1>11 DEF IdleAgrees
  <2>2. Joins(pending, queue, stored, g)
    <3>1. Right(stored, pending) /\ Granted(stored, pending) = stored /\ AllMade(pending)
      BY <1>0, <1>4, <2>1, RightNone, GrantedNone DEF QueueMade
    <3> QED
      BY <1>1, <1>2, <1>3, <1>4, <1>6, <2>1, <3>1, UpdatedJoins
  <2>3. PICK m : m = Mutation("update", g, <<Carrying(g, t)>>)
    OBVIOUS
  <2>4. queue = <<m>> /\ Head(queue) = m
    BY <1>6, <2>1, <2>3 DEF Updated
  <2>5. PICK gestures, patches : gestures = m.gestures /\ patches = m.patches
    OBVIOUS
  <2>6. WellMade(m) /\ m.kind = "update" /\ gestures = <<g>> /\ patches = <<Carrying(g, t)>>
    BY <1>1, <1>4, <2>3, <2>5, NewUpdate DEF Mutation
  <2>7. AllMeant(gestures) /\ Len(gestures) = 1 /\ gestures[1] = g /\ Len(patches) = 1 /\ patches[1] = Carrying(g, t)
    BY <1>1, <2>6, OneGesture
  <2>8. Together(next, gestures) = Alone(next, g) /\ Together(ref, gestures) = Alone(ref, g)
    BY <1>4, <1>7, <2>7, TogetherOne
  <2>9. Alone(next, g) = next
    <3>1. g.op = "theme" => t = next.terminal
      BY <1>1, <1>3, <1>4, <1>7, TerminalAlone
    <3>2. Spread(next, Carrying(g, t)) = Alone(next, g)
      BY <1>1, <1>4, <1>7, <3>1, AloneSpreads
    <3> QED
      BY <1>6, <3>2, SpreadAgain
  <2>10. Writes(next, m)
    <3>1. next.terminal = Carrying(g, t).terminal
      BY <1>1, <1>4, <1>6, CarryingSpreads
    <3> QED
      BY <2>5, <2>7, <2>8, <2>9, <3>1 DEF Writes
  <2>11. Projected(next, patches) = next
    BY <1>7, <2>5, <2>6, <2>8, <2>9, <2>10, UpdateGrants
  <2> QED
    BY <1>7, <2>1, <2>2, <2>4, <2>5, <2>8, <2>11 DEF Sends
<1>12. QueueMade' /\ BusyAgrees' /\ running' # None
  BY <1>0, <1>1, <1>2, <1>9, <1>10, <1>11, Enqueues
<1>13. wish' \in Appearance
  BY <1>1, <1>2, <1>4, AloneServes
<1>14. look'.known = look.known /\ look'.load = look.load /\ look' \in LookShown
  BY <1>4, <1>7, <1>9 DEF LookShown
<1>15. DocumentsTyped' /\ PanelTyped'
  BY <1>0, <1>2, <1>4, <1>9, <1>13, <1>14 DEF DocumentsTyped, PanelTyped
<1>16. Unasked'
  BY <1>0, <1>2, <1>14 DEF Unasked
<1> QED
  BY <1>12, <1>15, <1>16 DEF AppearanceGood, IdleAgrees

LEMMA RunningCommand ==
  ASSUME SettingsAssumption, AppearanceGood, NEW g, Offered(g), RunThemeCommand(g), astray' = {}
  PROVE  AppearanceGood'
<1>0. DocumentsTyped /\ PanelTyped /\ QueueMade /\ IdleAgrees /\ BusyAgrees /\ Unasked
  BY DEF AppearanceGood
<1>1. Meant(g) /\ g.op \in Commands
  BY DEF RunThemeCommand, Offered
<1>2. look.known /\ look.load \notin {"out", "answered"} /\ stored' = stored /\ wish' = Alone(wish, g)
  BY <1>0, AskedInTime DEF RunThemeCommand
<1>3. stored \in Appearance /\ wish \in Appearance
  BY <1>0 DEF DocumentsTyped
<1>4. PICK queue, ref : queue = Tasked(pending, g) /\ ref = look.ref
  OBVIOUS
<1>5. Enqueue(queue, ref) /\ look' = look /\ panel' = Waiting(g)
  BY <1>4 DEF RunThemeCommand
<1>6. ASSUME running # None PROVE Joins(pending, queue, Basis, g)
  <2>1. PICK doc : doc = Basis
    OBVIOUS
  <2>2. doc \in Appearance /\ Right(doc, pending) /\ AllMade(pending)
    BY <1>0, <1>6, <2>1, BasisIs DEF BusyAgrees, QueueMade
  <2> QED
    BY <1>1, <1>4, <2>1, <2>2, TaskedJoins
<1>7. ASSUME running = None PROVE Joins(pending, queue, stored, g) /\ Sends(queue, ref)
  <2>1. ref = stored /\ pending = <<>>
    BY <1>0, <1>2, <1>4, <1>7 DEF IdleAgrees
  <2>2. Right(stored, pending) /\ AllMade(pending)
    BY <1>0, <1>3, <2>1, RightNone DEF QueueMade
  <2>3. Joins(pending, queue, stored, g)
    BY <1>1, <1>3, <1>4, <2>2, TaskedJoins
  <2>4. AllMade(queue) /\ Right(stored, queue)
    BY <2>3 DEF Joins
  <2> QED
    BY <1>3, <2>1, <2>3, <2>4, Rebased
<1>8. QueueMade' /\ BusyAgrees' /\ running' # None
  BY <1>0, <1>1, <1>2, <1>5, <1>6, <1>7, Enqueues
<1>9. wish' \in Appearance
  BY <1>1, <1>2, <1>3, AloneServes
<1>10. DocumentsTyped' /\ Unasked'
  BY <1>0, <1>2, <1>3, <1>5, <1>9 DEF DocumentsTyped, Unasked
<1>11. PanelTyped'
  BY <1>0, <1>5, WaitingPanel DEF PanelIs, PanelTyped
<1> QED
  BY <1>8, <1>10, <1>11 DEF AppearanceGood, IdleAgrees

LEMMA UsingPanel ==
  ASSUME AppearanceGood, NEW g, Offered(g), UsePanel(g)
  PROVE  AppearanceGood'
<1>1. g.op \in OfThePanel
  BY DEF Offered, UsePanel
<1>2. PanelTyped'
  BY <1>1, OpenedPanel DEF AppearanceGood, UsePanel, PanelIs, PanelTyped
<1> QED
  BY <1>2 DEF UsePanel, AppearanceGood, DocumentsTyped, QueueMade, Unasked, IdleAgrees, BusyAgrees, Basis

\* A call that is out: what is known of it.
LEMMA CallOut ==
  ASSUME SettingsAssumption, AppearanceGood, running # None
  PROVE  /\ CallMade(running) /\ Meant(Command(running.of))
         /\ look.known /\ look.load \notin {"out", "answered"}
         /\ wish = Granted(Basis, pending) /\ Basis \in Appearance /\ Right(Basis, pending)
<1>1. CallMade(running)
  BY DEF AppearanceGood, QueueMade
<1>2. PICK m : m = running.of
  OBVIOUS
<1>3. Meant(Command(m))
  <2>1. AllMeant(m.gestures) /\ Len(m.gestures) \in Nat \ {0}
    BY <1>1, <1>2, MadeMeant DEF CallMade
  <2> QED
    BY <2>1 DEF AllMeant, Command, Last
<1>4. look.known /\ look.load \notin {"out", "answered"}
  BY DEF AppearanceGood, Unasked, DocumentsTyped, LookShown
<1> QED
  BY <1>1, <1>2, <1>3, <1>4, BasisIs DEF AppearanceGood, BusyAgrees

\* A call that moves on keeps its mutation.
LEMMA CallGoesOn ==
  ASSUME SettingsAssumption, AppearanceGood, running # None, NEW at, at \in {"answered", "refused", "read", "unread"},
         NEW answer, answer \in Appearance \cup {None}, running' = [running EXCEPT !.at = at, !.answer = answer],
         at \in {"answered", "read"} => answer = stored', stored' \in Appearance, wish' \in Appearance,
         wish' = Granted(stored', pending), Right(stored', pending), UNCHANGED <<look, pending, panel>>
  PROVE  AppearanceGood'
<1>1. CallMade(running) /\ look.known /\ look.load \notin {"out", "answered"}
  BY CallOut
<1>2. running' \in MutationCall /\ running'.of = running.of /\ running'.at = at /\ running'.answer = answer
  BY <1>1 DEF CallMade, MutationCall
<1>3. running' # None
  BY <1>2 DEF SettingsAssumption
<1>4. QueueMade'
  BY <1>1, <1>2 DEF AppearanceGood, QueueMade, CallMade
<1>5. Basis' = stored'
  BY <1>2 DEF Basis
<1>6. BusyAgrees'
  BY <1>2, <1>5 DEF BusyAgrees
<1>7. DocumentsTyped' /\ PanelTyped' /\ Unasked'
  BY <1>1 DEF AppearanceGood, DocumentsTyped, PanelTyped, Unasked
<1> QED
  BY <1>3, <1>4, <1>6, <1>7 DEF AppearanceGood, IdleAgrees

LEMMA ServingAppearance ==
  ASSUME SettingsAssumption, AppearanceGood, CoreServesAppearance
  PROVE  AppearanceGood'
<1>1. running # None /\ running.at = "out"
  BY DEF CoreServesAppearance
<1>2. CallMade(running) /\ Meant(Command(running.of)) /\ wish = Granted(Basis, pending) /\ Basis \in Appearance
      /\ Right(Basis, pending)
  BY <1>1, CallOut
<1>3. stored \in Appearance /\ wish \in Appearance
  BY DEF AppearanceGood, DocumentsTyped
<1>4. PICK m, g, outcomes : m = running.of /\ g = Command(m) /\ outcomes = Serves(running.of, running.next)
  OBVIOUS
<1>5. running.of.kind \in {"update", "task"}
  BY <1>2 DEF CallMade, MutationCall, PendingMutation
<1>6. \A doc \in outcomes : doc = Basis
  <2>1. CASE running.of.kind = "update"
    BY <1>1, <1>4, <2>1 DEF Serves, Basis
  <2>2. CASE running.of.kind = "task"
    <3>1. outcomes = Outcomes(stored, g) /\ Basis = Alone(stored, g)
      BY <1>1, <1>4, <2>2 DEF Serves, Basis
    <3> QED
      BY <1>2, <1>3, <1>4, <3>1, AloneServes
  <2> QED
    BY <1>5, <2>1, <2>2
<1>7. outcomes = {} => stored = Basis
  <2>1. CASE running.of.kind = "update"
    BY <1>4, <2>1 DEF Serves
  <2>2. CASE running.of.kind = "task"
    <3>1. outcomes = Outcomes(stored, g) /\ Basis = Alone(stored, g)
      BY <1>1, <1>4, <2>2 DEF Serves, Basis
    <3> QED
      BY <1>2, <1>3, <1>4, <3>1, AloneServes
  <2> QED
    BY <1>5, <2>1, <2>2
<1>8. UNCHANGED <<look, pending, panel, wish>>
  BY DEF CoreServesAppearance
<1>9. CASE \E doc \in outcomes : stored' = doc /\ running' = [running EXCEPT !.at = "answered", !.answer = doc]
  <2>1. PICK doc : doc = Basis
    OBVIOUS
  <2>2. stored' = doc /\ running' = [running EXCEPT !.at = "answered", !.answer = doc]
    BY <1>6, <1>9, <2>1
  <2>3. doc \in Appearance /\ wish' = Granted(stored', pending) /\ wish' \in Appearance /\ Right(stored', pending)
    BY <1>2, <1>3, <1>8, <2>1, <2>2
  <2> QED
    BY <1>1, <1>8, <2>2, <2>3, CallGoesOn
<1>10. CASE outcomes = {} /\ running' = [running EXCEPT !.at = "refused"] /\ UNCHANGED stored
  <2>1. PICK answer : answer = running.answer
    OBVIOUS
  <2>2. answer \in Appearance \cup {None} /\ running' = [running EXCEPT !.at = "refused", !.answer = answer]
    BY <1>2, <1>10, <2>1 DEF CallMade, MutationCall
  <2>3. wish' = Granted(stored', pending) /\ wish' \in Appearance /\ stored' \in Appearance /\ Right(stored', pending)
    BY <1>2, <1>3, <1>7, <1>8, <1>10
  <2> QED
    BY <1>1, <1>8, <2>2, <2>3, CallGoesOn
<1> QED
  BY <1>4, <1>9, <1>10 DEF CoreServesAppearance

LEMMA KeepsAnswer ==
  ASSUME SettingsAssumption, AppearanceGood, running # None, NEW at, running' = [running EXCEPT !.at = at]
  PROVE  \E answer \in Appearance \cup {None} : running' = [running EXCEPT !.at = at, !.answer = answer]
<1>1. running \in MutationCall
  BY CallOut DEF CallMade
<1>2. PICK answer : answer = running.answer
  OBVIOUS
<1>3. answer \in Appearance \cup {None} /\ running' = [running EXCEPT !.at = at, !.answer = answer]
  BY <1>1, <1>2 DEF MutationCall
<1> QED
  BY <1>3

\* A call that asks for no terminal settings will leave them.
LEMMA BasisTerminal ==
  ASSUME SettingsAssumption, AppearanceGood, running # None, running.at = "out", ~Asks(running.of, "terminal")
  PROVE  Basis.terminal = stored.terminal
<1>1. CallMade(running) /\ stored \in Appearance
  BY CallOut DEF AppearanceGood, DocumentsTyped
<1>2. PICK m, gestures, N : m = running.of /\ gestures = m.gestures /\ N = Len(gestures)
  OBVIOUS
<1>3. WellMade(m) /\ AllMeant(gestures) /\ N \in Nat \ {0} /\ \A i \in 1..N : gestures[i].op # "terminal"
  BY <1>1, <1>2, MadeMeant DEF CallMade, Asks
<1>4. CASE m.kind = "update"
  <2>1. Basis = Together(stored, gestures)
    BY <1>2, <1>4 DEF Basis, AppearanceGood, BusyAgrees
  <2>2. Together(stored, gestures).terminal = stored.terminal
    BY <1>1, <1>2, <1>3, TerminalStays
  <2> QED
    BY <2>1, <2>2
<1>5. CASE m.kind # "update"
  <2>1. PICK g : g = Command(m)
    OBVIOUS
  <2>2. Meant(g) /\ g.op # "terminal"
    BY <1>2, <1>3, <2>1 DEF Command, Last, AllMeant
  <2>3. Basis = Alone(stored, g)
    BY <1>2, <1>5, <2>1 DEF Basis
  <2> QED
    BY <1>1, <2>2, <2>3, TerminalAlone
<1> QED
  BY <1>4, <1>5

LEMMA FailingAppearance ==
  ASSUME SettingsAssumption, AppearanceGood, CoreFailsAppearance, astray' = {}
  PROVE  AppearanceGood'
<1>1. running # None /\ running' = [running EXCEPT !.at = "refused"] /\ wish' = Granted(stored, pending)
      /\ UNCHANGED <<stored, look, pending, panel>> /\ running.at = "out"
  BY DEF CoreFailsAppearance
<1>2. PICK answer \in Appearance \cup {None} : running' = [running EXCEPT !.at = "refused", !.answer = answer]
  BY <1>1, KeepsAnswer
<1>3. stored' \in Appearance /\ wish' \in Appearance /\ wish' = Granted(stored', pending)
  BY <1>1, GrantedMade DEF AppearanceGood, DocumentsTyped, QueueMade
<1>4. ~Revived
  BY DEF CoreFailsAppearance
<1>5. Right(stored, pending)
  <2>0. AllMade(pending) /\ stored \in Appearance
    BY DEF AppearanceGood, QueueMade, DocumentsTyped
  <2>1. CASE ~Asks(running.of, "terminal")
    <3>1. PICK doc : doc = Basis
      OBVIOUS
    <3>2. doc.terminal = stored.terminal
      BY <1>1, <2>1, <3>1, BasisTerminal
    <3>3. Right(doc, pending) /\ doc \in Appearance
      BY <1>1, <3>1, CallOut
    <3> QED
      BY <2>0, <3>2, <3>3, RightOver
  <2>2. CASE ~\E k \in 1..Len(pending) : Asks(pending[k], "theme")
    BY <2>0, <2>2, RightTerminal
  <2> QED
    BY <1>4, <2>1, <2>2 DEF Revived
<1>6. Right(stored', pending)
  BY <1>1, <1>5
<1> QED
  BY <1>1, <1>2, <1>3, <1>6, CallGoesOn

LEMMA ReadingAgain ==
  ASSUME SettingsAssumption, AppearanceGood, Reread \/ RereadFails
  PROVE  AppearanceGood'
<1>1. running # None /\ running.at = "refused" /\ UNCHANGED <<stored, wish, look, pending, panel>>
  BY DEF Reread, RereadFails
<1>2. stored' \in Appearance /\ wish' \in Appearance /\ wish' = Granted(stored', pending) /\ Right(stored', pending)
  <2>1. wish = Granted(Basis, pending) /\ Basis = stored /\ Right(Basis, pending)
    BY <1>1, CallOut DEF Basis
  <2> QED
    BY <1>1, <2>1 DEF AppearanceGood, DocumentsTyped
<1>3. CASE Reread
  <2>1. PICK answer : answer = stored'
    OBVIOUS
  <2>2. running' = [running EXCEPT !.at = "read", !.answer = answer] /\ answer \in Appearance
    BY <1>1, <1>2, <1>3, <2>1 DEF Reread
  <2> QED
    BY <1>1, <1>2, <2>1, <2>2, CallGoesOn
<1>4. CASE RereadFails
  <2>1. PICK answer \in Appearance \cup {None} : running' = [running EXCEPT !.at = "unread", !.answer = answer]
    BY <1>1, <1>4, KeepsAnswer DEF RereadFails
  <2> QED
    BY <1>1, <1>2, <2>1, CallGoesOn
<1> QED
  BY <1>3, <1>4

\* An answer is adopted and the queue drained over it.
LEMMA Adopting ==
  ASSUME SettingsAssumption, AppearanceGood, running # None, running.at \in {"answered", "read"},
         NEW doc, doc = running.answer, Adopt(doc), Drain(pending, doc), PanelIs(panel'), UNCHANGED <<stored, wish>>
  PROVE  AppearanceGood'
<1>1. doc = stored /\ Basis = stored /\ running.at # "out"
  BY DEF AppearanceGood, BusyAgrees, Basis
<1>2. look.load \notin {"out", "answered"} /\ wish = Granted(Basis, pending) /\ Right(Basis, pending)
  BY CallOut
<1>3. stored \in Appearance /\ wish \in Appearance /\ look \in LookShown /\ AllMade(pending)
  BY DEF AppearanceGood, DocumentsTyped, QueueMade
<1>4. PICK queue : queue = pending
  OBVIOUS
<1>5. Sends(queue, doc) /\ Right(stored, queue)
  BY <1>1, <1>2, <1>3, <1>4, Rebased
<1>6. wish' = Granted(stored, queue) /\ AllMade(queue) /\ Drain(queue, doc)
  BY <1>1, <1>2, <1>3, <1>4
<1>7. Drained(queue)
  BY <1>3, <1>5, <1>6, Drains
<1>8. look' \in LookShown /\ look'.ref = stored /\ look'.known /\ look'.load = look.load
  BY <1>1, <1>3 DEF Adopt, LookShown
<1>9. look.load = "landed"
  BY CallOut DEF AppearanceGood, Unasked
<1>10. DocumentsTyped' /\ PanelTyped' /\ Unasked'
  BY <1>2, <1>3, <1>8, <1>9 DEF DocumentsTyped, PanelTyped, PanelIs, Unasked
<1>11. IdleAgrees'
  BY <1>7, <1>8 DEF Drained, IdleAgrees
<1> QED
  BY <1>7, <1>10, <1>11 DEF AppearanceGood, Drained

LEMMA AnsweringAppearance ==
  ASSUME SettingsAssumption, AppearanceGood, AppearanceAnswered
  PROVE  AppearanceGood'
<1>1. PICK doc, g : doc = running.answer /\ g = Command(running.of)
  OBVIOUS
<1>2. running # None /\ running.at = "answered" /\ Adopt(doc) /\ Drain(pending, doc)
      /\ UNCHANGED <<stored, wish>> /\ panel' \in Resolved(g, doc)
  BY <1>1 DEF AppearanceAnswered
<1>3. doc \in Appearance
  BY <1>1, <1>2 DEF AppearanceGood, BusyAgrees, DocumentsTyped
<1>4. PanelIs(panel')
  <2>1. PICK p : p = panel'
    OBVIOUS
  <2>2. p \in Resolved(g, doc)
    BY <1>2, <2>1
  <2>3. PanelIs(p)
    BY <1>3, <2>2, ResolvedPanel DEF AppearanceGood
  <2> QED
    BY <2>1, <2>3
<1> QED
  BY <1>1, <1>2, <1>4, Adopting

LEMMA ReconcilingAppearance ==
  ASSUME SettingsAssumption, AppearanceGood, AppearanceReconciled, astray' = {}
  PROVE  AppearanceGood'
<1>1. PICK doc, g : doc = running.answer /\ g = Command(running.of)
  OBVIOUS
<1>2. running # None /\ running.at = "read"
  BY DEF AppearanceReconciled
<1>3. Adopt(doc) /\ panel' = Rejected(g) /\ Drain(pending, look'.ref) /\ UNCHANGED <<stored, wish>>
  BY <1>1, <1>2 DEF AppearanceReconciled
<1>4. look'.ref = doc
  BY <1>3 DEF Adopt, AppearanceGood, DocumentsTyped, LookShown
<1>5. PanelIs(panel')
  BY <1>3, RejectedPanel DEF AppearanceGood
<1> QED
  BY <1>1, <1>2, <1>3, <1>4, <1>5, Adopting

\* The first load, and a render.
LEMMA LoadingAppearance ==
  ASSUME SettingsAssumption, AppearanceGood, CoreServesLoad \/ LoadFails \/ LoadLands
  PROVE  AppearanceGood'
<1>1. look.load \in {"out", "answered"} /\ UNCHANGED <<stored, pending, running, panel, wish>>
  BY DEF CoreServesLoad, LoadFails, LoadLands
<1>2. running = None /\ pending = <<>> /\ wish = stored /\ (look.load = "answered" => look.read = stored)
  BY <1>1 DEF AppearanceGood, Unasked
<1>3. look \in LookShown /\ stored \in Appearance
  BY DEF AppearanceGood, DocumentsTyped
<1>4. look' \in LookShown
  BY <1>2, <1>3 DEF CoreServesLoad, LoadFails, LoadLands, LookShown
<1>5. look'.load = "answered" => look'.read = stored
  BY <1>2, <1>3 DEF CoreServesLoad, LoadFails, LoadLands, LookShown
<1>6. look'.load = "landed" => look'.known /\ look'.ref = stored
  BY <1>2, <1>3 DEF CoreServesLoad, LoadFails, LoadLands, LookShown
<1>7. look'.known => look'.load = "landed"
  <2>1. ~look.known
    BY <1>1 DEF AppearanceGood, Unasked
  <2> QED
    BY <1>3, <2>1 DEF CoreServesLoad, LoadFails, LoadLands, LookShown
<1>8. DocumentsTyped' /\ PanelTyped' /\ QueueMade'
  BY <1>1, <1>4 DEF AppearanceGood, DocumentsTyped, PanelTyped, QueueMade
<1>9. Unasked' /\ IdleAgrees' /\ BusyAgrees'
  BY <1>1, <1>2, <1>5, <1>6, <1>7 DEF Unasked, IdleAgrees, BusyAgrees
<1> QED
  BY <1>8, <1>9 DEF AppearanceGood

LEMMA Drawing ==
  ASSUME AppearanceGood, Draw
  PROVE  AppearanceGood'
<1>1. look \in LookShown
  BY DEF AppearanceGood, DocumentsTyped
<1>2. look' \in LookShown /\ look'.ref = look.ref /\ look'.load = look.load /\ look'.known = look.known
      /\ look'.read = look.read
  BY <1>1 DEF Draw, LookShown
<1>3. UNCHANGED <<stored, pending, running, panel, wish>>
  BY DEF Draw
<1>4. DocumentsTyped' /\ PanelTyped' /\ QueueMade'
  BY <1>2, <1>3 DEF AppearanceGood, DocumentsTyped, PanelTyped, QueueMade
<1>5. Unasked' /\ IdleAgrees'
  BY <1>2, <1>3 DEF AppearanceGood, Unasked, IdleAgrees
<1>6. BusyAgrees'
  BY <1>3 DEF AppearanceGood, BusyAgrees, Basis
<1> QED
  BY <1>4, <1>5, <1>6 DEF AppearanceGood

LEMMA AppearanceSame ==
  ASSUME AppearanceGood, UNCHANGED <<appearanceVars, wish>>
  PROVE  AppearanceGood'
BY DEF appearanceVars, AppearanceGood, DocumentsTyped, PanelTyped, QueueMade, Unasked, IdleAgrees, BusyAgrees, Basis

LEMMA AppearanceStep ==
  ASSUME SettingsAssumption, AppearanceInv, [SettingsNext]_settingVars
  PROVE  AppearanceInv'
<1> SUFFICES ASSUME astray' = {} PROVE AppearanceGood'
  BY DEF AppearanceInv
<1>0. AppearanceGood
  BY StaysAstray DEF AppearanceInv
<1>1. CASE AppearanceNext
  <2>1. CASE \E g \in AppearanceOffers(look.rendered) : UpdateAppearance(g) \/ RunThemeCommand(g) \/ UsePanel(g)
    <3>1. PICK g \in AppearanceOffers(look.rendered) : UpdateAppearance(g) \/ RunThemeCommand(g) \/ UsePanel(g)
      BY <2>1
    <3>2. Offered(g)
      BY <1>0, OffersAppearance DEF AppearanceGood
    <3> QED
      BY <1>0, <3>1, <3>2, UpdatingAppearance, RunningCommand, UsingPanel
  <2>2. CASE CoreServesAppearance \/ CoreFailsAppearance \/ AppearanceAnswered
    BY <1>0, <2>2, ServingAppearance, FailingAppearance, AnsweringAppearance
  <2>3. CASE Reread \/ RereadFails \/ AppearanceReconciled
    BY <1>0, <2>3, ReadingAgain, ReconcilingAppearance
  <2>4. CASE CoreServesLoad \/ LoadFails \/ LoadLands \/ Draw
    BY <1>0, <2>4, LoadingAppearance, Drawing
  <2> QED
    BY <1>1, <2>1, <2>2, <2>3, <2>4 DEF AppearanceNext
<1>2. CASE UNCHANGED <<appearanceVars, wish>>
  BY <1>0, <1>2, AppearanceSame
<1> QED
  BY <1>1, <1>2, SheetLeavesAppearance DEF SettingsNext, settingVars

-------------------------------------------------------------------------------

LEMMA AgreeKept ==
  ASSUME AppearanceInv, SheetInv
  PROVE  SettingsKept
<1>1. AppearanceKept
  BY DEF AppearanceInv, AppearanceGood, Unasked, IdleAgrees, AppearanceKept
<1>2. SheetKept
  BY DEF SheetInv, SheetGood, SheetSettled, SheetKept
<1> QED
  BY <1>1, <1>2 DEF SettingsKept

\* With nothing under way, what is stored is what was asked for, gesture by gesture, and what is
\* shown is what is stored: appearanceMutationQueue.ts coalesces, supersedes, rebases and refuses
\* without losing a gesture.  A behaviour is followed until it strays: a change before the first
\* read has landed, a re-read that failed, a mode chosen between an answer and the render that shows
\* it, a mode that carries terminal settings other than those asked for (AppearanceProvider.tsx:38,57),
\* and, of the documents saved without a queue, a second call while one is out.
THEOREM SettingsKeptHolds == SettingsSpec => []SettingsKept
<1>1. SettingsInit => AppearanceInv /\ SheetInv
  BY SettingsAssumption, AppearanceInit, SheetInit
<1>2. AppearanceInv /\ SheetInv /\ [SettingsNext]_settingVars => AppearanceInv' /\ SheetInv'
  BY SettingsAssumption, AppearanceStep, SheetStep
<1>3. AppearanceInv /\ SheetInv => SettingsKept
  BY AgreeKept
<1> QED
  BY <1>1, <1>2, <1>3, PTL DEF SettingsSpec

===============================================================================
