---------------------------- MODULE AndroidDumps ----------------------------
(***************************************************************************)
(* The decoders of what an Android shell command prints                     *)
(* (src/android/adb/adapters/_runtime_parsers.py, _display_parsers.py and   *)
(* _window_parsers.py), and for each what the text says, stated without its *)
(* scan.  A text is a sequence of lines; a line is what the decoder's       *)
(* patterns can tell of it: which one matches, and what they capture, with  *)
(* small numbers for ids.  An optional value is <<>> or <<v>>.              *)
(***************************************************************************)
EXTENDS Naturals, Sequences, FiniteSets, SequencesExt, FiniteSetsExt, TLC

Ids == 1 .. 2

\* What a decoder returns: a value, None, or an AdbProtocolError.
Decoded(value) == [raised |-> "none", found |-> TRUE, value |-> value]
NotThere == [raised |-> "none", found |-> FALSE, value |-> <<>>]
Unsupported == [raised |-> "protocol", found |-> FALSE, value |-> <<>>]
When(supported, decoded) == IF supported THEN decoded ELSE Unsupported

\* The loop over text.splitlines(): an exception ends it.
Fresh == [raised |-> FALSE, section |-> <<>>, rows |-> <<>>, seen |-> {}]
Raise(acc) == [acc EXCEPT !.raised = TRUE]
Scan(Read(_, _), text) ==
  FoldLeft(LAMBDA acc, line : IF acc.raised THEN acc ELSE Read(acc, line), Fresh, text)

\* The lines of some kinds, the first one of a pattern, and strip() of the text.
Lines(text, kinds) == SelectSeq(text, LAMBDA l : l.is \in kinds)
First(text, kinds) == LET found == Lines(text, kinds) IN SubSeq(found, 1, IF found = <<>> THEN 0 ELSE 1)
Places(text, kinds) == SetToSortSeq({i \in DOMAIN text : text[i].is \in kinds}, <)
Strip(text) ==
  LET ink == {i \in DOMAIN text : text[i].is # "blank"} IN
  IF ink = {} THEN <<>> ELSE SubSeq(text, Min(ink), Max(ink))

\* The section a line is in: what the last line of these kinds before it captured.
SectionOf(text, i, kinds) ==
  LET before == {j \in 1 .. i - 1 : text[j].is \in kinds} IN
  IF before = {} THEN <<>> ELSE <<text[Max(before)].id>>

Kind(k) == [is |-> k]
Numbered(k, ids) == {[is |-> k, id |-> i] : i \in ids}
-----------------------------------------------------------------------------
(* Users: every row that names an id must parse, and be as many as declared. *)

UserLines == Numbered("header", 0 .. 2) \cup Numbered("row", Ids) \cup {Kind("garbled"), Kind("other")}

read_user(acc, line) ==
  CASE line.is = "header" -> [acc EXCEPT !.section = <<line.id>>]
    [] line.is = "row" -> [acc EXCEPT !.rows = Append(@, line.id)]
    [] line.is = "garbled" -> Raise(acc)
    [] OTHER -> acc

parse_users(text) ==
  LET end == Scan(read_user, text) IN
  When(~end.raised /\ end.section = <<Len(end.rows)>>, Decoded(end.rows))

UsersIn(text) ==
  LET rows == Lines(text, {"row"})
      headers == Lines(text, {"header"}) IN
  When(/\ headers # <<>> /\ Last(headers).id = Len(rows) /\ Lines(text, {"garbled"}) = <<>>,
       Decoded([k \in DOMAIN rows |-> rows[k].id]))
-----------------------------------------------------------------------------
(* Resumed activities, each in the logical display whose section it is in.   *)

ActivityLines == Numbered("display", Ids) \cup Numbered("row", Ids) \cup {Kind("garbled"), Kind("title"), Kind("other")}

read_activity(acc, line) ==
  CASE line.is = "display" -> [acc EXCEPT !.section = <<line.id>>, !.seen = @ \cup {"structure"}]
    [] line.is = "title" -> [acc EXCEPT !.seen = @ \cup {"structure"}]
    [] line.is = "garbled" -> Raise(acc)
    [] line.is = "row" -> IF acc.section = <<>> THEN Raise(acc)
                          ELSE [acc EXCEPT !.rows = Append(@, <<line.id, acc.section>>)]
    [] OTHER -> acc

parse_resumed_activities(text) ==
  LET end == Scan(read_activity, text) IN When(~end.raised /\ end.seen # {}, Decoded(end.rows))

ActivitiesIn(text) ==
  LET at == Places(text, {"row"}) IN
  When(/\ Lines(text, {"title", "display"}) # <<>> /\ Lines(text, {"garbled"}) = <<>>
       /\ \A k \in DOMAIN at : SectionOf(text, at[k], {"display"}) # <<>>,
       Decoded([k \in DOMAIN at |-> <<text[at[k]].id, SectionOf(text, at[k], {"display"})>>]))
-----------------------------------------------------------------------------
(* Logical displays: a row of the override beats one of the base, and among  *)
(* equals the last one counts.  A row is complete (size, rotation, density)  *)
(* and has its own id or that of the section.  A line with mDisplayId= opens *)
(* a section, and a row may have one too ("legacy").                         *)

DisplayLines ==
  Numbered("section", Ids)
    \cup {[is |-> "row", id |-> id, legacy |-> <<>>, override |-> o, dpi |-> d] :
            id \in {<<>>, <<1>>}, o \in BOOLEAN, d \in {160, 320}}
    \cup {[is |-> "row", id |-> <<>>, legacy |-> <<2>>, override |-> FALSE, dpi |-> 160]}
    \cup {Kind("incomplete"), Kind("null_override")}

Priority(row) == IF row.override THEN 2 ELSE 1

\* Mutant: the first row among equals is kept.
PrefersOld(row, old) == Priority(row) > Priority(old)

\* row_priority >= priority[display_id]
Prefers(row, old) == Priority(row) >= Priority(old)

read_display(acc, line) ==
  CASE line.is = "section" -> [acc EXCEPT !.section = <<line.id>>]
    [] line.is = "incomplete" -> Raise(acc)
    [] line.is = "row" ->
         LET section == IF line.legacy # <<>> THEN line.legacy ELSE acc.section
             id == IF line.id # <<>> THEN line.id ELSE section IN
         IF id = <<>> THEN Raise(acc)
         ELSE IF id[1] \in DOMAIN acc.rows /\ ~Prefers(line, acc.rows[id[1]]) THEN [acc EXCEPT !.section = section]
         ELSE [acc EXCEPT !.section = section, !.rows = (id[1] :> line) @@ @]
    [] OTHER -> acc

parse_dumpsys_display(text) ==
  LET end == Scan(read_display, text)
      ids == SetToSortSeq(DOMAIN end.rows, <) IN
  When(~end.raised /\ ids # <<>>, Decoded([k \in DOMAIN ids |-> <<ids[k], end.rows[ids[k]].dpi>>]))

DisplaysIn(text) ==
  LET at == ToSet(Places(text, {"row"}))
      mark(i) == IF text[i].is = "section" THEN <<text[i].id>> ELSE IF i \in at THEN text[i].legacy ELSE <<>>
      marks(i) == {j \in 1 .. i : mark(j) # <<>>}
      idOf(i) == IF text[i].id # <<>> THEN text[i].id ELSE IF marks(i) = {} THEN <<>> ELSE mark(Max(marks(i)))
      ids == SetToSortSeq({idOf(i)[1] : i \in {j \in at : idOf(j) # <<>>}}, <)
      override(id) == {i \in at : idOf(i) = <<id>> /\ text[i].override}
      best(id) == IF override(id) # {} THEN Max(override(id)) ELSE Max({i \in at : idOf(i) = <<id>>}) IN
  When(at # {} /\ Lines(text, {"incomplete"}) = <<>> /\ \A i \in at : idOf(i) # <<>>,
       Decoded([k \in DOMAIN ids |-> <<ids[k], text[best(ids[k])].dpi>>]))
-----------------------------------------------------------------------------
(* Windows: a block per header; in each the first display and the first of   *)
(* the other facts (frame, visibility, surface: "rest") count; the focused   *)
(* window, named anywhere in the text, must be among them.                   *)

WindowLines ==
  Numbered("header", Ids) \cup Numbered("facts", Ids) \cup Numbered("display", {1})
    \cup {Kind("bad_rest")} \cup Numbered("focus", Ids)

\* The first value found stays.
Keep(old, new) == IF old = <<>> THEN <<new>> ELSE old

InBlock(acc, Change(_)) ==
  IF acc.rows = <<>> THEN acc ELSE [acc EXCEPT !.rows[Len(acc.rows)] = Change(@)]

read_window(acc, line) ==
  CASE line.is = "header" -> [acc EXCEPT !.rows = Append(@, [id |-> line.id, display |-> <<>>, rest |-> <<>>])]
    [] line.is = "facts" -> InBlock(acc, LAMBDA b :
         [b EXCEPT !.display = Keep(@, line.id), !.rest = Keep(@, "good")])
    [] line.is = "display" -> InBlock(acc, LAMBDA b : [b EXCEPT !.display = Keep(@, line.id)])
    [] line.is \in {"rest", "bad_rest"} -> InBlock(acc, LAMBDA b :
         [b EXCEPT !.rest = Keep(@, IF line.is = "rest" THEN "good" ELSE "bad")])
    [] OTHER -> acc

parse_windows(text) ==
  LET rows == Scan(read_window, text).rows
      focus == First(text, {"focus"}) IN
  When(/\ rows # <<>>
       /\ \A k \in DOMAIN rows : rows[k].display # <<>> /\ rows[k].rest = <<"good">>
       /\ focus # <<>> => \E k \in DOMAIN rows : rows[k].id = focus[1].id,
       Decoded([k \in DOMAIN rows |->
         <<rows[k].id, rows[k].display, focus # <<>> /\ rows[k].id = focus[1].id>>]))

WindowsIn(text) ==
  LET at == Places(text, {"header"})
      block(k) == SubSeq(text, at[k] + 1, IF k = Len(at) THEN Len(text) ELSE at[k + 1] - 1)
      display(k) == First(block(k), {"facts", "display"})
      rest(k) == First(block(k), {"facts", "rest", "bad_rest"})
      focused(id) == LET f == First(text, {"focus"}) IN f # <<>> /\ f[1].id = id IN
  When(/\ at # <<>> /\ \A k \in DOMAIN at : display(k) # <<>> /\ rest(k) # <<>> /\ rest(k)[1].is # "bad_rest"
       /\ Lines(text, {"focus"}) = <<>> \/ \E k \in DOMAIN at : focused(text[at[k]].id),
       Decoded([k \in DOMAIN at |-> <<text[at[k]].id, <<display(k)[1].id>>, focused(text[at[k]].id)>>]))
-----------------------------------------------------------------------------
(* Occlusions of one display: the supported insets of its sections.          *)

\* The words _occlusion_kind looks for in the type of an InsetsSource row, in its order.
KindWords == <<"statusbar", "navigationbar", "cutout", "ime">>
_occlusion_kind(words) == SelectSeq(KindWords, LAMBDA w : w \in words)

OcclusionLines ==
  Numbered("section", Ids)
    \cup {[is |-> "inset", type |-> t, complete |-> c] :
            t \in {<<>>, <<{}>>, <<{"ime", "navigationbar"}>>}, c \in {TRUE}}
    \cup {[is |-> "inset", type |-> <<{"statusbar"}>>, complete |-> c] : c \in BOOLEAN}

read_inset(acc, line, wanted) ==
  CASE line.is = "section" -> [acc EXCEPT !.section = <<line.id>>, !.seen = @ \cup {line.id}]
    [] line.is = "inset" /\ acc.section = <<wanted>> ->
         IF line.type = <<>> THEN Raise(acc)
         ELSE LET kind == _occlusion_kind(line.type[1]) IN
           IF kind = <<>> THEN acc
           ELSE IF ~line.complete THEN Raise(acc) ELSE [acc EXCEPT !.rows = Append(@, kind[1])]
    [] OTHER -> acc

parse_display_occlusions(text, wanted) ==
  LET end == Scan(LAMBDA acc, line : read_inset(acc, line, wanted), text) IN
  When(~end.raised /\ end.seen # {}, IF wanted \in end.seen THEN Decoded(end.rows) ELSE NotThere)

OcclusionsIn(text, wanted) ==
  LET mine == {i \in ToSet(Places(text, {"inset"})) : SectionOf(text, i, {"section"}) = <<wanted>>}
      at == SetToSortSeq({i \in mine : text[i].type # <<{}>>}, <)
      kindOf(i) == CHOOSE w \in text[i].type[1] : w # "ime" \/ text[i].type[1] = {"ime"} IN
  IF Lines(text, {"section"}) = <<>> \/ \E i \in mine : text[i].type = <<>> THEN Unsupported
  ELSE IF [is |-> "section", id |-> wanted] \notin ToSet(text) THEN NotThere
  ELSE When(\A k \in DOMAIN at : text[at[k]].complete, Decoded([k \in DOMAIN at |-> kindOf(at[k])]))
-----------------------------------------------------------------------------
(* Facts about one user and one package: 1 is the one asked for.             *)

UserStateLines ==
  Numbered("not_started", Ids) \cup {[is |-> "state", id |-> i, known |-> k] : i \in Ids, k \in BOOLEAN}
    \cup {Kind("blank"), Kind("other")}

parse_android_user_state(text, wanted) ==
  LET alone == Strip(text)
      state == First(text, {"state"}) IN
  IF Len(alone) = 1 /\ alone[1].is = "not_started" THEN When(alone[1].id = wanted, NotThere)
  ELSE When(state # <<>> /\ state[1].id = wanted /\ state[1].known, Decoded(<<wanted>>))

UserStateIn(text, wanted) ==
  LET ink == Lines(text, {"not_started", "state", "other"})
      states == Places(text, {"state"}) IN
  IF ink = <<[is |-> "not_started", id |-> wanted]>> THEN NotThere
  ELSE When(states # <<>> /\ text[states[1]] = [is |-> "state", id |-> wanted, known |-> TRUE], Decoded(<<wanted>>))

PackageLines ==
  {Kind("absent"), Kind("other")}
    \cup {[is |-> "user", id |-> i, complete |-> c, installed |-> n] : i \in Ids, c \in BOOLEAN, n \in BOOLEAN}

parse_package_state(text, wanted) ==
  LET row == SelectSeq(text, LAMBDA l : l.is = "user" /\ l.id = wanted) IN
  IF Lines(text, {"absent"}) # <<>> THEN Decoded(<<FALSE>>)
  ELSE When(row # <<>> /\ row[1].complete, Decoded(<<row[1].installed>>))

PackageIn(text, wanted) ==
  LET mine == {i \in ToSet(Places(text, {"user"})) : text[i].id = wanted} IN
  IF Kind("absent") \in ToSet(text) THEN Decoded(<<FALSE>>)
  ELSE When(mine # {} /\ text[Min(mine)].complete, Decoded(<<text[Min(mine)].installed>>))

LauncherLines == Numbered("component", Ids) \cup {Kind("no_activity"), Kind("blank"), Kind("other")}

parse_launcher_component(text, wanted) ==
  LET lines == Lines(text, {"component", "no_activity", "other"})
      candidates == Lines(text, {"component"}) IN
  IF \A k \in DOMAIN lines : lines[k].is = "no_activity" THEN NotThere
  ELSE When(Len(candidates) = 1 /\ candidates[1].id = wanted, Decoded(<<wanted>>))

LauncherIn(text, wanted) ==
  IF {l.is : l \in ToSet(text)} \subseteq {"no_activity", "blank"} THEN NotThere
  ELSE When(\E i \in DOMAIN text : /\ {j \in DOMAIN text : text[j].is = "component"} = {i}
                                   /\ text[i].id = wanted, Decoded(<<wanted>>))
-----------------------------------------------------------------------------
(* Single facts of the device.                                               *)

FactLines == Numbered("value", 0 .. 2) \cup {Kind("blank"), Kind("other")}

\* getprop sys.boot_completed: 1, 0 or nothing at all, and nothing else.
parse_boot_completed(text) ==
  LET value == Strip(text) IN
  When(value = <<>> \/ (Len(value) = 1 /\ value[1].is = "value" /\ value[1].id \in {0, 1}),
       Decoded(<<value # <<>> /\ value[1].id = 1>>))

\* am get-current-user: one number.
parse_current_user(text) ==
  LET value == Strip(text) IN When(Len(value) = 1 /\ value[1].is = "value", Decoded(<<value[1].id>>))

\* Three getprops in a row: three lines with ink, the first a number.
parse_build_info(text) ==
  When(Len(text) = 3 /\ Lines(text, {"blank"}) = <<>> /\ text[1].is = "value", Decoded(<<text[1].id>>))

\* A single ink line is what the whole text amounts to.
InkIn(text) == {i \in DOMAIN text : text[i].is # "blank"}
BootIn(text) ==
  IF InkIn(text) = {} THEN Decoded(<<FALSE>>)
  ELSE When(\E b \in 0 .. 1 : {text[i] : i \in InkIn(text)} = {[is |-> "value", id |-> b]} /\ Cardinality(InkIn(text)) = 1,
            Decoded(<<text[Min(InkIn(text))] = [is |-> "value", id |-> 1]>>))
CurrentUserIn(text) ==
  When(\E i \in DOMAIN text : InkIn(text) = {i} /\ text[i].is = "value", Decoded(<<text[Min(InkIn(text))].id>>))
BuildIn(text) == When(InkIn(text) = 1 .. 3 /\ Len(text) = 3 /\ text[1].is = "value", Decoded(<<text[1].id>>))

\* The first mWakefulness=, or else the first Wakefulness:; the first mKeyguardShowing.
PowerLines == Numbered("wakefulness", Ids) \cup Numbered("alternative", Ids) \cup {Kind("other")}
parse_power_state(text) ==
  LET match == First(text, {"wakefulness"}) \o First(text, {"alternative"}) IN
  When(match # <<>>, Decoded(<<match[1].id>>))
PowerIn(text) ==
  LET of(kind) == {i \in DOMAIN text : text[i].is = kind}
      best == IF of("wakefulness") # {} THEN of("wakefulness") ELSE of("alternative") IN
  When(best # {}, Decoded(<<text[Min(best)].id>>))

parse_keyguard_state(text) == LET match == First(text, {"value"}) IN When(match # <<>>, Decoded(<<match[1].id>>))
KeyguardIn(text) ==
  LET at == {i \in DOMAIN text : text[i].is = "value"} IN When(at # {}, Decoded(<<text[Min(at)].id>>))

\* SurfaceFlinger's physical displays: every row that matches, one at least.
parse_surfaceflinger_display_ids(text) ==
  LET rows == Lines(text, {"value"}) IN When(rows # <<>>, Decoded([k \in DOMAIN rows |-> rows[k].id]))
PhysicalIn(text) ==
  LET at == Places(text, {"value"}) IN When(at # <<>>, Decoded([k \in DOMAIN at |-> text[at[k]].id]))
=============================================================================
