------------------------------ MODULE Layouts -------------------------------
(***************************************************************************)
(* The dashboard's layout (services/dashboard.py): a list of widgets,      *)
(* stored as PUT validated it under the release of that day and read       *)
(* leniently under the release of this one, which may have retired a type, *)
(* narrowed an option or changed its default.  Releases come in any order, *)
(* as an update taken back or an older archive restored would have them.   *)
(* Each type has one option here; sizes and titles are checked alike.      *)
(***************************************************************************)
EXTENDS Naturals, Sequences, FiniteSets

LOCAL INSTANCE SequencesExt

CONSTANTS
  WidgetTypes,
  OptionValues,      \* values of an option
  WidgetIds,
  MaxWidgets    \* MAX_WIDGETS

ASSUME LayoutsAssumption == OptionValues \subseteq Nat \ {0} /\ MaxWidgets \in Nat

VARIABLES
  release,   \* WIDGET_OPTIONS: what each type's option may be, and its default
  layout,    \* the dashboard_layout setting
  answer     \* what the last PUT answered, and under which release

layouts == <<release, layout, answer>>

Missing == 0   \* the option is not in the widget
NothingSaved == <<>>   \* the default layout is left out
Widgets == [id : WidgetIds, type : WidgetTypes, option : OptionValues \union {Missing}]

\* A type that offers nothing is one the release does not have.
Offers == {[choices |-> {}, default |-> Missing]}
          \union {o \in [choices : SUBSET OptionValues, default : OptionValues] : o.default \in o.choices}

LayoutsInit ==
  /\ release \in [WidgetTypes -> Offers] /\ layout = NothingSaved
  /\ answer = [said |-> NothingSaved, under |-> release]

Has(type) == release[type].choices # {}

\* _check_option: an option left out takes its default.
Right(w) == Has(w.type) /\ w.option \in release[w.type].choices \union {Missing}
Completed(w) == IF w.option = Missing THEN [w EXCEPT !.option = release[w.type].default] ELSE w

\* Mutant of Normalized: an option that is no longer offered stays.
NormalizedNot(w) == Completed(w)

\* _normalize_options.
Normalized(w) == IF Right(w) THEN Completed(w) ELSE [w EXCEPT !.option = release[w.type].default]

\* normalize_for_read: types the release does not have are left out, the rest
\* stay in their order.
Staying == {n \in DOMAIN layout : Has(layout[n].type)}
NthStaying(n) == CHOOSE m \in Staying : Cardinality({k \in Staying : k <= m}) = n
Got == [n \in 1 .. Cardinality(Staying) |-> Normalized(layout[NthStaying(n)])]

\* validate_widgets: the whole list is refused for one widget.
Accepted(ws) ==
  /\ Len(ws) <= MaxWidgets /\ \A n \in DOMAIN ws : Right(ws[n])
  /\ \A m, n \in DOMAIN ws : ws[m].id = ws[n].id => m = n

PutLayout(ws) ==
  /\ Accepted(ws)
  /\ layout' = [n \in DOMAIN ws |-> Completed(ws[n])]
  /\ answer' = [said |-> layout', under |-> release] /\ UNCHANGED release

ResetLayout ==
  /\ layout' = NothingSaved /\ answer' = [said |-> NothingSaved, under |-> release]
  /\ UNCHANGED release

\* External: the app starts under another release.
NewRelease ==
  /\ release' \in [WidgetTypes -> Offers] /\ UNCHANGED <<layout, answer>>

LayoutsNext ==
  \/ \E ws \in BoundedSeq(Widgets, MaxWidgets) : PutLayout(ws)
  \/ ResetLayout \/ NewRelease

LayoutsSpec == LayoutsInit /\ [][LayoutsNext]_layouts

-----------------------------------------------------------------------------
(* Properties.                                                             *)

\* The page can save what it was shown, whichever releases came since the
\* layout was stored ("a release that retires a widget or narrows an option
\* never breaks the page", dashboard.py:9): GET's answer passes PUT's strict
\* check as it stands.  And back under the release it was saved in, the page
\* shows what PUT answered, whatever releases were in between.
PutBack ==
  /\ Accepted(Got) /\ \A n \in DOMAIN Got : Completed(Got[n]) = Got[n]
  /\ release = answer.under => Got = answer.said
=============================================================================
