------------------------------- MODULE Widgets -------------------------------
(***************************************************************************)
(* The widgets of the graphics engine: what load_display_config() and      *)
(* build_screens() make of a widget of graphics.json, and what a value     *)
(* that arrives does to it (WidgetFactory.cpp, GraphWidget.cpp).           *)
(*                                                                         *)
(* Values are counted in halves, so that a whole number and a fraction     *)
(* differ; a signal stands for its identifier and its name.  Positions,    *)
(* units and the range of the axes are for drawing alone.                  *)
(***************************************************************************)
EXTENDS Integers, Sequences, SequencesExt

CONSTANTS
  Signals,  \* what a message may be of
  NoSignal  \* none: graphics.json does not name one

ASSUME WidgetsAssumption == NoSignal \notin Signals

(* graphics.json: what a widget says of its graph.                         *)
Graphs == [mode : {"time_series", "xy"}, window_seconds : Int, max_points : Nat,
           x_signal : Signals \cup {NoSignal}]
NoGraph == [mode |-> "time_series", window_seconds |-> 30, max_points |-> 1000,
            x_signal |-> NoSignal]
WidgetConfigs ==
  [type : {"gauge", "bar", "number", "indicator", "graph"}, signal : Signals \cup {NoSignal},
   alarm : BOOLEAN, critical_threshold : Int, graph : Graphs]

(* Within the parser's limits; only an x-y graph has a second signal.      *)
Graph(wc) ==
  [wc.graph EXCEPT !.max_points = IF @ < 1 THEN 1 ELSE @,
                   !.window_seconds = IF @ <= 0 THEN 1 ELSE @,
                   !.x_signal = IF wc.type = "graph" /\ wc.graph.mode = "xy"
                                THEN @ ELSE NoSignal]

(* `value` is latestY in a graph; a pending value is <<>> or <<v>>.        *)
Build(wc) ==
  [type |-> wc.type, signal |-> wc.signal,
   alarm |-> wc.alarm, criticalThreshold |-> wc.critical_threshold,
   graph |-> Graph(wc),
   value |-> 0, points |-> <<>>, pending_x |-> <<>>, pending_y |-> <<>>]

WidgetStates ==
  [type : {"gauge", "bar", "number", "indicator", "graph"}, signal : Signals \cup {NoSignal},
   alarm : BOOLEAN, criticalThreshold : Int,
   graph : [mode : {"time_series", "xy"}, window_seconds : Nat \ {0},
            max_points : Nat \ {0}, x_signal : Signals \cup {NoSignal}],
   value : Int, points : Seq(Int \X Int), pending_x : Seq(Int), pending_y : Seq(Int)]

build_screens(config) ==
  [i \in DOMAIN config |-> [j \in DOMAIN config[i] |-> Build(config[i][j])]]

-----------------------------------------------------------------------------
(* static_cast<int>, towards 0.                                            *)
Whole(v) == IF v >= 0 THEN 2 * (v \div 2) ELSE -(2 * ((-v) \div 2))

Newest(points, n) == SubSeq(points, Len(points) - n + 1, Len(points))
Capped(points, n) == IF Len(points) > n THEN Newest(points, n) ELSE points

(* From the first point that is not older than the cutoff.                 *)
InWindow(points, cutoff) ==
  LET old == {i \in DOMAIN points : \A j \in 1..i : points[j][1] < cutoff}
  IN  SubSeq(points, Cardinality(old) + 1, Len(points))

push_y(w, t, v) ==
  [w EXCEPT !.value = v,
            !.points = Capped(InWindow(Append(@, <<t, v>>), t - w.graph.window_seconds),
                              w.graph.max_points)]

(* With one point more than there was, one is dropped at most.             *)
push_xy(w, x, y) ==
  [w EXCEPT !.value = y, !.points = Capped(Append(@, <<x, y>>), w.graph.max_points)]

set_value(w, v, t) ==
  CASE w.type = "number" -> [w EXCEPT !.value = Whole(v)]
    [] w.type = "graph" /\ w.graph.mode = "time_series" -> push_y(w, t, v)
    [] w.type = "graph" /\ w.graph.mode = "xy" ->
         LET p == [w EXCEPT !.pending_y = <<v>>]
         IN  IF p.pending_x # <<>> THEN push_xy(p, p.pending_x[1], v) ELSE p
    [] OTHER -> [w EXCEPT !.value = v]

(* Fault to set against set_x_value: an x without a y is not kept.         *)
set_x_valueDropped(w, v) ==
  IF w.pending_y # <<>>
  THEN push_xy([w EXCEPT !.pending_x = <<v>>], v, w.pending_y[1])
  ELSE w

set_x_value(w, v) ==
  LET p == [w EXCEPT !.pending_x = <<v>>]
  IN  IF p.pending_y # <<>> THEN push_xy(p, v, p.pending_y[1]) ELSE p

(* The signal may be on any widget of any screen, and on both axes.        *)
Updated(w, msg, t) ==
  LET u == IF w.signal = msg.signal THEN set_value(w, msg.value, t) ELSE w
  IN  IF w.graph.x_signal # NoSignal /\ w.graph.x_signal = msg.signal
      THEN set_x_value(u, msg.value) ELSE u

update_all_screens(screens, msg, t) ==
  [i \in DOMAIN screens |-> [j \in DOMAIN screens[i] |-> Updated(screens[i][j], msg, t)]]

(* While it is on, the border blinks.                                      *)
alarm_active(w) == w.alarm /\ w.value >= w.criticalThreshold

-----------------------------------------------------------------------------
(* What a widget should show, from all messages heard since it was built:  *)
(* a sequence of [signal, value, t].                                       *)

Of(heard, s, n) == {i \in 1..n : heard[i].signal = s}
LastOf(heard, s, n) == heard[Max(Of(heard, s, n))]

Hears(heard, s) == Of(heard, s, Len(heard)) # {}
LastHeard(heard, s) == IF Hears(heard, s) THEN LastOf(heard, s, Len(heard)).value ELSE 0

(* `points` are what `at` says of the newest indices in I, n at most.      *)
AreNewest(points, I, n, at) ==
  /\ Len(points) <= n
  /\ \E f \in [DOMAIN points -> I] :
       /\ \A i \in DOMAIN points : points[i] = at[f[i]]
       /\ \A i, j \in DOMAIN points : i < j => f[i] < f[j]
       /\ \A k \in I : \/ \E i \in DOMAIN points : f[i] = k
                      \/ /\ Len(points) = n
                         /\ \A i \in DOMAIN points : k < f[i]

(* A time series: what was heard of the signal within the window before    *)
(* the last of it.                                                         *)
Series(heard, w) ==
  {i \in Of(heard, w.signal, Len(heard)) :
     heard[i].t >= LastOf(heard, w.signal, Len(heard)).t - w.graph.window_seconds}
SeriesAt(heard) == [i \in DOMAIN heard |-> <<heard[i].t, heard[i].value>>]

(* An x-y graph: at each message of either signal, once both were heard,   *)
(* the last of both.                                                       *)
Curve(heard, w) ==
  LET x == w.graph.x_signal
      y == w.signal
  IN  {i \in Of(heard, x, Len(heard)) \cup Of(heard, y, Len(heard)) :
         Of(heard, x, i) # {} /\ Of(heard, y, i) # {}}
CurveAt(heard, w) ==
  [i \in DOMAIN heard |-> <<LastOf(heard, w.graph.x_signal, i).value,
                            LastOf(heard, w.signal, i).value>>]

IsXY(w) == w.type = "graph" /\ w.graph.mode = "xy"

(* An x-y graph shows no value before its other signal was heard.          *)
Silent(heard, w) == IsXY(w) /\ ~Hears(heard, w.graph.x_signal)
ShownValue(heard, w) ==
  LET last == LastHeard(heard, w.signal)
  IN  CASE Silent(heard, w) -> 0
        [] w.type = "number" -> Whole(last)
        [] OTHER -> last

(* The alarm is promised of gauges and bars alone; an x-y graph of one     *)
(* signal against itself shows each value twice.                           *)
Shows(heard, w) ==
  LET max == w.graph.max_points
  IN  /\ w.value = ShownValue(heard, w)
      /\ w.type \in {"gauge", "bar"} =>
           (alarm_active(w) <=>
              w.alarm /\ LastHeard(heard, w.signal) >= w.criticalThreshold)
      /\ w.type = "graph" /\ ~IsXY(w) =>
           AreNewest(w.points, Series(heard, w), max, SeriesAt(heard))
      /\ IsXY(w) /\ w.graph.x_signal # w.signal =>
           AreNewest(w.points, Curve(heard, w), max, CurveAt(heard, w))
=============================================================================
