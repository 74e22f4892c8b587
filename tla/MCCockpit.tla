----------------------------- MODULE MCCockpit -----------------------------
(* Displays and messages for checking Cockpit with TLC.                    *)
EXTENDS Cockpit, TLC

Widget(type, s, graph) ==
  [type |-> type, signal |-> s, alarm |-> TRUE, critical_threshold |-> 2, graph |-> graph]
XY(s) == [mode |-> "xy", window_seconds |-> 30, max_points |-> 2, x_signal |-> s]
TimeSeries(w, n) ==
  [mode |-> "time_series", window_seconds |-> w, max_points |-> n, x_signal |-> NoSignal]

MCDisplays ==
  { << <<Widget("gauge", "a", NoGraph), Widget("graph", "a", TimeSeries(0, 2))>>,
       <<Widget("graph", "a", XY("b"))>> >>,
    << <<Widget("number", "b", NoGraph), Widget("graph", "b", TimeSeries(30, 0))>> >>,
    <<>> }
MCMessages == {[signal |-> "a", value |-> 2], [signal |-> "a", value |-> 3],
               [signal |-> "b", value |-> 1]}
Identical == Permutations(Pids)
=============================================================================
