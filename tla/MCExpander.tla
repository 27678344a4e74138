----------------------------- MODULE MCExpander -----------------------------
(* Simulation and controller on the table of layout.hpp.  The sleeps are    *)
(* shortened: 6 ms for 100 ms, which keeps SimSleep > SleepTime + 3 * Slack.  *)
EXTENDS TwoWayLayout, Expander, Layout

(* The train passes D_1a again and again, whatever the button does: no     *)
(* choice of ways traps it in a part of the layout.                        *)
RoundTrips == []<>(current_track = "D_1a")
=============================================================================
