------------------------------- MODULE Charts -------------------------------
(***************************************************************************)
(* modules/barchart: from the bars that Handler.cpp chooses (module        *)
(* Processes) to what BarChart.cpp draws of them.  Loads are the hundredths *)
(* of a percent that processes report; a share of the total is given as a  *)
(* numerator, its denominator being the total.                             *)
(***************************************************************************)
EXTENDS Integers, Sequences

NUM_PROCESSES_TO_DISPLAY == 8

\* _UpdateBarChart, after the choice of the names with the most load: tops is
\* a sequence of those, total what all names have.  The shares are percents
\* of total; with a total of 0 they are not numbers and nothing is drawn to
\* scale.
BarData == [label : STRING, user : Int, system : Int]
PercentOf(load) == 100 * load
Left(all, loads) ==
  LET left[n \in 0..Len(loads)] == IF n = 0 THEN all ELSE left[n - 1] - loads[n]
  IN  left[Len(loads)]
Shares(tops, user, system) ==
  [bars |-> [i \in DOMAIN tops |-> [tops[i] EXCEPT !.user = PercentOf(tops[i].user),
                                                   !.system = PercentOf(tops[i].system)]],
   others |-> [label |-> "others",
               user |-> PercentOf(Left(user, [i \in DOMAIN tops |-> tops[i].user])),
               system |-> PercentOf(Left(system, [i \in DOMAIN tops |-> tops[i].system]))]]

\* The utilization shown above the bars: of 29 cores, whatever hosts there are.
Utilization(user, system) == [numerator |-> user + system, denominator |-> 2900]

\* One frame every half second at most, drawn by the thread of the handler.
FRAMES_PER_SEC == 2
IsFrameDue(now, timestamp) == FRAMES_PER_SEC * (now - timestamp) > 1000

-----------------------------------------------------------------------------
(* BarChart.                                                               *)

\* The windows on the screen, in percent of its height, and the coordinates
\* within each of them.
TopWind == [low |-> 95, high |-> 100]
MidWind == [low |-> 20, high |-> 90]
BottomWind == [low |-> 10, high |-> 20]
Window(numBars) == [left |-> 0, right |-> numBars, bottom |-> 0, top |-> 105]

\* GetValues: rounding may have left less than nothing for the others.
NotBelowZero(value) == IF value < 0 THEN 0 ELSE value
GetValues(bar) == <<NotBelowZero(bar.system), NotBelowZero(bar.user)>>

\* The boxes of a bar, one on top of the other, in units of 1/total.
DrawnBars(barIndex, values) ==
  {[left |-> barIndex, right |-> barIndex + 1, low |-> 0, high |-> values[1]],
   [left |-> barIndex, right |-> barIndex + 1, low |-> values[1],
    high |-> values[1] + values[2]]}
ValueLabelAt(values, total) == values[1] + values[2] + 3 * total

\* Names stand in two lines by turns; where, in 1/(2n) of the window's width.
LabelPosition(barIndex) == 2 * barIndex + 1
LabelLine(barIndex) == IF barIndex % 2 = 0 THEN -24 ELSE -8

\* erase(11) and replace(10, 1, "."): a name of 11 characters loses its last
\* one, too.
Label(name) ==
  IF Len(name) > 10 THEN [i \in 1..11 |-> IF i = 11 THEN "." ELSE name[i]] ELSE name

=============================================================================
