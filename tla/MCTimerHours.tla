--------------------------- MODULE MCTimerHours ----------------------------
(* TimerHours for TLC: a day of three minutes, every day or Friday only.   *)
EXTENDS TimerHours, TLC

From(m) == [from |-> m]
To(m)   == [to |-> m]
Window(f, t) == [from |-> f, to |-> t]

(* What another client saves: the repeat, Fridays only, and the ends of a  *)
(* window one by one, which may come to wrap past midnight or to have no   *)
(* length.                                                                 *)
FromElsewhere ==
    {From(m) : m \in {1, 2}} \cup {To(1), [mask |-> {5}]} \cup {[autoRearm |-> b] : b \in BOOLEAN}

(* What the screen saves: the repeat, the days, and a window past midnight,*)
(* which is refused.                                                       *)
OnScreen ==
    {[autoRearm |-> b] : b \in BOOLEAN} \cup {Window(2, 1), [mask |-> {5}]}

(* A bound: the screen is at work before the first minute is over and with *)
(* no session, which it has nothing to do with; time passes while it rests.*)
BeforeTime ==
    /\ localTime = 0 /\ session = "none" /\ ended = "never"
    /\ \A c \in Callers : arming[c] = "idle"
    /\ <<config.from, config.to>> = <<0, Day>>

ScreenRests == shown = Defaults /\ \A s \in Saves : saves[s].stage = "idle"

ScreenOrTime == BeforeTime \/ ScreenRests

(* What stops the recurring timer.                                         *)
Stops ==
    {[autoRearm |-> b] : b \in BOOLEAN} \cup {[enabled |-> b] : b \in BOOLEAN}
        \cup {Window(0, 1)}

(* Beside it a window past midnight, which is refused, and workdays.       *)
StopsAndRefused == Stops \cup {Window(1, 0), [mask |-> 1 .. 5]}
=============================================================================
