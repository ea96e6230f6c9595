--------------------------- MODULE ScreenContract ---------------------------
(***************************************************************************)
(* What the desktop shell promises about the screen, with no requests in   *)
(* flight and no pages: which session the screen is covered for, and why   *)
(* it was last given back.  DesktopShell implements it.                    *)
(*                                                                         *)
(* A screen is given back because its session was solved, because while it *)
(* was covered the server did not hold its session locked, by holding      *)
(* Escape, or because the process died: nothing else opens it, and no      *)
(* answer about one session opens the screen of another.  Not every shell  *)
(* has every cause; the Android lock has one more, an answer "no session"  *)
(* that was overtaken by a lock.                                           *)
(***************************************************************************)
CONSTANTS
    Sessions, NoSession,
    Causes      \* why the shell may give the screen back

VARIABLES
    standing,   \* of each session: still "open", "locked", "solved" or "over"
    screen,     \* the session the screen is covered for
    lapsed,     \* the sessions it was covered for while they were not locked
    given       \* why it was last given back

vars == <<standing, screen, lapsed, given>>

Standings == {"open", "locked", "solved", "over"}

Init ==
    /\ standing = [s \in Sessions |-> "open"]
    /\ screen = NoSession
    /\ lapsed = {}
    /\ given = "death"

(* A session goes forward only, and opens as solved only from its lock.    *)
Onward == {<<"open", "locked">>, <<"open", "over">>,
           <<"locked", "solved">>, <<"locked", "over">>}

Proceed ==
    /\ standing' \in [Sessions -> Standings]
    /\ \A s \in Sessions :
          standing'[s] = standing[s] \/ <<standing[s], standing'[s]>> \in Onward
    /\ UNCHANGED <<screen, given>>

Cover(s) ==
    /\ screen' = s
    /\ UNCHANGED <<standing, given>>

Excused(s, why) ==
    CASE why = "token"  -> standing[s] = "solved"
      [] why = "server" -> s \in lapsed
      [] OTHER          -> TRUE

GiveBack(why) ==
    /\ screen # NoSession
    /\ Excused(screen, why)
    /\ screen' = NoSession
    /\ given' = why
    /\ UNCHANGED standing

Next ==
    /\ Proceed \/ (\E s \in Sessions : Cover(s)) \/ (\E why \in Causes : GiveBack(why))
    /\ lapsed' = lapsed \cup {s \in Sessions : screen' = s /\ standing'[s] # "locked"}

Spec == Init /\ [][Next]_vars

=============================================================================
