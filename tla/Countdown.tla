----------------------------- MODULE Countdown -----------------------------
(***************************************************************************)
(* The deadline of one armed session and the three controls that move it:  *)
(* POST /lock/:id/pause, /resume and /shorten (apps/api/src/routes/lock.ts) *)
(* against the clock, the engage sweep and whatever ends the session.      *)
(*                                                                         *)
(* Each control reads the row, then the clock, then sends one conditional  *)
(* update computed from both; any other request may run in between.  Time  *)
(* is counted in ticks since the session was armed.                        *)
(***************************************************************************)
EXTENDS Integers, FiniteSets

CONSTANTS
    Clients,        \* request slots
    Length,         \* the countdown the session was armed with, in ticks
    Cuts,           \* what a shorten may ask for, in ticks
    MaxNow          \* bound: the last tick

ASSUME ConstantsAssumption ==
    /\ Length \in Nat
    /\ Cuts \subseteq Nat
    /\ MaxNow \in Nat

VARIABLES
    now,            \* the server's clock
    state,          \* LockSession.state
    fireAt,
    pausedAt,       \* NoTime when the countdown runs
    op,             \* the control each request in flight is performing
    seenFire,       \* fireAt as it read it
    seenPaused,     \* pausedAt as it read it
    clock,          \* Date.now() as it read it, NoTime until it has
    stamps,         \* history: the values pausedAt has had
    credited,       \* history: the ticks a resume has given back
    given,          \* history: how many ticks resumes have given back
    taken           \* history: how many ticks shortens have taken off

rowVars     == <<state, fireAt, pausedAt>>
localVars   == <<op, seenFire, seenPaused, clock>>
historyVars == <<stamps, credited, given, taken>>
vars        == <<now, rowVars, localVars, historyVars>>

NoTime == -1
Times  == 0 .. MaxNow
Ops    == {"pause", "resume", "shorten"}

Init ==
    /\ now = 0
    /\ state = "ARMED"
    /\ fireAt = Length
    /\ pausedAt = NoTime
    /\ op = [c \in Clients |-> "none"]
    /\ seenFire = [c \in Clients |-> 0]
    /\ seenPaused = [c \in Clients |-> NoTime]
    /\ clock = [c \in Clients |-> NoTime]
    /\ stamps = {}
    /\ credited = {}
    /\ given = 0
    /\ taken = 0

(* The early returns: pausing a paused countdown and resuming a running    *)
(* one change nothing, and shortening a paused one is refused.             *)
Allowed(o) == o = "resume" <=> pausedAt # NoTime

(* requireArmed reads the row.                                             *)
Read(c, o) ==
    /\ op[c] = "none"
    /\ state = "ARMED"
    /\ Allowed(o)
    /\ op' = [op EXCEPT ![c] = o]
    /\ seenFire' = [seenFire EXCEPT ![c] = fireAt]
    /\ seenPaused' = [seenPaused EXCEPT ![c] = pausedAt]
    /\ UNCHANGED <<now, rowVars, clock, historyVars>>

ReadClock(c) ==
    /\ op[c] # "none"
    /\ clock[c] = NoTime
    /\ clock' = [clock EXCEPT ![c] = now]
    /\ UNCHANGED <<now, rowVars, op, seenFire, seenPaused, historyVars>>

(* The update a request ends with; it may match no row.                    *)
Writes(c, o) == op[c] = o /\ clock[c] # NoTime

Answered(c) ==
    /\ op' = [op EXCEPT ![c] = "none"]
    /\ seenFire' = [seenFire EXCEPT ![c] = 0]
    /\ seenPaused' = [seenPaused EXCEPT ![c] = NoTime]
    /\ clock' = [clock EXCEPT ![c] = NoTime]
    /\ UNCHANGED now

Pausable == state = "ARMED" /\ pausedAt = NoTime

(* Bound: no two pauses of a session are stamped with the same tick, which *)
(* is a millisecond in the code.                                           *)
PauseWrite(c) ==
    /\ Writes(c, "pause")
    /\ IF Pausable
         THEN /\ clock[c] \notin stamps
              /\ pausedAt' = clock[c]
              /\ stamps' = stamps \cup {clock[c]}
         ELSE UNCHANGED <<pausedAt, stamps>>
    /\ Answered(c)
    /\ UNCHANGED <<state, fireAt, credited, given, taken>>

(* Mutants: some pause is still on; no look at the pause at all.           *)
MutantSomePause(c) == state = "ARMED" /\ pausedAt # NoTime
MutantAnyPause(c)  == state = "ARMED"

SamePause(c) == state = "ARMED" /\ pausedAt = seenPaused[c]

ResumeWrite(c) ==
    /\ Writes(c, "resume")
    /\ LET pausedFor == clock[c] - seenPaused[c] IN
         IF SamePause(c)
           THEN /\ fireAt' = seenFire[c] + pausedFor
                /\ pausedAt' = NoTime
                /\ credited' = credited \cup (seenPaused[c] .. clock[c] - 1)
                /\ given' = given + pausedFor
           ELSE UNCHANGED <<fireAt, pausedAt, credited, given>>
    /\ Answered(c)
    /\ UNCHANGED <<state, stamps, taken>>

SameDeadline(c) == state = "ARMED" /\ pausedAt = NoTime /\ fireAt = seenFire[c]

(* The deadline moves towards the clock and no further.                    *)
ShortenWrite(c, cut) ==
    /\ Writes(c, "shorten")
    /\ LET asked == seenFire[c] - cut
           next  == IF asked > clock[c] THEN asked ELSE clock[c] IN
         IF SameDeadline(c)
           THEN fireAt' = next /\ taken' = taken + (seenFire[c] - next)
           ELSE UNCHANGED <<fireAt, taken>>
    /\ Answered(c)
    /\ UNCHANGED <<state, pausedAt, stamps, credited, given>>

(* claimDueSession, by the sweep or by a client.                           *)
Engage ==
    /\ state = "ARMED" /\ pausedAt = NoTime /\ fireAt <= now
    /\ state' = "LOCKED"
    /\ UNCHANGED <<now, fireAt, pausedAt, localVars, historyVars>>

(* Cancelled, abandoned or reaped.                                         *)
End ==
    /\ state = "ARMED"
    /\ state' = "ABANDONED"
    /\ UNCHANGED <<now, fireAt, pausedAt, localVars, historyVars>>

Tick ==
    /\ now < MaxNow
    /\ now' = now + 1
    /\ UNCHANGED <<rowVars, localVars, historyVars>>

ClientStep(c) ==
    \/ \E o \in Ops : Read(c, o)
    \/ ReadClock(c)
    \/ PauseWrite(c)
    \/ ResumeWrite(c)
    \/ \E cut \in Cuts : ShortenWrite(c, cut)

Next ==
    \/ \E c \in Clients : ClientStep(c)
    \/ Engage
    \/ End
    \/ Tick

Spec == Init /\ [][Next]_vars

----------------------------------------------------------------------------
(* The type invariant.                                                     *)
TypeOK ==
    /\ now \in Times
    /\ state \in {"ARMED", "LOCKED", "ABANDONED"}
    /\ fireAt \in Int
    /\ pausedAt \in Times \cup {NoTime}
    /\ op \in [Clients -> Ops \cup {"none"}]
    /\ seenFire \in [Clients -> Int]
    /\ seenPaused \in [Clients -> Times \cup {NoTime}]
    /\ clock \in [Clients -> Times \cup {NoTime}]
    /\ stamps \subseteq Times
    /\ credited \subseteq Times
    /\ given \in Int
    /\ taken \in Int

(* No control is lost and none is applied twice, however the requests      *)
(* interleave: the deadline is the length the session was armed with, plus *)
(* what each resume gave back, less what each shorten took off.            *)
DeadlineAddsUp == fireAt = Length + given - taken

(* A lock lands only on a countdown that is not paused and has run out, by *)
(* that account; and no late request pauses a lock that has landed.        *)
LocksOnlyWhenOwed ==
    state = "LOCKED" => pausedAt = NoTime /\ now >= Length + given - taken

(* Both: the countdown the server keeps is the one its user was promised.  *)
CountdownKept == DeadlineAddsUp /\ LocksOnlyWhenOwed

(* A countdown that has run out stays so until it locks or is paused: no   *)
(* late resume or shorten gives a due session its time back.  LockSession  *)
(* takes this for granted of the countdowns it abstracts.                  *)
Due == state = "ARMED" /\ pausedAt = NoTime /\ fireAt <= now

DueStaysDue == [][Due => Due' \/ state' # "ARMED" \/ pausedAt' # NoTime]_vars

(* What the comment on /resume promises: the user gets back the interval   *)
(* they had left and not a minute more, so no tick is given back twice.    *)
NotAMinuteMore == given = Cardinality(credited)

=============================================================================
