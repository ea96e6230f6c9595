------------------------------- MODULE Judge --------------------------------
(***************************************************************************)
(* The judge (apps/judge/src/index.ts) and the clients that submit a batch *)
(* of runs to it and poll for their results (services/judge0.ts, and the   *)
(* corpus importer's scripts/judge-client.ts).                             *)
(*                                                                         *)
(* Jobs are numbered in the order they are created.  That is the order of  *)
(* the Map and of each of the two arrays, so both are sets here: jobs is   *)
(* the Map, queue what the heads of the arrays have not passed, jobs that  *)
(* expired or were deleted meanwhile included.                             *)
(*                                                                         *)
(* Every payload weighs one; a result weighs one if it is long and nothing *)
(* otherwise, and so does the text of an expiry.  The sandbox takes any    *)
(* time, and the host kills what does not end.                             *)
(***************************************************************************)
EXTENDS Integers, FiniteSets

CONSTANTS
    Clients,
    Importers,      \* the clients that ask for 'bulk'
    LastToken,      \* bound: jobs 1 .. LastToken
    BatchSize,      \* MAX_BATCH_SIZE
    Concurrency,    \* JUDGE_CONCURRENCY
    MaxQueued,      \* MAX_QUEUED_JOBS
    MaxRetained,    \* MAX_RETAINED_JOBS
    MaxPayload,     \* MAX_IN_FLIGHT_PAYLOAD_BYTES
    MaxResults,     \* MAX_RETAINED_RESULT_BYTES
    Ttl,            \* QUEUE_TTL_MS and RESULT_TTL_MS, which are equal
    Timeout,        \* JUDGE0_TIMEOUT_MS
    ImportTimeout,  \* the importer's timeoutMs
    FaultCases      \* the sets of faults that may happen together

FaultNames == {"restart",   \* of the judge
               "lost",      \* requests and answers
               "heavy"}     \* runs that print a lot

Tokens == 1 .. LastToken

Patience(c) == IF c \in Importers THEN ImportTimeout ELSE Timeout

ASSUME ConstantsAssumption ==
    /\ Importers \subseteq Clients
    /\ LastToken \in Nat
    /\ Concurrency \in Nat \ {0}
    /\ {BatchSize, MaxQueued, MaxRetained, MaxPayload, Ttl, Timeout, ImportTimeout}
        \subseteq Nat
    /\ MaxResults \in Nat \ {0}
    /\ FaultCases \subseteq SUBSET FaultNames

VARIABLES
    next,       \* the first token not used
    jobs,       \* the keys of the Map
    queue,      \* interactiveQueue and bulkQueue, from their heads on
    phase,      \* Job.phase; "none" before it is created and after a restart
    bulk,       \* Job.priority = 'bulk'
    result,     \* Job.result: what the sandbox said, or that it expired
    weight,     \* Job.resultBytes
    age,        \* since Job.createdAt, up to Ttl + 1
    active,     \* containers running
    inFlight,   \* inFlightPayloadBytes
    retained,   \* retainedResultBytes
    pc,         \* what each client is doing
    mine,       \* the tokens it was given
    waits,      \* since it has them, up to one more than its patience
    faults      \* what may happen in this behaviour

counters   == <<active, inFlight, retained>>
clientVars == <<pc, mine, waits>>
vars == <<next, jobs, queue, phase, bulk, result, weight, age, counters, clientVars,
          faults>>

Init ==
    /\ next = 1
    /\ jobs = {}
    /\ queue = {}
    /\ phase = [t \in Tokens |-> "none"]
    /\ bulk = [t \in Tokens |-> FALSE]
    /\ result = [t \in Tokens |-> "none"]
    /\ weight = [t \in Tokens |-> 0]
    /\ age = [t \in Tokens |-> 0]
    /\ active = 0
    /\ inFlight = 0
    /\ retained = 0
    /\ pc = [c \in Clients |-> "idle"]
    /\ mine = [c \in Clients |-> {}]
    /\ waits = [c \in Clients |-> 0]
    /\ faults \in FaultCases

----------------------------------------------------------------------------
(* The queues.                                                             *)

InPhase(p) == {t \in Tokens : phase[t] = p}

(* Mutant: a result is kept until somebody asks for it.                    *)
MutantOld(t) == age[t] > Ttl /\ result[t] # "verdict"

Old(t) == age[t] > Ttl

(* The interactive queue first, and each in its order.                     *)
Before(b, t, u) == IF b[t] = b[u] THEN t < u ELSE b[u]

(* Mutant: one queue for everybody.                                        *)
MutantPopped(q, live, b, room) == {t \in q : Cardinality({u \in live : u < t}) < room}

(* What pump takes off the queues q while it starts up to room of the live *)
(* jobs: everything before, and with, the last one it starts.              *)
Popped(q, live, b, room) == {t \in q : Cardinality({u \in live : Before(b, u, t)}) < room}

Live(q) == {t \in q : phase[t] = "queued" /\ ~Old(t)}

(* Mutant: what the sweep expired expires again.                           *)
MutantExpired(popped, live) == popped \ live

(* What was too old when its turn came.                                    *)
Expired(popped, live) == {t \in popped \ live : phase[t] = "queued"}

----------------------------------------------------------------------------
(* Results.                                                                *)

Heavy(S) == {t \in S : weight[t] = 1}

(* trimRetainedResults: the oldest results first, the protected one never, *)
(* until what is left weighs no more than MaxResults.                      *)
Trimmed(total, protected) ==
    {t \in (jobs \cap InPhase("complete")) \ {protected} :
        total - Cardinality(Heavy({u \in (jobs \cap InPhase("complete")) \ {protected} : u < t}))
            > MaxResults}

----------------------------------------------------------------------------
(* POST /submissions/batch.                                                *)

NoRoom(n) ==
    \/ Cardinality(queue) + n > MaxQueued
    \/ Cardinality(jobs) + n > MaxRetained
    \/ inFlight + n > MaxPayload

Returns(c, how) ==
    /\ pc' = [pc EXCEPT ![c] = how]
    /\ mine' = [mine EXCEPT ![c] = {}]
    /\ waits' = [waits EXCEPT ![c] = 0]
    /\ UNCHANGED <<next, jobs, queue, phase, bulk, result, weight, age, counters>>

Refuse(c) ==
    /\ pc[c] # "polling"
    /\ \E n \in 1 .. BatchSize : NoRoom(n)
    /\ Returns(c, "refused")

(* The batch is queued as a whole and the pool pumped.  If the answer is   *)
(* lost the client gives up, and its jobs run all the same.                *)
Accept(c, n) ==
    LET new    == next .. (next + n - 1)
        q      == queue \cup new
        live   == Live(queue) \cup new
        popped == Popped(q, live, bulk', Concurrency - active)
        gone   == Expired(popped, live)
        starts == popped \cap live
    IN  /\ pc[c] # "polling"
        /\ next + n <= LastToken + 1
        /\ ~NoRoom(n)
        /\ next' = next + n
        /\ jobs' = jobs \cup new
        /\ bulk' = [t \in Tokens |-> IF t \in new THEN c \in Importers ELSE bulk[t]]
        /\ queue' = q \ popped
        /\ phase' = [t \in Tokens |->
                        IF t \in starts THEN "active"
                        ELSE IF t \in gone THEN "complete"
                        ELSE IF t \in new THEN "queued"
                        ELSE phase[t]]
        /\ result' = [t \in Tokens |-> IF t \in gone THEN "expired" ELSE result[t]]
        /\ active' = active + Cardinality(starts)
        /\ inFlight' = inFlight + n - Cardinality(gone)
        /\ \E heard \in {"polling"} \cup (IF "lost" \in faults THEN {"gone"} ELSE {}) :
              /\ pc' = [pc EXCEPT ![c] = heard]
              /\ mine' = [mine EXCEPT ![c] = IF heard = "polling" THEN new ELSE {}]
        /\ waits' = [waits EXCEPT ![c] = 0]
        /\ UNCHANGED <<weight, age, retained>>

----------------------------------------------------------------------------
(* A run ends: its result is stored and others trimmed for it, it is       *)
(* complete, its payload is released, and the pool is pumped.              *)
Finish(t) ==
    \E w \in {0} \cup (IF "heavy" \in faults THEN {1} ELSE {}) :
    LET trimmed == Trimmed(retained + w, t)
        live    == Live(queue)
        popped  == Popped(queue, live, bulk, Concurrency - active + 1)
        gone    == Expired(popped, live)
        starts  == popped \cap live
    IN  /\ phase[t] = "active"
        /\ jobs' = jobs \ trimmed
        /\ queue' = queue \ popped
        /\ phase' = [u \in Tokens |->
                        IF u \in starts THEN "active"
                        ELSE IF u = t \/ u \in gone THEN "complete"
                        ELSE phase[u]]
        /\ result' = [u \in Tokens |->
                        IF u = t THEN "verdict" ELSE IF u \in gone THEN "expired" ELSE result[u]]
        /\ weight' = [weight EXCEPT ![t] = w]
        /\ active' = active - 1 + Cardinality(starts)
        /\ inFlight' = inFlight - 1 - Cardinality(gone)
        /\ retained' = retained + w - Cardinality(Heavy(trimmed))
        /\ UNCHANGED <<next, bulk, age, clientVars>>

(* The sweep, once a minute.  What expires in the queue is as old as a     *)
(* result may be, and is deleted by the same pass; its entry in the queue  *)
(* stays.                                                                  *)
Sweep ==
    LET expired == {t \in jobs : phase[t] = "queued" /\ Old(t)}
        deleted == expired \cup {t \in jobs : phase[t] = "complete" /\ Old(t)}
    IN  /\ deleted # {}
        /\ jobs' = jobs \ deleted
        /\ phase' = [t \in Tokens |-> IF t \in expired THEN "complete" ELSE phase[t]]
        /\ result' = [t \in Tokens |-> IF t \in expired THEN "expired" ELSE result[t]]
        /\ inFlight' = inFlight - Cardinality(expired)
        /\ retained' = retained - Cardinality(Heavy(deleted))
        /\ UNCHANGED <<next, queue, bulk, weight, age, active, clientVars>>

----------------------------------------------------------------------------
(* GET /submissions/batch.                                                 *)

(* Mutant: a job that runs has a result.                                   *)
MutantSettled(t) == t \notin jobs \/ result[t] # "none" \/ phase[t] = "active"

(* An unknown token is answered like a failed run.                         *)
Settled(t) == t \notin jobs \/ result[t] # "none"

PollAnswered(c) ==
    /\ pc[c] = "polling"
    /\ waits[c] <= Patience(c)
    /\ \A t \in mine[c] : Settled(t)
    /\ Returns(c, "answered")

(* Judging took too long, or one request of it failed.                     *)
GiveUp(c) ==
    /\ pc[c] = "polling"
    /\ waits[c] > Patience(c) \/ "lost" \in faults
    /\ Returns(c, "gone")

----------------------------------------------------------------------------
AtMost(n, top) == IF n < top THEN n + 1 ELSE n

Tick ==
    /\ age' = [t \in Tokens |-> IF t \in jobs \cup queue THEN AtMost(age[t], Ttl + 1) ELSE age[t]]
    /\ waits' = [c \in Clients |-> IF pc[c] = "polling"
                                   THEN AtMost(waits[c], Patience(c) + 1) ELSE waits[c]]
    /\ UNCHANGED <<next, jobs, queue, phase, bulk, result, weight, counters, pc, mine>>

(* Nothing is persisted.                                                   *)
Restart ==
    /\ "restart" \in faults
    /\ jobs' = {}
    /\ queue' = {}
    /\ phase' = [t \in Tokens |-> "none"]
    /\ result' = [t \in Tokens |-> "none"]
    /\ weight' = [t \in Tokens |-> 0]
    /\ active' = 0
    /\ inFlight' = 0
    /\ retained' = 0
    /\ UNCHANGED <<next, bulk, age, clientVars>>

Step ==
    \/ \E c \in Clients :
          \/ Refuse(c) \/ PollAnswered(c) \/ GiveUp(c)
          \/ \E n \in 1 .. BatchSize : Accept(c, n)
    \/ \E t \in Tokens : Finish(t)
    \/ Sweep \/ Tick \/ Restart

Next == Step /\ UNCHANGED faults

Spec == Init /\ [][Next]_vars

(* Runs end, because the host kills them; the sweep is an interval, time   *)
(* passes, and a client polls and gives up in a loop of its own.           *)
FairSpec ==
    /\ Spec
    /\ WF_vars(Sweep /\ UNCHANGED faults)
    /\ WF_vars(Tick /\ UNCHANGED faults)
    /\ \A t \in Tokens : WF_vars(Finish(t) /\ UNCHANGED faults)
    /\ \A c \in Clients : WF_vars((PollAnswered(c) \/ GiveUp(c)) /\ UNCHANGED faults)

----------------------------------------------------------------------------
Phases  == {"none", "queued", "active", "complete"}
Results == {"none", "verdict", "expired"}

(* The type invariant.                                                     *)
TypeOK ==
    /\ next \in 1 .. LastToken + 1
    /\ jobs \subseteq Tokens
    /\ queue \subseteq Tokens
    /\ phase \in [Tokens -> Phases]
    /\ bulk \in [Tokens -> BOOLEAN]
    /\ result \in [Tokens -> Results]
    /\ weight \in [Tokens -> {0, 1}]
    /\ age \in [Tokens -> Nat]
    /\ active \in Nat
    /\ inFlight \in Nat
    /\ retained \in Nat
    /\ pc \in [Clients -> {"idle", "polling", "answered", "refused", "gone"}]
    /\ mine \in [Clients -> SUBSET Tokens]
    /\ waits \in [Clients -> Nat]
    /\ faults \in FaultCases

(* The three counters are kept by increments in eight places, and a job is *)
(* released by more than one of them: they never drift from what is there. *)
CountersAddUp ==
    /\ active = Cardinality(InPhase("active"))
    /\ inFlight = Cardinality(InPhase("queued") \cup InPhase("active"))
    /\ retained = Cardinality(Heavy(jobs))

(* The host and the memory of the judge are bounded, results included.     *)
WithinBounds ==
    /\ active <= Concurrency
    /\ inFlight <= MaxPayload
    /\ Cardinality(jobs) <= MaxRetained
    /\ Cardinality(queue) <= MaxQueued
    /\ retained <= MaxResults

(* A job that was not run yet can be polled, and is where pump finds it.   *)
NoneStranded ==
    \A t \in Tokens :
        /\ phase[t] = "queued" => t \in jobs \cap queue
        /\ phase[t] = "active" => t \in jobs

(* pump is called where a worker comes free or a job comes in, and passes  *)
(* over what expired: no worker is idle while a job waits.                 *)
NoIdleWorker == active < Concurrency => queue = {}

(* The pool of the judge: it accounts for its jobs, keeps its limits,      *)
(* loses none and works while there is work.                               *)
PoolInv == CountersAddUp /\ WithinBounds /\ NoneStranded /\ NoIdleWorker

(* Nobody's job starts before one that waits and was there first, and      *)
(* none of the importer's before a person's.                               *)
PeopleFirst ==
    [][\A t, u \in Tokens :
          /\ phase[t] # "active" /\ phase'[t] = "active"
          /\ phase'[u] = "queued" /\ ~Old(u)
          => ~Before(bulk', u, t)]_vars

(* As long as results are small, the judge stays up and a person is less   *)
(* patient than it is forgetful, what the API takes for verdicts are       *)
(* verdicts: none is dropped or expired under a client that polls for it.  *)
AnswersAreVerdicts ==
    [][\A c \in Clients \ Importers :
          /\ faults \cap {"restart", "heavy"} = {}
          /\ Patience(c) <= Ttl
          /\ pc[c] = "polling" /\ pc'[c] = "answered"
          => \A t \in mine[c] : t \in jobs /\ result[t] = "verdict"]_vars

(* The judge forgets: every job, answered or not, and every entry of its   *)
(* queues, that of a job deleted long ago too.                             *)
JobsAreForgotten ==
    \A t \in Tokens : (t \in jobs ~> t \notin jobs) /\ (t \in queue ~> t \notin queue)

(* index.ts, line 25: finished results are kept this long for polling,     *)
(* then dropped.  None goes while a client polls for it.                   *)
KeptForPolling ==
    [][\A t \in jobs \ jobs', c \in Clients :
          result[t] = "verdict" /\ t \in mine[c] => waits[c] > Patience(c)]_vars

(* index.ts, line 59: bulk must never delay a person, however long it      *)
(* waits.  Nobody is refused who would find room were it not for bulk.     *)
BulkTakesNoRoom ==
    [][\A c \in Clients \ Importers :
          pc[c] # "refused" /\ pc'[c] = "refused" =>
              \E n \in 1 .. BatchSize :
                  LET others == {t \in Tokens : ~bulk[t]}
                  IN  \/ Cardinality(queue \cap others) + n > MaxQueued
                      \/ Cardinality(jobs \cap others) + n > MaxRetained
                      \/ Cardinality((InPhase("queued") \cup InPhase("active")) \cap others) + n
                             > MaxPayload]_vars

=============================================================================
