---------------------- MODULE AirbyteConnections_proofs ----------------------
(***************************************************************************)
(* Theorems about the two modules that write AirbyteConnection rows:       *)
(* AirbyteSync, for any number of connections, workers, jobs and faults    *)
(* and any interval, and, as Conn, ConnectorLifecycle, for any providers,  *)
(* requests and numbers of grants, creations and late ones.                *)
(***************************************************************************)
EXTENDS AirbyteSync, ConnectorState, WellFoundedInduction, TLAPS

Conn == INSTANCE ConnectorLifecycle

LEMMA BoundsAreNumbers ==
  /\ NumConnections \in Nat /\ Interval \in Nat /\ MaxTime \in Nat /\ MaxTime >= 1
  /\ MaxJobs \in Nat /\ MaxFaults \in Nat
  /\ Outcomes \subseteq Ended /\ Forces \subseteq BOOLEAN
BY OutcomesAssumption, BoundsAssumption

LEMMA ConnectionsFacts ==
  /\ Connections \subseteq Nat /\ 0 \notin Connections /\ 0 .. NumConnections = Connections \cup {0}
  /\ Times \subseteq Nat /\ 0 \in Times /\ 1 \in Times
BY BoundsAreNumbers DEF Connections, Times

(***************************************************************************)
(* The first connection of a pass and the latest job of a connection.      *)
(***************************************************************************)
LEMMA LeastOfNat ==
  ASSUME NEW S, S \subseteq Nat, S # {}
  PROVE  \E x \in S : \A y \in S : x <= y
<1> DEFINE R == OpToRel(<, Nat)
<1>1. IsWellFoundedOn(R, Nat)
  BY NatLessThanWellFounded
<1>2. PICK x \in S : \A y \in S : <<y, x>> \notin R
  <2> HIDE DEF R
  <2> QED BY <1>1, WFMin
<1>3. ASSUME NEW y \in S, ~(x <= y) PROVE FALSE
  <2>1. y < x /\ <<y, x>> \in Nat \X Nat
    BY <1>3
  <2>2. <<y, x>> \in R
    BY <2>1 DEF OpToRel
  <2> QED BY <1>2, <2>2
<1> QED BY <1>3

LEMMA GreatestOfBounded ==
  ASSUME NEW S, NEW n \in Nat, S \subseteq 0 .. n, S # {}
  PROVE  \E x \in S : \A y \in S : x >= y
<1> DEFINE T == {n - x : x \in S}
<1>0. \A x \in S : x \in Nat /\ n - x \in Nat
  OBVIOUS
<1>1. T \subseteq Nat /\ T # {}
  BY <1>0
<1>2. PICK t \in T : \A u \in T : t <= u
  <2> HIDE DEF T
  <2> QED BY <1>1, LeastOfNat
<1>3. PICK x \in S : t = n - x
  OBVIOUS
<1>4. ASSUME NEW y \in S PROVE x >= y
  <2>1. n - y \in T
    OBVIOUS
  <2>2. n - x <= n - y
    BY <1>2, <1>3, <2>1
  <2> QED BY <1>0, <2>2
<1> QED BY <1>4

LEMMA LatestFacts ==
  ASSUME jobs \in Seq(AirbyteJobs), NEW c
  PROVE  /\ Latest(c) \in DOMAIN jobs \cup {0}
         /\ Latest(c) # 0 => jobs[Latest(c)].conn = c
         /\ \A j \in DOMAIN jobs : jobs[j].conn = c => j <= Latest(c)
<1> DEFINE S == {j \in DOMAIN jobs : jobs[j].conn = c} \cup {0}
<1>1. DOMAIN jobs = 1 .. Len(jobs) /\ Len(jobs) \in Nat
  OBVIOUS
<1>2. S \subseteq 0 .. Len(jobs) /\ S # {}
  BY <1>1
<1>3. Max(S) \in S /\ \A y \in S : Max(S) >= y
  <2> HIDE DEF S
  <2>1. \E x \in S : \A y \in S : x >= y
    BY <1>1, <1>2, GreatestOfBounded
  <2> QED BY <2>1 DEF Max
<1>4. Latest(c) = Max(S)
  BY DEF Latest
<1> HIDE DEF S
<1>5. Max(S) \in DOMAIN jobs \cup {0} /\ (Max(S) # 0 => jobs[Max(S)].conn = c)
  BY <1>3 DEF S
<1>6. \A j \in DOMAIN jobs : jobs[j].conn = c => j <= Max(S)
  BY <1>1, <1>2, <1>3 DEF S
<1> QED BY <1>4, <1>5, <1>6

LEMMA LeastFacts ==
  ASSUME NEW set, set # {}, \A x \in set : x.conn \in Nat
  PROVE  Least(set) \in set
<1>1. {x.conn : x \in set} \subseteq Nat /\ {x.conn : x \in set} # {}
  OBVIOUS
<1>2. PICK c \in {x.conn : x \in set} : \A d \in {x.conn : x \in set} : c <= d
  BY <1>1, LeastOfNat
<1>3. \E x \in set : \A y \in set : x.conn <= y.conn
  BY <1>2
<1> QED BY <1>3 DEF Least
(***************************************************************************)
(* The memories of the workers, and the rest of the types.                 *)
(***************************************************************************)
OnePer(set) == \A x, y \in set : x.conn = y.conn => x = y
Apart(set, other) == \A x \in set, y \in other : x.conn # y.conn
\* The passes over connections, and every task and request that begins with some to do.
Passing == {"triggering", "backfilling", "reconciling"}
Taking == {"triggering", "requesting", "backfilling", "reconciling"}
\* A pass has connections to do and saved nothing yet; a connection is to do, done or
\* saved at most once.
Shaped(me) ==
  /\ me.pc = "idle" => me = AtRest
  /\ me.pc \in Taking \cup {"asking"} => me.todo # {} /\ me.saved = {}
  /\ me.pc = "requesting" => me.got = {}
  /\ me.pc \in {"rows", "statuses", "queueing"} => me.todo = {}
  /\ me.pc = "queueing" => me.saved = {} /\ \E u \in Updates : me.got = {u}
  /\ me.pc = "rows" => me.got # {}
  /\ me.pc = "statuses" => me.got = {} /\ me.saved # {}
  /\ IF me.pc = "asking" THEN me.conn = Least(me.todo).conn ELSE me.conn = 0
  /\ OnePer(me.todo) /\ OnePer(me.got) /\ Apart(me.todo, me.got) /\ Apart(me.got, me.saved)
ShapeInv == \A w \in Workers : Shaped(worker[w])
\* The job a worker asks about is one of the connection it triggered.
AskedInv ==
  \A w \in Workers : worker[w].pc = "asking" =>
    worker[w].job \in DOMAIN jobs /\ jobs[worker[w].job].conn = worker[w].conn
EditorInv == editor = NoEdit \/ editor.conn \in Connections
\* The clock starts at 1, so no job's time is taken for none.
ClockInv == now # 0 /\ \A j \in DOMAIN jobs : jobs[j].at # 0
Base == TypeOK /\ ShapeInv /\ AskedInv /\ EditorInv /\ ClockInv

(***************************************************************************)
(* What a step may do.                                                     *)
(***************************************************************************)
\* The worker w has me in memory after the step.
Becomes(w, me) ==
  /\ me \in Memories /\ worker' \in [Workers -> Memories]
  /\ worker'[w] = me /\ \A v \in Workers : v # w => worker'[v] = worker[v]

\* Airbyte's jobs grow, end, or stay.
JobsMove ==
  /\ jobs' \in Seq(AirbyteJobs) /\ Len(jobs') <= MaxJobs
  /\ \A i \in DOMAIN jobs :
       /\ i \in DOMAIN jobs' /\ jobs'[i].conn = jobs[i].conn
       /\ jobs[i].status \in Ended => jobs'[i].status = jobs[i].status
       /\ jobs'[i].at \in {jobs[i].at, now}
  /\ \A i \in DOMAIN jobs' : i \notin DOMAIN jobs => jobs'[i].at = now
Created(c) ==
  /\ JobsMove /\ Len(jobs') = Len(jobs) + 1
  /\ Len(jobs) + 1 \in DOMAIN jobs' /\ Len(jobs) + 1 \notin DOMAIN jobs
  /\ jobs'[Len(jobs) + 1].conn = c /\ jobs'[Len(jobs) + 1].at = now

Ticked == now' \in Times /\ now' >= now
          /\ UNCHANGED <<jobs, row, shown, worker, editor, force, triggered, disturbed, faults>>
JobsMoved == JobsMove /\ UNCHANGED <<now, row, shown, worker, editor, force, triggered, disturbed, faults>>
PatchStarted(c) ==
  /\ editor = NoEdit /\ editor' = [conn |-> c, sync |-> row[c].sync] /\ Meet({c})
  /\ faults' \in 0 .. MaxFaults
  /\ UNCHANGED <<now, jobs, row, shown, worker, force, triggered>>
PatchSaved(c) ==
  /\ editor.conn = c /\ editor' = NoEdit
  /\ row' \in [Connections -> Rows] /\ row'[c].sync = editor.sync
  /\ \A d \in Connections : d # c => row'[d] = row[d]
  /\ UNCHANGED <<now, jobs, shown, worker, force, triggered, disturbed, faults>>
\* A pass begins: with due connections only, if it is to trigger them.
Began(w, me) ==
  /\ Becomes(w, me) /\ worker[w].pc = "idle" /\ me.pc \in Taking
  /\ me.todo # {} /\ OnePer(me.todo)
  /\ me.got = {} /\ me.saved = {} /\ me.conn = 0
  /\ \A p \in me.todo : p.synced = row[p.conn].sync.synced
  /\ me.pc = "triggering" => \A p \in me.todo : p.synced = 0 \/ p.synced + Interval <= now
  /\ Meet(ConnsOf(me.todo))
  /\ UNCHANGED <<now, jobs, row, shown, editor, force, triggered, faults>>
Asked(w, me, p) ==
  /\ Becomes(w, me) /\ worker[w].pc = "triggering" /\ me.pc = "asking"
  /\ p \in worker[w].todo /\ p = Least(worker[w].todo) /\ me.conn = p.conn /\ me.job = Len(jobs) + 1
  /\ me.todo = worker[w].todo /\ me.got = worker[w].got /\ me.saved = worker[w].saved
  /\ Created(p.conn) /\ triggered' = [triggered EXCEPT ![p.conn] = now]
  /\ UNCHANGED <<now, row, shown, editor, force, disturbed, faults>>
\* A worker forgets what it held; only connections it had yet to ask about stay undisturbed.
Dropped(w) ==
  /\ Becomes(w, AtRest) /\ JobsMove /\ faults' \in 0 .. MaxFaults
  /\ disturbed' \subseteq Connections /\ disturbed \subseteq disturbed'
  /\ ConnsOf(worker[w].got \cup worker[w].saved) \subseteq disturbed'
  /\ worker[w].conn # 0 => worker[w].conn \in disturbed'
  /\ Len(jobs') > Len(jobs) => jobs'[Len(jobs')].conn \in disturbed'
  /\ triggered' \in [Connections -> Times]
  /\ \A c \in Connections : triggered'[c] = triggered[c]
                            \/ (c \in disturbed' /\ triggered'[c] = now /\ Created(c))
  /\ UNCHANGED <<now, row, shown, editor, force>>
\* What Airbyte says of a job j, and what is stored without it.
Answers(u, j) ==
  /\ u.job = j /\ j \in DOMAIN jobs /\ jobs[j].conn = u.conn
  /\ u.status = jobs[j].status /\ u.at \in {0, jobs[j].at}
ForcedFailure(u) ==
  /\ force /\ u.at = now /\ u.status = "failed"
  /\ u.job \in {row[u.conn].sync.job, Latest(u.conn)}
\* The connection p is done, with an update or without one.
Passed(w, me, p, found) ==
  /\ Becomes(w, me) /\ p \in worker[w].todo /\ worker[w].pc \in Passing \cup {"asking"}
  /\ found \subseteq Updates /\ \A u, v \in found : u = v
  /\ \A u \in found :
       /\ u.conn = p.conn
       /\ IF worker[w].pc = "asking" THEN Answers(u, worker[w].job)
          ELSE Answers(u, Latest(u.conn)) \/ ForcedFailure(u)
       /\ u.at = 0 => p.conn \in disturbed'
  /\ worker[w].pc = "asking" => p.conn = worker[w].conn /\ found # {}
  /\ me.todo = worker[w].todo \ {p} /\ me.got = worker[w].got \cup found
  /\ me.saved = {} /\ me.conn = 0
  /\ IF me.todo # {} THEN /\ me.pc \in Passing
                          /\ me.pc = "triggering" => worker[w].pc \in {"triggering", "asking"}
     ELSE IF me.got # {} THEN me.pc = "rows" ELSE me = AtRest
  /\ disturbed \subseteq disturbed' /\ disturbed' \subseteq Connections
  /\ UNCHANGED <<now, jobs, row, shown, editor, force, triggered, faults>>
Hooked(w, me, u) ==
  /\ Becomes(w, me) /\ worker[w].pc = "idle" /\ me.pc = "rows"
  /\ me.todo = {} /\ me.got = {u} /\ me.saved = {} /\ me.conn = 0
  /\ u \in Updates /\ Answers(u, u.job) /\ u.at # 0
  /\ disturbed \subseteq disturbed' /\ disturbed' \subseteq Connections
  /\ u.conn \in Busy => u.conn \in disturbed'
  /\ u.job < row[u.conn].sync.job => u.conn \in disturbed'
  /\ UNCHANGED <<now, jobs, row, shown, editor, force, triggered, faults>>
\* A request started a job of u's connection, and is to store it.
Requested(w, me, u) ==
  /\ Becomes(w, me) /\ worker[w].pc = "requesting" /\ me.pc \in {"rows", "queueing"}
  /\ me.todo = {} /\ me.got = {u} /\ me.saved = {} /\ me.conn = 0
  /\ Created(u.conn) /\ u.job = Len(jobs) + 1 /\ u.status = "running"
  /\ disturbed \subseteq disturbed' /\ disturbed' \subseteq Connections /\ u.conn \in disturbed'
  /\ UNCHANGED <<now, row, shown, editor, force, triggered, faults>>
Queued(w, u) ==
  /\ Becomes(w, AtRest) /\ worker[w].pc = "queueing" /\ worker[w].got = {u}
  /\ row' \in [Connections -> Rows] /\ \A c \in Connections : c # u.conn => row'[c] = row[c]
  /\ row'[u.conn].sync = Sync(u.job, "queued", row[u.conn].sync.synced)
  /\ disturbed \subseteq disturbed' /\ disturbed' \subseteq Connections /\ u.conn \in disturbed'
  /\ UNCHANGED <<now, jobs, shown, editor, force, triggered, faults>>
RowSaved(w, me, u) ==
  /\ Becomes(w, me) /\ worker[w].pc = "rows" /\ u \in worker[w].got
  /\ row' \in [Connections -> Rows] /\ \A c \in Connections : c # u.conn => row'[c] = row[c]
  /\ row'[u.conn].sync = Sync(u.job, u.status, SyncedAt(u))
  /\ me.todo = worker[w].todo /\ me.conn = worker[w].conn /\ me.got = worker[w].got \ {u}
  /\ me.saved = worker[w].saved \cup {[conn |-> u.conn, job |-> u.job, status |-> u.status]}
  /\ me.pc = IF me.got = {} THEN "statuses" ELSE "rows"
  /\ UNCHANGED <<now, jobs, shown, editor, force, triggered, disturbed, faults>>
StatusSaved(w, me, s) ==
  /\ Becomes(w, me) /\ worker[w].pc = "statuses" /\ s \in worker[w].saved /\ shown' = s
  /\ me.todo = worker[w].todo /\ me.conn = worker[w].conn /\ me.got = worker[w].got
  /\ me.saved = worker[w].saved \ {s}
  /\ IF me.saved = {} THEN me = AtRest ELSE me.pc = "statuses"
  /\ UNCHANGED <<now, jobs, row, editor, force, triggered, disturbed, faults>>

LEMMA BecomesFacts ==
  ASSUME TypeOK, NEW w \in Workers, NEW me \in Memories, worker' = [worker EXCEPT ![w] = me]
  PROVE  Becomes(w, me)
BY DEF TypeOK, Becomes

LEMMA AtRestType == AtRest \in Memories
BY BoundsAreNumbers DEF AtRest, Memories

LEMMA MemoryFacts ==
  ASSUME TypeOK, NEW w \in Workers
  PROVE  /\ worker[w] \in Memories
         /\ worker[w].todo \subseteq Loads /\ worker[w].got \subseteq Updates /\ worker[w].saved \subseteq Copies
         /\ worker[w].conn \in 0 .. NumConnections /\ worker[w].job \in 0 .. MaxJobs
         /\ \A x \in worker[w].todo \cup worker[w].got \cup worker[w].saved : x.conn \in Connections /\ x.conn \in Nat
BY ConnectionsFacts DEF TypeOK, Memories, Loads, Updates, Copies

LEMMA JobsFacts ==
  ASSUME TypeOK
  PROVE  /\ DOMAIN jobs = 1 .. Len(jobs) /\ Len(jobs) \in Nat /\ DOMAIN jobs \subseteq 0 .. MaxJobs
         /\ \A j \in DOMAIN jobs : /\ jobs[j] \in AirbyteJobs /\ jobs[j].conn \in Connections
                                   /\ jobs[j].status \in JobStatuses /\ jobs[j].at \in Times
         /\ now \in Times /\ now \in Nat
<1>1. jobs \in Seq(AirbyteJobs) /\ Len(jobs) <= MaxJobs /\ now \in Times
  BY DEF TypeOK
<1>2. DOMAIN jobs = 1 .. Len(jobs) /\ Len(jobs) \in Nat /\ \A j \in DOMAIN jobs : jobs[j] \in AirbyteJobs
  BY <1>1
<1>3. DOMAIN jobs \subseteq 0 .. MaxJobs
  BY <1>1, <1>2, BoundsAreNumbers
<1> QED BY <1>1, <1>2, <1>3, ConnectionsFacts DEF AirbyteJobs

LEMMA CreatedFacts ==
  ASSUME TypeOK, NEW c \in Connections, NewJob(c)
  PROVE  Created(c)
<1>1. /\ jobs \in Seq(AirbyteJobs) /\ Len(jobs) < MaxJobs /\ Len(jobs) \in Nat /\ now \in Times
      /\ DOMAIN jobs = 1 .. Len(jobs)
  BY DEF TypeOK, NewJob
<1>2. PICK new : new = [conn |-> c, status |-> "running", at |-> now] /\ jobs' = Append(jobs, new)
  BY DEF NewJob
<1>3. new \in AirbyteJobs /\ new.conn = c /\ new.at = now
  BY <1>1, <1>2 DEF AirbyteJobs, JobStatuses
<1>4. /\ jobs' \in Seq(AirbyteJobs) /\ Len(jobs') = Len(jobs) + 1 /\ DOMAIN jobs' = 1 .. Len(jobs) + 1
      /\ jobs'[Len(jobs) + 1] = new /\ \A i \in DOMAIN jobs : jobs'[i] = jobs[i]
  BY <1>1, <1>2, <1>3
<1>5. Len(jobs') <= MaxJobs
  BY <1>1, <1>4, BoundsAreNumbers
<1>6. Len(jobs) + 1 \in DOMAIN jobs' /\ Len(jobs) + 1 \notin DOMAIN jobs
  BY <1>1, <1>4
<1>7. \A i \in DOMAIN jobs' : i \notin DOMAIN jobs => jobs'[i].at = now
  BY <1>1, <1>3, <1>4
<1>8. \A i \in DOMAIN jobs : i \in DOMAIN jobs'
  BY <1>1, <1>4
<1>9. JobsMove
  BY <1>4, <1>5, <1>7, <1>8 DEF JobsMove
<1> QED BY <1>3, <1>4, <1>6, <1>9 DEF Created

LEMMA EndsFacts ==
  ASSUME TypeOK, NEW j, JobEnds(j)
  PROVE  JobsMoved
<1>1. /\ jobs \in Seq(AirbyteJobs) /\ Len(jobs) <= MaxJobs /\ now \in Times /\ j \in DOMAIN jobs
      /\ jobs[j].status = "running" /\ jobs[j] \in AirbyteJobs
  BY JobsFacts DEF TypeOK, JobEnds
<1>2. PICK status \in Outcomes : jobs' = [jobs EXCEPT ![j].status = status, ![j].at = now]
  BY DEF JobEnds
<1>3. status \in JobStatuses
  BY BoundsAreNumbers DEF JobStatuses
<1>4. PICK new : new = [jobs[j] EXCEPT !.status = status, !.at = now]
  OBVIOUS
<1>5. new \in AirbyteJobs /\ new.conn = jobs[j].conn /\ new.at = now
  BY <1>1, <1>3, <1>4 DEF AirbyteJobs
<1>6. jobs' = [jobs EXCEPT ![j] = new]
  BY <1>1, <1>2, <1>4 DEF AirbyteJobs
<1>7. /\ jobs' \in Seq(AirbyteJobs) /\ Len(jobs') = Len(jobs) /\ DOMAIN jobs' = DOMAIN jobs
      /\ jobs'[j] = new /\ \A i \in DOMAIN jobs : i # j => jobs'[i] = jobs[i]
  BY <1>1, <1>5, <1>6
<1>8. jobs[j].status \notin Ended
  BY <1>1 DEF Ended
<1> QED BY <1>1, <1>5, <1>7, <1>8 DEF JobsMoved, JobsMove, JobEnds

LEMMA BeginFacts ==
  ASSUME Base, NEW w \in Workers, NEW pc \in Taking, NEW C \in SUBSET Connections, Begin(w, pc, C),
         pc = "triggering" => \A c \in C : Due(c)
  PROVE  \E me \in Memories : Began(w, me)
<1>0. TypeOK /\ row \in [Connections -> Rows]
  BY DEF Base, TypeOK
<1>1. PICK me : me = [AtRest EXCEPT !.pc = pc, !.todo = Loaded(C)]
  OBVIOUS
<1>2. Loaded(C) \subseteq Loads
  BY <1>0 DEF Loaded, Loads, Rows, Syncs
<1>3. /\ me \in Memories /\ me.pc = pc /\ me.todo = Loaded(C) /\ me.got = {} /\ me.saved = {} /\ me.conn = 0
  BY <1>1, <1>2, AtRestType DEF AtRest, Memories, Taking
<1>4. Becomes(w, me)
  BY <1>0, <1>1, <1>3, BecomesFacts DEF Begin
<1>5. Loaded(C) # {} /\ OnePer(Loaded(C)) /\ ConnsOf(Loaded(C)) = C
      /\ \A p \in Loaded(C) : p.conn \in C /\ p.synced = row[p.conn].sync.synced
  <2>1. C # {}
    BY DEF Begin
  <2>2. \A p \in Loaded(C) : p.conn \in C /\ p = [conn |-> p.conn, synced |-> row[p.conn].sync.synced]
    BY DEF Loaded
  <2>3. \A c \in C : [conn |-> c, synced |-> row[c].sync.synced] \in Loaded(C)
    BY DEF Loaded
  <2>4. \A c \in C : \E p \in Loaded(C) : p.conn = c
    BY <2>3
  <2>5. ConnsOf(Loaded(C)) = C
    BY <2>2, <2>4 DEF ConnsOf
  <2>6. OnePer(Loaded(C))
    BY <2>2 DEF OnePer
  <2>7. \A p \in Loaded(C) : p.synced = row[p.conn].sync.synced
    BY <2>2
  <2> QED BY <2>1, <2>2, <2>3, <2>5, <2>6, <2>7
<1>6. pc = "triggering" => \A p \in Loaded(C) : p.synced = 0 \/ p.synced + Interval <= now
  BY <1>5 DEF Due
<1>7. Began(w, me)
  BY <1>3, <1>4, <1>5, <1>6 DEF Began, Begin
<1> QED BY <1>3, <1>7

LEMMA TodoFacts ==
  ASSUME Base, NEW w \in Workers, worker[w].pc \in Taking \cup {"asking"}
  PROVE  Least(worker[w].todo) \in worker[w].todo /\ worker[w].saved = {}
<1>1. worker[w].todo # {} /\ worker[w].saved = {}
  BY DEF Base, ShapeInv, Shaped
<1>2. \A x \in worker[w].todo : x.conn \in Nat
  BY MemoryFacts DEF Base
<1> QED BY <1>1, <1>2, LeastFacts

LEMMA TriggerFacts ==
  ASSUME Base, NEW w \in Workers, TriggerSync(w)
  PROVE  Dropped(w) \/ \E me \in Memories, p \in Loads : Asked(w, me, p)
<1>0. TypeOK /\ worker[w].pc = "triggering"
  BY DEF Base, TriggerSync
<1>1. PICK p \in worker[w].todo : p = Least(worker[w].todo)
  BY <1>0, TodoFacts DEF Taking
<1>2. PICK c \in Connections : c = p.conn
  BY <1>0, MemoryFacts
<1>3. worker[w] \in Memories /\ worker[w].saved = {} /\ p \in Loads
  BY <1>0, MemoryFacts, TodoFacts DEF Taking
<1>4. triggered \in [Connections -> Times] /\ disturbed \subseteq Connections /\ now \in Times
      /\ faults \in 0 .. MaxFaults /\ jobs \in Seq(AirbyteJobs) /\ Len(jobs) <= MaxJobs
  BY <1>0 DEF TypeOK
<1>5. ConnsOf(worker[w].got) \subseteq Connections /\ ConnsOf(worker[w].got \cup worker[w].saved) = ConnsOf(worker[w].got)
      /\ worker[w].conn \in Connections \cup {0}
  BY <1>0, <1>3, MemoryFacts, ConnectionsFacts DEF ConnsOf
<1>6. CASE /\ NewJob(c)
           /\ worker' = [worker EXCEPT ![w].pc = "asking", ![w].conn = c, ![w].job = Len(jobs) + 1]
           /\ triggered' = [triggered EXCEPT ![c] = now]
           /\ UNCHANGED disturbed
  <2>1. PICK me : me = [worker[w] EXCEPT !.pc = "asking", !.conn = c, !.job = Len(jobs) + 1]
    OBVIOUS
  <2>2. Created(c)
    BY <1>0, <1>6, CreatedFacts
  <2>3. Len(jobs) + 1 \in 0 .. MaxJobs /\ c \in 0 .. NumConnections
    BY <1>0, <1>4, <1>6, JobsFacts, BoundsAreNumbers, ConnectionsFacts DEF NewJob
  <2>4. /\ me \in Memories /\ me.pc = "asking" /\ me.conn = c /\ me.job = Len(jobs) + 1
        /\ me.todo = worker[w].todo /\ me.got = worker[w].got /\ me.saved = worker[w].saved
    BY <1>3, <2>1, <2>3 DEF Memories
  <2>5. worker' = [worker EXCEPT ![w] = me]
    BY <1>0, <1>3, <1>6, <2>1 DEF TypeOK, Memories
  <2>6. Becomes(w, me)
    BY <1>0, <2>4, <2>5, BecomesFacts
  <2>7. Asked(w, me, p)
    BY <1>0, <1>1, <1>2, <1>6, <2>2, <2>4, <2>6 DEF Asked, TriggerSync
  <2> QED BY <1>3, <2>4, <2>7
<1>7. CASE UNCHANGED <<jobs, triggered>> /\ DropUpdates(w)
  <2>1. Becomes(w, AtRest)
    BY <1>0, <1>7, BecomesFacts, AtRestType DEF DropUpdates
  <2>2. JobsMove /\ ~(Len(jobs') > Len(jobs))
    BY <1>4, <1>7 DEF JobsMove
  <2> QED BY <1>4, <1>5, <1>7, <2>1, <2>2 DEF Dropped, DropUpdates, TriggerSync
<1>8. CASE /\ NewJob(c) /\ triggered' = [triggered EXCEPT ![c] = now]
           /\ worker' = [worker EXCEPT ![w] = AtRest]
           /\ disturbed' = disturbed \cup ConnsOf(worker[w].got) \cup {c}
  <2>1. Becomes(w, AtRest)
    BY <1>0, <1>8, BecomesFacts, AtRestType
  <2>2. Created(c)
    BY <1>0, <1>8, CreatedFacts
  <2>3. worker[w].conn = 0
    BY <1>0 DEF Base, ShapeInv, Shaped
  <2>4. triggered' \in [Connections -> Times]
        /\ \A d \in Connections : triggered'[d] = triggered[d]
                            \/ (d \in disturbed' /\ triggered'[d] = now /\ Created(d))
    BY <1>4, <1>8, <2>2
  <2>5. jobs'[Len(jobs')].conn \in disturbed'
    BY <1>8, <2>2 DEF Created
  <2> QED BY <1>4, <1>5, <1>8, <2>1, <2>2, <2>3, <2>4, <2>5 DEF Dropped, Created, TriggerSync
<1> QED BY <1>1, <1>2, <1>6, <1>7, <1>8 DEF TriggerSync

\* The memory of a pass that has done a connection.
Proceeded(w, pc, todo, got, me) ==
  /\ Becomes(w, me) /\ me.todo = todo /\ me.got = got /\ me.saved = {} /\ me.conn = 0
  /\ IF todo # {} THEN me.pc = pc ELSE IF got # {} THEN me.pc = "rows" ELSE me = AtRest
LEMMA ProceedFacts ==
  ASSUME Base, NEW w \in Workers, NEW pc \in Passing, NEW p \in worker[w].todo,
         NEW found, found \subseteq Updates,
         NEW todo, todo = worker[w].todo \ {p}, NEW got, got = worker[w].got \cup found,
         Proceed(w, pc, todo, got)
  PROVE  \E me \in Memories : Proceeded(w, pc, todo, got, me)
<1>0. TypeOK
  BY DEF Base
<1>3. todo \subseteq Loads /\ got \subseteq Updates
  BY <1>0, MemoryFacts
<1>4. PICK me : me = IF todo # {} THEN [AtRest EXCEPT !.pc = pc, !.todo = todo, !.got = got]
                     ELSE IF got # {} THEN [AtRest EXCEPT !.pc = "rows", !.got = got] ELSE AtRest
  OBVIOUS
<1>5. /\ me \in Memories /\ me.todo = todo /\ me.got = got /\ me.saved = {} /\ me.conn = 0
      /\ IF todo # {} THEN me.pc = pc ELSE IF got # {} THEN me.pc = "rows" ELSE me = AtRest
  <2>1. CASE todo # {}
    BY <1>3, <1>4, <2>1, AtRestType DEF AtRest, Memories, Passing
  <2>2. CASE todo = {} /\ got # {}
    BY <1>3, <1>4, <2>2, AtRestType DEF AtRest, Memories
  <2>3. CASE todo = {} /\ got = {}
    BY <1>4, <2>3, AtRestType DEF AtRest
  <2> QED BY <2>1, <2>2, <2>3
<1>6. worker' = [worker EXCEPT ![w] = me]
  BY <1>4 DEF Proceed
<1>7. Becomes(w, me)
  BY <1>0, <1>5, <1>6, BecomesFacts
<1> QED BY <1>5, <1>7 DEF Proceeded

LEMMA GetFacts ==
  ASSUME Base, NEW w \in Workers, GetJob(w)
  PROVE  \/ Dropped(w)
         \/ \E me \in Memories, p \in Loads, found \in SUBSET Updates : Passed(w, me, p, found)
<1>0. TypeOK /\ worker[w].pc = "asking" /\ disturbed \subseteq Connections
  BY DEF Base, TypeOK, GetJob
<1>1. PICK p \in worker[w].todo : p = Least(worker[w].todo)
  BY <1>0, TodoFacts
<1>2. PICK j : j = worker[w].job
  OBVIOUS
<1>3. /\ j \in DOMAIN jobs /\ jobs[j].conn = worker[w].conn /\ worker[w].conn = p.conn
      /\ worker[w].saved = {} /\ p \in Loads /\ p.conn \in Connections
  BY <1>0, <1>1, <1>2, MemoryFacts, TodoFacts DEF Base, AskedInv, ShapeInv, Shaped
<1>4. CASE \E at \in AnswerTimes(j) :
          /\ Proceed(w, "triggering", worker[w].todo \ {p},
                     worker[w].got \cup {Update(p.conn, j, jobs[j].status, at, p.synced)})
          /\ disturbed' = IF at = 0 THEN disturbed \cup {p.conn} ELSE disturbed
  <2>1. PICK at \in AnswerTimes(j) :
          /\ Proceed(w, "triggering", worker[w].todo \ {p},
                     worker[w].got \cup {Update(p.conn, j, jobs[j].status, at, p.synced)})
          /\ disturbed' = IF at = 0 THEN disturbed \cup {p.conn} ELSE disturbed
    BY <1>4
  <2>2. PICK u : u = Update(p.conn, j, jobs[j].status, at, p.synced)
    OBVIOUS
  <2>3. at \in {0, jobs[j].at} /\ at \in Times
    BY <1>0, <1>3, JobsFacts, ConnectionsFacts DEF AnswerTimes
  <2>4. /\ u \in Updates /\ u.conn = p.conn /\ u.job = j /\ u.status = jobs[j].status /\ u.at = at
    BY <1>0, <1>3, <2>2, <2>3, JobsFacts DEF Update, Updates, Loads
  <2>5. PICK found \in SUBSET Updates : found = {u}
    BY <2>4
  <2>10. PICK todo : todo = worker[w].todo \ {p}
    OBVIOUS
  <2>11. PICK got : got = worker[w].got \cup found
    OBVIOUS
  <2>6. PICK me \in Memories : Proceeded(w, "triggering", todo, got, me)
    <3>1. Proceed(w, "triggering", todo, got) /\ "triggering" \in Passing
      BY <2>1, <2>2, <2>5, <2>10, <2>11 DEF Passing
    <3>2. p \in worker[w].todo /\ found \subseteq Updates
      BY <1>1, <2>5
    <3> QED BY <2>10, <2>11, <3>1, <3>2, ProceedFacts
  <2>7. Answers(u, worker[w].job)
    BY <1>2, <1>3, <2>3, <2>4 DEF Answers
  <2>8. disturbed \subseteq disturbed' /\ disturbed' \subseteq Connections /\ (at = 0 => p.conn \in disturbed')
    BY <1>0, <1>3, <2>1
  <2>9. Passed(w, me, p, found)
    BY <1>0, <1>3, <2>4, <2>5, <2>6, <2>7, <2>8, <2>10, <2>11 DEF Passed, Proceeded, GetJob, Passing
  <2> QED BY <1>3, <2>9
<1>5. CASE DropUpdates(w) /\ UNCHANGED <<now, jobs, row, shown, editor, force, triggered, faults>>
  <2>1. Becomes(w, AtRest)
    BY <1>0, <1>5, BecomesFacts, AtRestType DEF DropUpdates
  <2>2. JobsMove
    BY <1>0, <1>5 DEF JobsMove, TypeOK
  <2>3. ConnsOf(worker[w].got \cup worker[w].saved) = ConnsOf(worker[w].got) /\ ConnsOf(worker[w].got) \subseteq Connections
    BY <1>0, <1>3, MemoryFacts DEF ConnsOf
  <2>4. disturbed' \subseteq Connections /\ disturbed \subseteq disturbed' /\ worker[w].conn \in disturbed'
        /\ ConnsOf(worker[w].got) \subseteq disturbed' /\ Len(jobs') = Len(jobs) /\ Len(jobs) \in Nat
    BY <1>0, <1>3, <1>5, <2>3, JobsFacts, ConnectionsFacts DEF DropUpdates
  <2>5. triggered \in [Connections -> Times] /\ faults \in 0 .. MaxFaults
    BY <1>0 DEF TypeOK
  <2> QED BY <1>5, <2>1, <2>2, <2>3, <2>4, <2>5 DEF Dropped
<1> QED BY <1>1, <1>2, <1>4, <1>5 DEF GetJob

LEMMA LatestJobFacts ==
  ASSUME Base, NEW w \in Workers, LatestJob(w)
  PROVE  \E me \in Memories, p \in Loads, found \in SUBSET Updates : Passed(w, me, p, found)
<1>0. TypeOK /\ worker[w].pc \in Passing /\ worker[w].pc # "asking" /\ disturbed \subseteq Connections
  BY DEF Base, TypeOK, LatestJob, Passing
<1>1. PICK p \in worker[w].todo : p = Least(worker[w].todo)
  BY <1>0, TodoFacts DEF Passing, Taking
<1>2. p \in Loads /\ p.conn \in Connections /\ p.synced \in Times
  BY <1>0, MemoryFacts DEF Loads
<1>3. PICK pc : pc = worker[w].pc
  OBVIOUS
<1>4. PICK found \in Resolved(pc, p) :
         /\ Proceed(w, pc, worker[w].todo \ {p}, worker[w].got \cup found)
         /\ disturbed' = disturbed \cup {u.conn : u \in {x \in found : x.at = 0}}
  BY <1>1, <1>3 DEF LatestJob
<1>5. PICK j : j = Latest(p.conn)
  OBVIOUS
<1>6. j \in DOMAIN jobs \cup {0} /\ (j # 0 => jobs[j].conn = p.conn)
  BY <1>0, <1>5, LatestFacts DEF TypeOK
<1>7. \A x \in {row[p.conn].sync.job, j} : x \in 0 .. MaxJobs
  BY <1>0, <1>2, <1>6, JobsFacts, BoundsAreNumbers DEF TypeOK, Rows, Syncs
<1>8. \/ found = {}
      \/ \E x \in {row[p.conn].sync.job, j} : force /\ found = {Update(p.conn, x, "failed", now, p.synced)}
      \/ j # 0 /\ \E at \in AnswerTimes(j) : found = {Update(p.conn, j, jobs[j].status, at, p.synced)}
  <2>1. CASE found \in {Forced(p, row[p.conn].sync.job), {}, Forced(p, j)}
    BY <2>1 DEF Forced
  <2>2. CASE j # 0 /\ found \in {{Update(p.conn, j, jobs[j].status, at, p.synced)} : at \in AnswerTimes(j)}
    BY <2>2
  <2>3. found \in {Forced(p, row[p.conn].sync.job), {}, Forced(p, j)}
        \/ (j # 0 /\ found \in {{Update(p.conn, j, jobs[j].status, at, p.synced)} : at \in AnswerTimes(j)})
    BY <1>4, <1>5 DEF Resolved
  <2> QED BY <2>1, <2>2, <2>3
<1>9. CASE found = {}
  <2>1. found \subseteq Updates /\ (\A u, v \in found : u = v) /\ \A u \in found : FALSE
    BY <1>9
  <2>2. disturbed' = disturbed
    BY <1>4, <1>9
  <2>10. PICK todo : todo = worker[w].todo \ {p}
    OBVIOUS
  <2>11. PICK got : got = worker[w].got \cup found
    OBVIOUS
  <2>3. PICK me \in Memories : Proceeded(w, pc, todo, got, me)
    <3>1. Proceed(w, pc, todo, got) /\ pc \in Passing
      BY <1>0, <1>3, <1>4, <2>10, <2>11
    <3> QED BY <2>1, <2>10, <2>11, <3>1, ProceedFacts
  <2>4. Passed(w, me, p, found)
    BY <1>0, <1>1, <1>3, <2>1, <2>2, <2>3, <2>10, <2>11 DEF Passed, Proceeded, LatestJob
  <2> QED BY <1>2, <2>1, <2>4
<1>10. ASSUME NEW u \in Updates, found = {u}, u.conn = p.conn,
              Answers(u, Latest(u.conn)) \/ ForcedFailure(u)
       PROVE  \E me \in Memories : Passed(w, me, p, found)
  <2>1. found \subseteq Updates
    BY <1>10
  <2>2. disturbed \subseteq disturbed' /\ disturbed' \subseteq Connections /\ (u.at = 0 => p.conn \in disturbed')
    BY <1>0, <1>2, <1>4, <1>10
  <2>10. PICK todo : todo = worker[w].todo \ {p}
    OBVIOUS
  <2>11. PICK got : got = worker[w].got \cup found
    OBVIOUS
  <2>3. PICK me \in Memories : Proceeded(w, pc, todo, got, me)
    <3>1. Proceed(w, pc, todo, got) /\ pc \in Passing
      BY <1>0, <1>3, <1>4, <2>10, <2>11
    <3> QED BY <2>1, <2>10, <2>11, <3>1, ProceedFacts
  <2>4. Passed(w, me, p, found)
    BY <1>0, <1>1, <1>3, <1>10, <2>1, <2>2, <2>3, <2>10, <2>11 DEF Passed, Proceeded, LatestJob
  <2> QED BY <2>4
<1>11. ASSUME NEW x \in {row[p.conn].sync.job, j}, force, found = {Update(p.conn, x, "failed", now, p.synced)}
       PROVE  \E me \in Memories : Passed(w, me, p, found)
  <2>1. PICK u : u = Update(p.conn, x, "failed", now, p.synced)
    OBVIOUS
  <2>2. u \in Updates /\ u.conn = p.conn /\ u.job = x /\ u.status = "failed" /\ u.at = now
    BY <1>0, <1>2, <1>7, <2>1, JobsFacts DEF Update, Updates, JobStatuses, Ended
  <2>3. ForcedFailure(u)
    BY <1>5, <1>11, <2>2 DEF ForcedFailure
  <2> QED BY <1>10, <1>11, <2>1, <2>2, <2>3
<1>12. ASSUME j # 0, NEW at \in AnswerTimes(j), found = {Update(p.conn, j, jobs[j].status, at, p.synced)}
       PROVE  \E me \in Memories : Passed(w, me, p, found)
  <2>1. PICK u : u = Update(p.conn, j, jobs[j].status, at, p.synced)
    OBVIOUS
  <2>2. j \in DOMAIN jobs /\ at \in {0, jobs[j].at} /\ at \in Times
    BY <1>0, <1>6, <1>12, JobsFacts, ConnectionsFacts DEF AnswerTimes
  <2>3. u \in Updates /\ u.conn = p.conn /\ u.job = j /\ u.status = jobs[j].status /\ u.at = at
    BY <1>0, <1>2, <1>7, <2>1, <2>2, JobsFacts DEF Update, Updates
  <2>4. Answers(u, Latest(u.conn))
    BY <1>5, <1>6, <1>12, <2>2, <2>3 DEF Answers
  <2> QED BY <1>10, <1>12, <2>1, <2>3, <2>4
<1>13. found \in SUBSET Updates
  <2>1. CASE found = {}
    BY <2>1
  <2>2. ASSUME NEW x \in {row[p.conn].sync.job, j}, found = {Update(p.conn, x, "failed", now, p.synced)}
        PROVE  found \in SUBSET Updates
    BY <1>0, <1>2, <1>7, <2>2, JobsFacts DEF Update, Updates, JobStatuses, Ended
  <2>3. ASSUME j # 0, NEW at \in AnswerTimes(j), found = {Update(p.conn, j, jobs[j].status, at, p.synced)}
        PROVE  found \in SUBSET Updates
    <3>1. at \in Times /\ jobs[j].status \in JobStatuses
      BY <1>0, <1>6, <2>3, JobsFacts, ConnectionsFacts DEF AnswerTimes
    <3> QED BY <1>2, <1>7, <2>3, <3>1 DEF Update, Updates
  <2> QED BY <1>8, <2>1, <2>2, <2>3
<1> QED BY <1>2, <1>8, <1>9, <1>11, <1>12, <1>13

LEMMA RequestFacts ==
  ASSUME Base, NEW w \in Workers, RequestSync(w)
  PROVE  Dropped(w) \/ \E me \in Memories, u \in Updates : Requested(w, me, u)
<1>0. TypeOK /\ worker[w].pc = "requesting" /\ disturbed \subseteq Connections
  BY DEF Base, TypeOK, RequestSync
<1>1. PICK p \in worker[w].todo : p = Least(worker[w].todo)
  BY <1>0, TodoFacts DEF Taking
<1>2. /\ worker[w] \in Memories /\ worker[w].saved = {} /\ p \in Loads /\ p.conn \in Connections
      /\ p.synced \in Times
  BY <1>0, <1>1, MemoryFacts, TodoFacts DEF Taking, Loads
<1>3. /\ triggered \in [Connections -> Times] /\ faults \in 0 .. MaxFaults
      /\ jobs \in Seq(AirbyteJobs) /\ Len(jobs) <= MaxJobs
  BY <1>0 DEF TypeOK
<1>4. CASE UNCHANGED jobs /\ DropUpdates(w)
  <2>1. Becomes(w, AtRest)
    BY <1>0, <1>4, BecomesFacts, AtRestType DEF DropUpdates
  <2>2. JobsMove /\ ~(Len(jobs') > Len(jobs))
    BY <1>3, <1>4 DEF JobsMove
  <2>3. ConnsOf(worker[w].got) \subseteq Connections /\ ConnsOf(worker[w].got \cup worker[w].saved) = ConnsOf(worker[w].got)
        /\ worker[w].conn \in Connections \cup {0}
    BY <1>0, <1>2, MemoryFacts, ConnectionsFacts DEF ConnsOf
  <2>4. disturbed' \subseteq Connections /\ disturbed \subseteq disturbed'
        /\ ConnsOf(worker[w].got \cup worker[w].saved) \subseteq disturbed'
        /\ (worker[w].conn # 0 => worker[w].conn \in disturbed')
    BY <1>0, <1>4, <2>3 DEF DropUpdates
  <2> QED BY <1>3, <2>1, <2>2, <2>4 DEF Dropped, RequestSync
<1>5. ASSUME NewJob(p.conn), NEW pc \in {"rows", "queueing"}, disturbed' = disturbed \cup {p.conn},
             worker' = [worker EXCEPT ![w] = [AtRest EXCEPT !.pc = pc,
               !.got = {Update(p.conn, Len(jobs) + 1, "running", 0, p.synced)}]]
      PROVE  \E me \in Memories, u \in Updates : Requested(w, me, u)
  <2>1. PICK u : u = Update(p.conn, Len(jobs) + 1, "running", 0, p.synced)
    OBVIOUS
  <2>2. Created(p.conn)
    BY <1>0, <1>2, <1>5, CreatedFacts
  <2>3. Len(jobs) + 1 \in 0 .. MaxJobs /\ 0 \in Times
    BY <1>0, <1>5, JobsFacts, BoundsAreNumbers, ConnectionsFacts DEF NewJob
  <2>4. u \in Updates /\ u.conn = p.conn /\ u.job = Len(jobs) + 1 /\ u.status = "running"
    BY <1>2, <2>1, <2>3 DEF Update, Updates, JobStatuses
  <2>5. PICK me : me = [AtRest EXCEPT !.pc = pc, !.got = {u}]
    OBVIOUS
  <2>6. me \in Memories /\ me.pc = pc /\ me.todo = {} /\ me.got = {u} /\ me.saved = {} /\ me.conn = 0
    BY <2>4, <2>5, AtRestType DEF AtRest, Memories
  <2>7. Becomes(w, me)
    BY <1>0, <1>5, <2>1, <2>5, <2>6, BecomesFacts
  <2>8. Requested(w, me, u)
    BY <1>0, <1>2, <1>5, <2>2, <2>4, <2>6, <2>7 DEF Requested, RequestSync
  <2> QED BY <2>4, <2>6, <2>8
<1> QED BY <1>1, <1>4, <1>5 DEF RequestSync

LEMMA QueueFacts ==
  ASSUME Base, NEW w \in Workers, QueueJob(w)
  PROVE  \E u \in Updates : Queued(w, u)
<1>0. TypeOK /\ row \in [Connections -> Rows] /\ worker[w].pc = "queueing" /\ disturbed \subseteq Connections
  BY DEF Base, TypeOK, QueueJob
<1>1. PICK u \in Updates : worker[w].got = {u}
  BY <1>0 DEF Base, ShapeInv, Shaped
<1>2. u = Least(worker[w].got)
  <2>1. \A x \in worker[w].got : x.conn \in Nat
    BY <1>0, MemoryFacts
  <2>2. Least(worker[w].got) \in worker[w].got
    BY <1>1, <2>1, LeastFacts
  <2> QED BY <1>1, <2>2
<1>3. u.conn \in Connections /\ u.job \in 0 .. MaxJobs /\ row[u.conn] \in Rows
      /\ row[u.conn].sync.synced \in Times
  BY <1>0 DEF Updates, Rows, Syncs
<1>4. PICK sync : sync = Sync(u.job, "queued", row[u.conn].sync.synced)
  OBVIOUS
<1>5. sync \in Syncs
  BY <1>3, <1>4 DEF Sync, Syncs, Statuses
<1>6. PICK new : new = [row[u.conn] EXCEPT !.sync = sync]
  OBVIOUS
<1>7. new \in Rows /\ new.sync = sync
  BY <1>3, <1>5, <1>6 DEF Rows
<1>8. row' = [row EXCEPT ![u.conn] = new]
  BY <1>0, <1>2, <1>3, <1>4, <1>6 DEF QueueJob
<1>9. Becomes(w, AtRest)
  BY <1>0, BecomesFacts, AtRestType DEF QueueJob
<1>10. /\ row' \in [Connections -> Rows] /\ row'[u.conn].sync = sync
       /\ \A c \in Connections : c # u.conn => row'[c] = row[c]
  BY <1>0, <1>3, <1>7, <1>8
<1> QED BY <1>0, <1>1, <1>2, <1>3, <1>4, <1>9, <1>10 DEF Queued, QueueJob

LEMMA WebhookFacts ==
  ASSUME Base, NEW w \in Workers, NEW j, Webhook(w, j)
  PROVE  \E me \in Memories, u \in Updates : Hooked(w, me, u)
<1>0. TypeOK /\ disturbed \subseteq Connections /\ j \in DOMAIN jobs /\ worker[w].pc = "idle"
      /\ jobs[j].status \in Ended
  BY DEF Base, TypeOK, Webhook
<1>1. PICK c \in Connections : c = jobs[j].conn
  BY <1>0, JobsFacts
<1>2. PICK u : u = Update(c, j, jobs[j].status, jobs[j].at, row[c].sync.synced)
  OBVIOUS
<1>3. /\ u \in Updates /\ u.conn = c /\ u.job = j /\ u.status = jobs[j].status /\ u.at = jobs[j].at
  <2>1. row[c].sync.synced \in Times
    BY <1>0 DEF TypeOK, Rows, Syncs
  <2> QED BY <1>0, <1>2, <2>1, JobsFacts DEF Update, Updates
<1>4. PICK me : me = [AtRest EXCEPT !.pc = "rows", !.got = {u}]
  OBVIOUS
<1>5. me \in Memories /\ me.pc = "rows" /\ me.todo = {} /\ me.got = {u} /\ me.saved = {} /\ me.conn = 0
  BY <1>3, <1>4, AtRestType DEF AtRest, Memories
<1>6. Becomes(w, me)
  BY <1>0, <1>1, <1>2, <1>4, <1>5, BecomesFacts DEF Webhook
<1>7. jobs[j].at # 0
  BY <1>0 DEF Base, ClockInv
<1>8. /\ disturbed \subseteq disturbed' /\ disturbed' \subseteq Connections
      /\ u.conn \in Busy => u.conn \in disturbed'
      /\ u.job < row[u.conn].sync.job => u.conn \in disturbed'
  BY <1>0, <1>1, <1>3 DEF Webhook
<1>9. Hooked(w, me, u)
  BY <1>0, <1>1, <1>3, <1>5, <1>6, <1>7, <1>8 DEF Hooked, Webhook, Answers
<1> QED BY <1>3, <1>5, <1>9

LEMMA SaveRowFacts ==
  ASSUME Base, NEW w \in Workers, SaveRow(w)
  PROVE  \E me \in Memories, u \in Updates : RowSaved(w, me, u)
<1>0. TypeOK /\ row \in [Connections -> Rows] /\ worker[w].pc = "rows" /\ worker[w].got # {}
  BY DEF Base, TypeOK, SaveRow, ShapeInv, Shaped
<1>1. PICK u \in worker[w].got : u = Least(worker[w].got)
  <2>1. \A x \in worker[w].got : x.conn \in Nat
    BY <1>0, MemoryFacts
  <2> QED BY <1>0, <2>1, LeastFacts
<1>2. /\ u \in Updates /\ u.conn \in Connections /\ u.job \in 0 .. MaxJobs /\ u.status \in JobStatuses
      /\ u.status \in Statuses /\ u.at \in Times /\ u.loaded \in Times
  BY <1>0, <1>1, MemoryFacts DEF Updates, JobStatuses, Statuses
<1>3. SyncedAt(u) \in Times
  BY <1>2 DEF SyncedAt
<1>4. Sync(u.job, u.status, SyncedAt(u)) \in Syncs
  BY <1>2, <1>3 DEF Sync, Syncs
<1>5. PICK copy : copy = [conn |-> u.conn, job |-> u.job, status |-> u.status]
  OBVIOUS
<1>6. copy \in Copies
  BY <1>2, <1>5 DEF Copies
<1>7. PICK new : new = [row[u.conn] EXCEPT !.sync = Sync(u.job, u.status, SyncedAt(u))]
  OBVIOUS
<1>8. new \in Rows /\ new.sync = Sync(u.job, u.status, SyncedAt(u))
  <2>1. row[u.conn] \in Rows
    BY <1>0, <1>2
  <2> QED BY <1>4, <1>7, <2>1 DEF Rows
<1>9. row' = [row EXCEPT ![u.conn] = new]
  BY <1>0, <1>1, <1>2, <1>7 DEF SaveRow
<1>10. /\ row' \in [Connections -> Rows] /\ row'[u.conn].sync = Sync(u.job, u.status, SyncedAt(u))
       /\ \A c \in Connections : c # u.conn => row'[c] = row[c]
  BY <1>0, <1>2, <1>8, <1>9
<1>11. PICK pc : pc = IF worker[w].got = {u} THEN "statuses" ELSE "rows"
  OBVIOUS
<1>12. PICK me : me = [worker[w] EXCEPT !.got = worker[w].got \ {u}, !.saved = worker[w].saved \cup {copy}, !.pc = pc]
  OBVIOUS
<1>13. /\ me \in Memories /\ me.got = worker[w].got \ {u} /\ me.saved = worker[w].saved \cup {copy} /\ me.pc = pc
       /\ me.todo = worker[w].todo /\ me.conn = worker[w].conn
  <2>1. worker[w] \in Memories
    BY <1>0, MemoryFacts
  <2>2. pc \in {"rows", "statuses"}
    BY <1>11
  <2> QED BY <1>6, <1>12, <2>1, <2>2 DEF Memories
<1>14. worker' = [worker EXCEPT ![w] = me]
  <2>1. worker \in [Workers -> Memories] /\ worker[w] \in Memories
    BY <1>0 DEF TypeOK
  <2>2. worker' = [worker EXCEPT ![w].got = @ \ {u},
                              ![w].saved = @ \cup {copy},
                              ![w].pc = pc]
    BY <1>0, <1>1, <1>5, <1>11 DEF SaveRow
  <2> QED BY <1>12, <2>1, <2>2 DEF Memories
<1>15. Becomes(w, me)
  BY <1>0, <1>13, <1>14, BecomesFacts
<1>16. me.pc = IF me.got = {} THEN "statuses" ELSE "rows"
  BY <1>1, <1>11, <1>13
<1>17. RowSaved(w, me, u)
  BY <1>0, <1>1, <1>5, <1>10, <1>13, <1>15, <1>16 DEF RowSaved, SaveRow
<1> QED BY <1>2, <1>13, <1>17

LEMMA SaveStatusFacts ==
  ASSUME Base, NEW w \in Workers, SaveStatus(w)
  PROVE  \E me \in Memories, s \in Copies : StatusSaved(w, me, s)
<1>0. TypeOK /\ worker[w].pc = "statuses" /\ worker[w].saved # {} /\ worker[w].got = {}
      /\ worker[w].todo = {} /\ worker[w].conn = 0
  BY DEF Base, SaveStatus, ShapeInv, Shaped
<1>1. PICK s \in worker[w].saved : s = Least(worker[w].saved)
  <2>1. \A x \in worker[w].saved : x.conn \in Nat
    BY <1>0, MemoryFacts
  <2> QED BY <1>0, <2>1, LeastFacts
<1>2. s \in Copies /\ shown' = s
  BY <1>0, <1>1, MemoryFacts DEF SaveStatus, Copied
<1>3. PICK me : me = IF worker[w].saved = {s} THEN AtRest ELSE [worker[w] EXCEPT !.saved = worker[w].saved \ {s}]
  OBVIOUS
<1>4. /\ me \in Memories /\ me.todo = worker[w].todo /\ me.conn = worker[w].conn /\ me.got = worker[w].got
      /\ me.saved = worker[w].saved \ {s} /\ IF me.saved = {} THEN me = AtRest ELSE me.pc = "statuses"
  <2>1. CASE worker[w].saved = {s}
    BY <1>0, <1>3, <2>1, AtRestType DEF AtRest
  <2>2. CASE worker[w].saved # {s}
    <3>1. worker[w] \in Memories /\ worker[w].saved \ {s} # {}
      BY <1>0, <1>1, <2>2, MemoryFacts
    <3> QED BY <1>0, <1>3, <2>2, <3>1 DEF Memories
  <2> QED BY <2>1, <2>2
<1>5. worker' = [worker EXCEPT ![w] = me]
  BY <1>1, <1>3 DEF SaveStatus
<1>6. Becomes(w, me)
  BY <1>0, <1>4, <1>5, BecomesFacts
<1>7. StatusSaved(w, me, s)
  BY <1>0, <1>1, <1>2, <1>4, <1>6 DEF StatusSaved, SaveStatus
<1> QED BY <1>2, <1>4, <1>7

LEMMA LoseFacts ==
  ASSUME Base, NEW w \in Workers, LoseWorker(w)
  PROVE  Dropped(w)
<1>0. TypeOK /\ disturbed \subseteq Connections /\ faults \in 0 .. MaxFaults /\ faults' \in 0 .. MaxFaults
      /\ triggered \in [Connections -> Times] /\ jobs \in Seq(AirbyteJobs) /\ Len(jobs) <= MaxJobs
  BY BoundsAreNumbers DEF Base, TypeOK, LoseWorker
<1>1. Becomes(w, AtRest)
  BY <1>0, BecomesFacts, AtRestType DEF LoseWorker
<1>2. ConnsOf(worker[w].got \cup worker[w].saved) \subseteq Holds(w) \ ConnsOf(worker[w].todo)
  <2>1. Shaped(worker[w]) /\ worker[w].pc # "idle" /\ worker[w] \in Memories
    BY <1>0, MemoryFacts DEF Base, ShapeInv, LoseWorker
  <2>2. Apart(worker[w].todo, worker[w].got) /\ (worker[w].todo = {} \/ worker[w].saved = {})
    BY <2>1 DEF Shaped, Memories, Passing, Taking
  <2> QED BY <2>2 DEF ConnsOf, Apart, Holds
<1>3. Holds(w) \subseteq Connections /\ (worker[w].conn # 0 => worker[w].conn \in Connections)
  BY <1>0, MemoryFacts, ConnectionsFacts DEF Holds, ConnsOf
<1>4. JobsMove /\ ~(Len(jobs') > Len(jobs))
  BY <1>0 DEF LoseWorker, JobsMove
<1>5. /\ disturbed' \subseteq Connections /\ disturbed \subseteq disturbed'
      /\ ConnsOf(worker[w].got \cup worker[w].saved) \subseteq disturbed'
      /\ worker[w].conn # 0 => worker[w].conn \in disturbed'
  BY <1>0, <1>2, <1>3 DEF LoseWorker
<1> QED BY <1>0, <1>1, <1>4, <1>5 DEF Dropped, LoseWorker

LEMMA PatchFacts ==
  ASSUME Base
  PROVE  /\ \A c \in Connections : StartPatch(c) => PatchStarted(c)
         /\ SavePatch => \E c \in Connections : PatchSaved(c)
<1>0. TypeOK /\ row \in [Connections -> Rows] /\ faults \in 0 .. MaxFaults
  BY DEF Base, TypeOK
<1>1. ASSUME NEW c \in Connections, StartPatch(c) PROVE PatchStarted(c)
  BY <1>0, <1>1, BoundsAreNumbers DEF StartPatch, PatchStarted
<1>2. ASSUME SavePatch PROVE \E c \in Connections : PatchSaved(c)
  <2>1. PICK c \in Connections : c = editor.conn
    BY <1>2 DEF Base, EditorInv, SavePatch
  <2>2. PICK active \in BOOLEAN : row' = [row EXCEPT ![editor.conn] = [active |-> active, sync |-> editor.sync]]
    BY <1>2 DEF SavePatch
  <2>3. PICK new : new = [active |-> active, sync |-> editor.sync]
    OBVIOUS
  <2>4. new \in Rows /\ new.sync = editor.sync
    BY <1>0, <2>3 DEF TypeOK, Rows
  <2>5. row' \in [Connections -> Rows] /\ row'[c].sync = editor.sync
        /\ \A d \in Connections : d # c => row'[d] = row[d]
    BY <1>0, <2>1, <2>2, <2>3, <2>4
  <2>6. PatchSaved(c)
    BY <1>2, <2>1, <2>5 DEF PatchSaved, SavePatch
  <2> QED BY <2>6
<1> QED BY <1>1, <1>2

\* Every step is of one of the kinds above.
Kinds ==
  \/ UNCHANGED vars
  \/ Ticked \/ JobsMoved
  \/ \E c \in Connections : PatchStarted(c) \/ PatchSaved(c)
  \/ \E w \in Workers :
       \/ Dropped(w)
       \/ \E u \in Updates : Queued(w, u)
       \/ \E me \in Memories :
            \/ Began(w, me)
            \/ \E p \in Loads : Asked(w, me, p) \/ \E found \in SUBSET Updates : Passed(w, me, p, found)
            \/ \E u \in Updates : Hooked(w, me, u) \/ RowSaved(w, me, u) \/ Requested(w, me, u)
            \/ \E s \in Copies : StatusSaved(w, me, s)

LEMMA NextKinds ==
  ASSUME Base, [Next]_vars
  PROVE  Kinds
<1>0. TypeOK
  BY DEF Base
<1>1. ASSUME Elapse PROVE Ticked
  <2>1. now \in 0 .. MaxTime /\ now < MaxTime /\ now' = now + 1 /\ MaxTime \in Nat
    BY <1>0, <1>1, BoundsAreNumbers DEF Elapse, TypeOK, Times
  <2>2. now' \in 0 .. MaxTime /\ now' >= now
    BY <2>1
  <2> QED BY <1>1, <2>2 DEF Elapse, Ticked, Times
<1>2. ASSUME NEW c \in Connections, TriggerByUser(c) PROVE JobsMoved
  <2>1. Created(c)
    BY <1>0, <1>2, CreatedFacts DEF TriggerByUser
  <2> QED BY <1>2, <2>1 DEF TriggerByUser, JobsMoved, Created
<1>3. ASSUME NEW w \in Workers, NEW pc \in Taking, NEW C \in SUBSET Connections, Begin(w, pc, C),
             pc = "triggering" => \A c \in C : Due(c)
      PROVE  Kinds
  BY <1>3, BeginFacts DEF Kinds
<1>4. ASSUME NEW w \in Workers, StartSync(w) PROVE Kinds
  <2>1. PICK C \in SUBSET Connections : C = {c \in Connections : Due(c)}
    OBVIOUS
  <2>2. Begin(w, "triggering", C) /\ \A c \in C : Due(c)
    BY <1>4, <2>1 DEF StartSync
  <2> QED BY <1>3, <2>2 DEF Taking
<1>5. ASSUME NEW w \in Workers, StartBackfill(w) PROVE Kinds
  <2>1. PICK C \in SUBSET Connections : C = Refreshed
    BY DEF Refreshed
  <2>2. Begin(w, "backfilling", C)
    BY <1>5, <2>1 DEF StartBackfill
  <2> QED BY <1>3, <2>2 DEF Taking
<1>6. ASSUME NEW w \in Workers, StartReconcile(w) PROVE Kinds
  <2>1. PICK C \in SUBSET Connections : Begin(w, "reconciling", C)
    BY <1>6 DEF StartReconcile
  <2> QED BY <1>3, <2>1 DEF Taking
<1>14. ASSUME NEW w \in Workers, StartRequest(w) PROVE Kinds
  <2>1. PICK c \in Connections : Begin(w, "requesting", {c})
    BY <1>14 DEF StartRequest
  <2>2. {c} \in SUBSET Connections
    OBVIOUS
  <2> QED BY <1>3, <2>1, <2>2 DEF Taking
<1>7. ASSUME NEW w \in Workers, WorkerStep(w) PROVE Kinds
  <2>1. RequestSync(w) \/ QueueJob(w) => Kinds
    BY RequestFacts, QueueFacts DEF Kinds
  <2> QED BY <1>7, <2>1, TriggerFacts, GetFacts, LatestJobFacts, SaveRowFacts, SaveStatusFacts DEF WorkerStep, Kinds
<1>8. ASSUME NEW w \in Workers, NEW j, Webhook(w, j) PROVE Kinds
  BY <1>8, WebhookFacts DEF Kinds
<1>9. ASSUME NEW w \in Workers, LoseWorker(w) PROVE Kinds
  BY <1>9, LoseFacts DEF Kinds
<1>10. ASSUME NEW j, JobEnds(j) PROVE JobsMoved
  BY <1>0, <1>10, EndsFacts
<1>11. SavePatch \/ (\E c \in Connections : StartPatch(c)) => Kinds
  BY PatchFacts DEF Kinds
<1>12. Elapse \/ (\E c \in Connections : TriggerByUser(c)) \/ (\E j \in JobIds : JobEnds(j)) => Kinds
  BY <1>1, <1>2, <1>10 DEF Kinds
<1>13. UNCHANGED vars => Kinds
  BY DEF Kinds
<1> QED BY <1>4, <1>5, <1>6, <1>7, <1>8, <1>9, <1>11, <1>12, <1>13, <1>14 DEF Next

(***************************************************************************)
(* The types and the shape of the memories.                                *)
(***************************************************************************)
LEMMA KindsMove ==
  ASSUME Base, Kinds
  PROVE  /\ JobsMove /\ now' \in Times /\ now' >= now /\ force' = force
         /\ disturbed \subseteq disturbed' /\ disturbed' \subseteq Connections
<1>0. TypeOK /\ now \in Times /\ now \in Nat /\ disturbed \subseteq Connections
  BY JobsFacts DEF Base, TypeOK
<1>1. UNCHANGED jobs => JobsMove
  BY <1>0 DEF TypeOK, JobsMove
<1>2. \A C \in SUBSET Connections : Meet(C) => disturbed \subseteq disturbed' /\ disturbed' \subseteq Connections
  BY <1>0 DEF Meet
<1>3. CASE UNCHANGED vars \/ Ticked \/ JobsMoved
  BY <1>0, <1>1, <1>3 DEF Ticked, JobsMoved, vars
<1>4. CASE \E c \in Connections : PatchStarted(c) \/ PatchSaved(c)
  <2>1. \A c \in Connections : {c} \in SUBSET Connections
    OBVIOUS
  <2> QED BY <1>0, <1>1, <1>2, <1>4, <2>1 DEF PatchStarted, PatchSaved
<1>5. CASE \E w \in Workers : Dropped(w)
  BY <1>0, <1>5 DEF Dropped
<1>6. ASSUME NEW w \in Workers, NEW me \in Memories, Began(w, me)
      PROVE  UNCHANGED <<jobs, now, force>> /\ disturbed \subseteq disturbed' /\ disturbed' \subseteq Connections
  <2>1. ConnsOf(me.todo) \in SUBSET Connections
    BY DEF Memories, Loads, ConnsOf
  <2> QED BY <1>2, <1>6, <2>1 DEF Began
<1>7. ASSUME NEW w \in Workers, NEW me \in Memories, NEW p \in Loads, Asked(w, me, p)
      PROVE  JobsMove /\ UNCHANGED <<now, force, disturbed>>
  BY <1>7 DEF Asked, Created
<1>8. ASSUME NEW w \in Workers, NEW me \in Memories,
             \/ \E p \in Loads, found \in SUBSET Updates : Passed(w, me, p, found)
             \/ \E u \in Updates : Hooked(w, me, u) \/ RowSaved(w, me, u)
             \/ \E s \in Copies : StatusSaved(w, me, s)
      PROVE  UNCHANGED <<jobs, now, force>> /\ disturbed \subseteq disturbed' /\ disturbed' \subseteq Connections
  BY <1>0, <1>8 DEF Passed, Hooked, RowSaved, StatusSaved
<1>9. ASSUME NEW w \in Workers, NEW me \in Memories, NEW u \in Updates, Requested(w, me, u)
      PROVE  JobsMove /\ UNCHANGED <<now, force>> /\ disturbed \subseteq disturbed' /\ disturbed' \subseteq Connections
  BY <1>9 DEF Requested, Created
<1>10. ASSUME NEW w \in Workers, NEW u \in Updates, Queued(w, u)
       PROVE  JobsMove /\ UNCHANGED <<now, force>> /\ disturbed \subseteq disturbed' /\ disturbed' \subseteq Connections
  BY <1>1, <1>10 DEF Queued
<1> QED BY <1>0, <1>1, <1>3, <1>4, <1>5, <1>6, <1>7, <1>8, <1>9, <1>10 DEF Kinds

\* A worker whose new memory is in shape leaves those of all in shape.
LEMMA ShapeKept ==
  ASSUME Base, JobsMove, NEW w \in Workers, NEW me \in Memories, Becomes(w, me), Shaped(me),
         me.pc = "asking" => me.job \in DOMAIN jobs' /\ jobs'[me.job].conn = me.conn
  PROVE  ShapeInv' /\ AskedInv'
<1>1. ShapeInv'
  BY DEF Base, ShapeInv, Becomes
<1>2. ASSUME NEW v \in Workers, worker'[v].pc = "asking"
      PROVE  worker'[v].job \in DOMAIN jobs' /\ jobs'[worker'[v].job].conn = worker'[v].conn
  <2>1. CASE v = w
    BY <1>2, <2>1 DEF Becomes
  <2>2. CASE v # w
    <3>1. worker'[v] = worker[v]
      BY <2>2 DEF Becomes
    <3>2. worker[v].job \in DOMAIN jobs /\ jobs[worker[v].job].conn = worker[v].conn
      BY <1>2, <3>1 DEF Base, AskedInv
    <3> QED BY <3>1, <3>2 DEF JobsMove
  <2> QED BY <2>1, <2>2
<1> QED BY <1>1, <1>2 DEF AskedInv

LEMMA ShapeSame ==
  ASSUME Base, JobsMove, UNCHANGED worker
  PROVE  ShapeInv' /\ AskedInv'
<1>1. ShapeInv'
  BY DEF Base, ShapeInv
<1>2. ASSUME NEW v \in Workers, worker'[v].pc = "asking"
      PROVE  worker'[v].job \in DOMAIN jobs' /\ jobs'[worker'[v].job].conn = worker'[v].conn
  <2>1. worker[v].job \in DOMAIN jobs /\ jobs[worker[v].job].conn = worker[v].conn
    BY <1>2 DEF Base, AskedInv
  <2> QED BY <2>1 DEF JobsMove
<1> QED BY <1>1, <1>2 DEF AskedInv

LEMMA AtRestShape == Shaped(AtRest)
BY DEF AtRest, Shaped, OnePer, Apart, Taking

LEMMA ShapeStep ==
  ASSUME Base, Kinds
  PROVE  ShapeInv' /\ AskedInv'
<1>0. JobsMove
  BY KindsMove
<1>1. CASE UNCHANGED worker
  BY <1>0, <1>1, ShapeSame
<1>2. ASSUME NEW w \in Workers, Dropped(w) PROVE ShapeInv' /\ AskedInv'
  <2>1. Becomes(w, AtRest) /\ AtRest.pc # "asking"
    BY <1>2 DEF Dropped, AtRest
  <2> QED BY <1>0, <2>1, ShapeKept, AtRestType, AtRestShape
<1>3. ASSUME NEW w \in Workers, NEW me \in Memories, Began(w, me) PROVE ShapeInv' /\ AskedInv'
  <2>1. Shaped(me) /\ Becomes(w, me) /\ me.pc # "asking"
    BY <1>3 DEF Began, Shaped, Taking, OnePer, Apart
  <2> QED BY <1>0, <2>1, ShapeKept
<1>4. ASSUME NEW w \in Workers, NEW me \in Memories, NEW p \in Loads, Asked(w, me, p) PROVE ShapeInv' /\ AskedInv'
  <2>1. Shaped(worker[w]) /\ worker[w].pc = "triggering"
    BY <1>4 DEF Base, ShapeInv, Asked
  <2>2. Shaped(me) /\ Becomes(w, me) /\ me.job \in DOMAIN jobs' /\ jobs'[me.job].conn = me.conn
    BY <1>4, <2>1 DEF Asked, Shaped, Taking, Created
  <2> QED BY <1>0, <2>2, ShapeKept
<1>5. ASSUME NEW w \in Workers, NEW me \in Memories, NEW p \in Loads, NEW found \in SUBSET Updates, Passed(w, me, p, found)
      PROVE  ShapeInv' /\ AskedInv'
  <2>1. Shaped(worker[w]) /\ Becomes(w, me) /\ p \in worker[w].todo
    BY <1>5 DEF Base, ShapeInv, Passed
  <2>2. me.todo = worker[w].todo \ {p} /\ me.got = worker[w].got \cup found /\ me.saved = {} /\ me.conn = 0
        /\ (\A u, v \in found : u = v) /\ (\A u \in found : u.conn = p.conn)
    BY <1>5 DEF Passed
  <2>3. OnePer(me.todo) /\ OnePer(me.got) /\ Apart(me.todo, me.got) /\ Apart(me.got, me.saved)
    BY <2>1, <2>2 DEF Shaped, OnePer, Apart
  <2>4. IF me.todo # {} THEN me.pc \in Passing ELSE IF me.got # {} THEN me.pc = "rows" ELSE me = AtRest
    BY <1>5 DEF Passed
  <2>5. Shaped(me) /\ me.pc # "asking"
    <3>1. CASE me.todo = {} /\ me.got = {}
      BY <2>4, <3>1, AtRestShape DEF AtRest
    <3>2. CASE me.todo # {} \/ me.got # {}
      BY <2>2, <2>3, <2>4, <3>2 DEF Shaped, Passing, Taking
    <3> QED BY <3>1, <3>2
  <2> QED BY <1>0, <2>1, <2>5, ShapeKept
<1>6. ASSUME NEW w \in Workers, NEW me \in Memories, NEW u \in Updates, Hooked(w, me, u) PROVE ShapeInv' /\ AskedInv'
  <2>1. Shaped(me) /\ Becomes(w, me) /\ me.pc # "asking"
    BY <1>6 DEF Hooked, Shaped, Taking, OnePer, Apart
  <2> QED BY <1>0, <2>1, ShapeKept
<1>7. ASSUME NEW w \in Workers, NEW me \in Memories, NEW u \in Updates, RowSaved(w, me, u) PROVE ShapeInv' /\ AskedInv'
  <2>1. Shaped(worker[w]) /\ worker[w].pc = "rows" /\ u \in worker[w].got /\ Becomes(w, me)
    BY <1>7 DEF Base, ShapeInv, RowSaved
  <2>2. PICK copy : copy = [conn |-> u.conn, job |-> u.job, status |-> u.status]
    OBVIOUS
  <2>3. /\ me.todo = worker[w].todo /\ me.conn = worker[w].conn /\ me.got = worker[w].got \ {u}
        /\ me.saved = worker[w].saved \cup {copy} /\ copy.conn = u.conn
        /\ me.pc = IF me.got = {} THEN "statuses" ELSE "rows"
    BY <1>7, <2>2 DEF RowSaved
  <2>4. OnePer(me.got) /\ Apart(me.todo, me.got) /\ Apart(me.got, me.saved)
    BY <2>1, <2>3 DEF Shaped, OnePer, Apart
  <2>5. Shaped(me) /\ me.pc # "asking"
    BY <2>1, <2>3, <2>4 DEF Shaped, Taking
  <2> QED BY <1>0, <2>1, <2>5, ShapeKept
<1>8. ASSUME NEW w \in Workers, NEW me \in Memories, NEW s \in Copies, StatusSaved(w, me, s) PROVE ShapeInv' /\ AskedInv'
  <2>1. Shaped(worker[w]) /\ worker[w].pc = "statuses" /\ Becomes(w, me)
    BY <1>8 DEF Base, ShapeInv, StatusSaved
  <2>2. CASE me = AtRest
    BY <1>0, <2>1, <2>2, ShapeKept, AtRestShape DEF AtRest
  <2>3. CASE me.saved # {}
    <3>1. Shaped(me) /\ me.pc # "asking"
      BY <1>8, <2>1, <2>3 DEF StatusSaved, Shaped, Taking, OnePer, Apart
    <3> QED BY <1>0, <2>1, <3>1, ShapeKept
  <2> QED BY <1>8, <2>2, <2>3 DEF StatusSaved
<1>9. UNCHANGED vars \/ Ticked \/ JobsMoved \/ (\E c \in Connections : PatchStarted(c) \/ PatchSaved(c)) => UNCHANGED worker
  BY DEF vars, Ticked, JobsMoved, PatchStarted, PatchSaved
<1>10. ASSUME NEW w \in Workers, NEW me \in Memories, NEW u \in Updates, Requested(w, me, u) PROVE ShapeInv' /\ AskedInv'
  <2>1. Shaped(me) /\ Becomes(w, me) /\ me.pc # "asking"
    BY <1>10 DEF Requested, Shaped, Taking, OnePer, Apart
  <2> QED BY <1>0, <2>1, ShapeKept
<1>11. ASSUME NEW w \in Workers, NEW u \in Updates, Queued(w, u) PROVE ShapeInv' /\ AskedInv'
  <2>1. Becomes(w, AtRest) /\ AtRest.pc # "asking"
    BY <1>11 DEF Queued, AtRest
  <2> QED BY <1>0, <2>1, ShapeKept, AtRestType, AtRestShape
<1> QED BY <1>1, <1>2, <1>3, <1>4, <1>5, <1>6, <1>7, <1>8, <1>9, <1>10, <1>11 DEF Kinds

LEMMA TypeStep ==
  ASSUME Base, Kinds
  PROVE  TypeOK'
<1>0. /\ TypeOK /\ JobsMove /\ now' \in Times /\ force' = force /\ disturbed' \subseteq Connections
      /\ jobs' \in Seq(AirbyteJobs) /\ Len(jobs') <= MaxJobs /\ force' \in BOOLEAN
  BY KindsMove DEF Base, TypeOK, JobsMove
<1>1. /\ row \in [Connections -> Rows] /\ worker \in [Workers -> Memories] /\ faults \in 0 .. MaxFaults
      /\ shown \in [conn : 0 .. NumConnections, job : 0 .. MaxJobs, status : Statuses]
      /\ editor \in [conn : 0 .. NumConnections, sync : Syncs]
      /\ triggered \in [Connections -> Times]
  BY <1>0 DEF TypeOK
<1>2. CASE UNCHANGED vars \/ Ticked \/ JobsMoved
  BY <1>0, <1>1, <1>2 DEF TypeOK, vars, Ticked, JobsMoved
<1>3. ASSUME NEW c \in Connections, PatchStarted(c) PROVE TypeOK'
  <2>1. c \in 0 .. NumConnections /\ row[c].sync \in Syncs
    BY <1>1, ConnectionsFacts DEF Rows
  <2> QED BY <1>0, <1>1, <1>3, <2>1 DEF TypeOK, PatchStarted
<1>4. ASSUME NEW c \in Connections, PatchSaved(c) PROVE TypeOK'
  <2>1. NoEdit \in [conn : 0 .. NumConnections, sync : Syncs]
    BY BoundsAreNumbers DEF NoEdit, Sync, Syncs, Statuses, Times
  <2> QED BY <1>0, <1>1, <1>4, <2>1 DEF TypeOK, PatchSaved
<1>5. ASSUME NEW w \in Workers, Dropped(w) PROVE TypeOK'
  BY <1>0, <1>1, <1>5 DEF TypeOK, Dropped, Becomes
<1>6. ASSUME NEW w \in Workers, NEW me \in Memories, NEW p \in Loads,
             Began(w, me) \/ Asked(w, me, p) \/ \E found \in SUBSET Updates : Passed(w, me, p, found)
      PROVE  TypeOK'
  <2>1. triggered' \in [Connections -> Times]
    <3>1. now \in Times
      BY <1>0 DEF TypeOK
    <3> QED BY <1>1, <1>6, <3>1 DEF Began, Asked, Passed
  <2> QED BY <1>0, <1>1, <1>6, <2>1 DEF TypeOK, Began, Asked, Passed, Becomes
<1>7. ASSUME NEW w \in Workers, NEW me \in Memories, NEW u \in Updates, Hooked(w, me, u) \/ RowSaved(w, me, u)
      PROVE  TypeOK'
  BY <1>0, <1>1, <1>7 DEF TypeOK, Hooked, RowSaved, Becomes
<1>10. ASSUME NEW w \in Workers, NEW me \in Memories, NEW u \in Updates, Requested(w, me, u) PROVE TypeOK'
  BY <1>0, <1>1, <1>10 DEF TypeOK, Requested, Becomes
<1>11. ASSUME NEW w \in Workers, NEW u \in Updates, Queued(w, u) PROVE TypeOK'
  BY <1>0, <1>1, <1>11 DEF TypeOK, Queued, Becomes
<1>8. ASSUME NEW w \in Workers, NEW me \in Memories, NEW s \in Copies, StatusSaved(w, me, s) PROVE TypeOK'
  <2>1. s \in [conn : 0 .. NumConnections, job : 0 .. MaxJobs, status : Statuses]
    BY ConnectionsFacts DEF Copies, JobStatuses, Statuses
  <2> QED BY <1>0, <1>1, <1>8, <2>1 DEF TypeOK, StatusSaved, Becomes
<1>9. ASSUME NEW w \in Workers, NEW me \in Memories, Began(w, me) PROVE TypeOK'
  <2>1. PICK p \in Loads : p \in me.todo
    BY <1>9 DEF Began, Memories
  <2> QED BY <1>6, <1>9
<1> QED BY <1>2, <1>3, <1>4, <1>5, <1>6, <1>7, <1>8, <1>9, <1>10, <1>11 DEF Kinds

LEMMA BaseStep ==
  ASSUME Base, Kinds
  PROVE  Base'
<1>1. ClockInv'
  <2>1. now \in Nat /\ now' \in Nat /\ now # 0 /\ \A j \in DOMAIN jobs : jobs[j].at # 0
    BY KindsMove, JobsFacts, ConnectionsFacts DEF Base, ClockInv
  <2>2. now' # 0
    BY <2>1, KindsMove
  <2>3. \A j \in DOMAIN jobs' : jobs'[j].at # 0
    BY <2>1, KindsMove DEF JobsMove
  <2> QED BY <2>2, <2>3 DEF ClockInv
<1>2. EditorInv'
  <2>1. EditorInv
    BY DEF Base
  <2>2. ASSUME NEW c \in Connections, PatchStarted(c) PROVE EditorInv'
    BY <2>2 DEF PatchStarted, EditorInv
  <2>3. ASSUME NEW c \in Connections, PatchSaved(c) PROVE EditorInv'
    BY <2>3 DEF PatchSaved, EditorInv, NoEdit
  <2>4. CASE UNCHANGED editor
    BY <2>1, <2>4 DEF EditorInv, NoEdit
  <2>5. UNCHANGED vars \/ Ticked \/ JobsMoved \/ (\E w \in Workers : Dropped(w) \/ \E u \in Updates : Queued(w, u)) => UNCHANGED editor
    BY DEF vars, Ticked, JobsMoved, Dropped, Queued
  <2>6. ASSUME NEW w \in Workers, NEW me \in Memories,
               \/ Began(w, me)
               \/ \E p \in Loads : Asked(w, me, p) \/ \E found \in SUBSET Updates : Passed(w, me, p, found)
               \/ \E u \in Updates : Hooked(w, me, u) \/ RowSaved(w, me, u) \/ Requested(w, me, u)
               \/ \E s \in Copies : StatusSaved(w, me, s)
        PROVE  UNCHANGED editor
    BY <2>6 DEF Began, Asked, Passed, Hooked, RowSaved, Requested, StatusSaved
  <2> QED BY <2>2, <2>3, <2>4, <2>5, <2>6 DEF Kinds
<1> QED BY <1>1, <1>2, ShapeStep, TypeStep DEF Base

LEMMA BaseInit ==
  ASSUME Init
  PROVE  Base
<1>0. now = 1 /\ jobs = <<>> /\ disturbed = {} /\ faults = 0 /\ force \in Forces /\ editor = NoEdit
  BY DEF Init
<1>1. /\ editor = NoEdit /\ row = [c \in Connections |-> [active |-> TRUE, sync |-> Sync(0, "", 0)]]
      /\ shown = [conn |-> 0, job |-> 0, status |-> ""] /\ worker = [w \in Workers |-> AtRest]
      /\ triggered = [c \in Connections |-> 0]
  BY DEF Init
<1>2. Sync(0, "", 0) \in Syncs
  BY BoundsAreNumbers DEF Sync, Syncs, Statuses, Times
<1>3. row \in [Connections -> Rows] /\ triggered \in [Connections -> Times]
  BY <1>1, <1>2, ConnectionsFacts DEF Rows
<1>4. editor \in [conn : 0 .. NumConnections, sync : Syncs]
  <2>1. 0 \in 0 .. NumConnections
    BY BoundsAreNumbers
  <2> QED BY <1>1, <1>2, <2>1 DEF NoEdit
<1>5. shown \in [conn : 0 .. NumConnections, job : 0 .. MaxJobs, status : Statuses]
  <2>1. 0 \in 0 .. NumConnections /\ 0 \in 0 .. MaxJobs /\ "" \in Statuses
    BY BoundsAreNumbers DEF Statuses
  <2> QED BY <1>1, <2>1
<1>6. worker \in [Workers -> Memories]
  BY <1>1, AtRestType
<1>7. jobs \in Seq(AirbyteJobs) /\ Len(jobs) = 0 /\ DOMAIN jobs = {}
  BY <1>0
<1>8. now \in Times /\ force \in BOOLEAN /\ faults \in 0 .. MaxFaults /\ Len(jobs) <= MaxJobs /\ disturbed \subseteq Connections
  BY <1>0, <1>7, BoundsAreNumbers, ConnectionsFacts
<1>9. TypeOK
  BY <1>3, <1>4, <1>5, <1>6, <1>7, <1>8 DEF TypeOK
<1>10. ShapeInv /\ AskedInv
  <2>1. \A w \in Workers : worker[w] = AtRest
    BY <1>1
  <2> QED BY <2>1, AtRestShape DEF ShapeInv, AskedInv, AtRest
<1>11. EditorInv /\ ClockInv
  BY <1>0, <1>7 DEF EditorInv, ClockInv
<1> QED BY <1>9, <1>10, <1>11 DEF Base

(***************************************************************************)
(* What rows say of jobs.                                                  *)
(***************************************************************************)
Told(c, j, status) ==
  /\ j \in DOMAIN jobs /\ jobs[j].conn = c
  /\ status \in Ended => status = jobs[j].status
ToldSync(c, sync) == sync.status # "" => Told(c, sync.job, sync.status)
\* Rows, the memories of workers and the PATCH under way are all copies of what Airbyte
\* said of some job of the connection.
TruthInv == ~force =>
  /\ \A c \in Connections, sync \in Syncs : row[c].sync = sync => ToldSync(c, sync)
  /\ \A c \in Connections, sync \in Syncs : editor.conn = c /\ editor.sync = sync => ToldSync(c, sync)
  /\ \A w \in Workers, u \in Updates : u \in worker[w].got => Told(u.conn, u.job, u.status)

LEMMA ToldStays ==
  ASSUME JobsMove
  PROVE  /\ \A c, j, status : Told(c, j, status) => Told(c, j, status)'
         /\ \A c, sync : ToldSync(c, sync) => ToldSync(c, sync)'
BY DEF JobsMove, Told, ToldSync

\* What Airbyte answers is true when it answers.
LEMMA AnswersTold ==
  ASSUME NEW u, NEW j, Answers(u, j)
  PROVE  Told(u.conn, u.job, u.status)
BY DEF Answers, Told

LEMMA TruthStep ==
  ASSUME Base, TruthInv, Kinds
  PROVE  TruthInv'
<1>0. JobsMove /\ force' = force /\ TypeOK
  BY KindsMove DEF Base
<1> SUFFICES ASSUME ~force PROVE TruthInv'
  BY <1>0 DEF TruthInv
<1>1. /\ \A c \in Connections, sync \in Syncs : row[c].sync = sync => ToldSync(c, sync)'
      /\ \A c \in Connections, sync \in Syncs : editor.conn = c /\ editor.sync = sync => ToldSync(c, sync)'
      /\ \A w \in Workers, u \in Updates : u \in worker[w].got => Told(u.conn, u.job, u.status)'
  BY <1>0, ToldStays DEF TruthInv
<1>2. ASSUME UNCHANGED <<row, editor>>, UNCHANGED worker PROVE TruthInv'
  BY <1>1, <1>2 DEF TruthInv
<1>3. ASSUME UNCHANGED <<row, editor>>, NEW w \in Workers, NEW me \in Memories, Becomes(w, me),
             \A u \in me.got : u \in worker[w].got \/ Told(u.conn, u.job, u.status)'
      PROVE  TruthInv'
  <2>1. \A v \in Workers, u \in Updates : u \in worker'[v].got => Told(u.conn, u.job, u.status)'
    BY <1>1, <1>3 DEF Becomes
  <2> QED BY <1>1, <1>3, <2>1 DEF TruthInv
<1>4. UNCHANGED vars \/ Ticked \/ JobsMoved => UNCHANGED <<row, editor>> /\ UNCHANGED worker
  BY DEF vars, Ticked, JobsMoved
<1>5. ASSUME NEW c \in Connections, PatchStarted(c) PROVE TruthInv'
  BY <1>1, <1>5 DEF PatchStarted, TruthInv
<1>6. ASSUME NEW c \in Connections, PatchSaved(c) PROVE TruthInv'
  <2>1. \A d \in Connections, sync \in Syncs : row'[d].sync = sync => ToldSync(d, sync)'
    BY <1>1, <1>6 DEF PatchSaved
  <2>2. \A d \in Connections : editor'.conn # d
    BY <1>6, ConnectionsFacts DEF PatchSaved, NoEdit
  <2>3. UNCHANGED worker
    BY <1>6 DEF PatchSaved
  <2> QED BY <1>1, <2>1, <2>2, <2>3 DEF TruthInv
<1>7. ASSUME NEW w \in Workers, Dropped(w) PROVE TruthInv'
  BY <1>3, <1>7, AtRestType DEF Dropped, AtRest
<1>8. ASSUME NEW w \in Workers, NEW me \in Memories, NEW p \in Loads, Asked(w, me, p) PROVE TruthInv'
  BY <1>3, <1>8 DEF Asked
<1>9. ASSUME NEW w \in Workers, NEW me \in Memories, Began(w, me) PROVE TruthInv'
  BY <1>3, <1>9 DEF Began
<1>10. ASSUME NEW w \in Workers, NEW me \in Memories, NEW p \in Loads, NEW found \in SUBSET Updates, Passed(w, me, p, found)
       PROVE  TruthInv'
  <2>1. \A u \in found : \E j : Answers(u, j)
    BY <1>10 DEF Passed, ForcedFailure
  <2>2. \A u \in found : Told(u.conn, u.job, u.status)'
    BY <1>0, <2>1, AnswersTold, ToldStays
  <2> QED BY <1>3, <1>10, <2>2 DEF Passed
<1>11. ASSUME NEW w \in Workers, NEW me \in Memories, NEW u \in Updates, Hooked(w, me, u) PROVE TruthInv'
  <2>1. Answers(u, u.job) /\ me.got = {u} /\ Becomes(w, me) /\ UNCHANGED <<row, editor>>
    BY <1>11 DEF Hooked
  <2>2. Told(u.conn, u.job, u.status)'
    BY <1>0, <2>1, AnswersTold, ToldStays
  <2> QED BY <1>3, <2>1, <2>2
<1>12. ASSUME NEW w \in Workers, NEW me \in Memories, NEW u \in Updates, RowSaved(w, me, u) PROVE TruthInv'
  <2>1. Told(u.conn, u.job, u.status)' /\ u.conn \in Connections
    BY <1>1, <1>12 DEF RowSaved, Updates
  <2>2. \A d \in Connections, sync \in Syncs : row'[d].sync = sync => ToldSync(d, sync)'
    <3>1. PICK new : new = Sync(u.job, u.status, SyncedAt(u))
      OBVIOUS
    <3>2. new.job = u.job /\ new.status = u.status
      BY <3>1 DEF Sync
    <3>3. ToldSync(u.conn, new)'
      BY <2>1, <3>2 DEF ToldSync
    <3>4. row'[u.conn].sync = new /\ \A d \in Connections : d # u.conn => row'[d] = row[d]
      BY <1>12, <3>1 DEF RowSaved
    <3> QED BY <1>1, <3>3, <3>4
  <2>3. \A v \in Workers, x \in Updates : x \in worker'[v].got => Told(x.conn, x.job, x.status)'
    BY <1>1, <1>12 DEF RowSaved, Becomes
  <2>4. UNCHANGED editor
    BY <1>12 DEF RowSaved
  <2> QED BY <1>1, <2>2, <2>3, <2>4 DEF TruthInv
<1>13. ASSUME NEW w \in Workers, NEW me \in Memories, NEW s \in Copies, StatusSaved(w, me, s) PROVE TruthInv'
  BY <1>3, <1>13 DEF StatusSaved
<1>14. ASSUME NEW w \in Workers, NEW me \in Memories, NEW u \in Updates, Requested(w, me, u) PROVE TruthInv'
  <2>1. Told(u.conn, u.job, u.status)'
    BY <1>14 DEF Requested, Created, Told, Ended
  <2> QED BY <1>3, <1>14, <2>1 DEF Requested
<1>15. ASSUME NEW w \in Workers, NEW u \in Updates, Queued(w, u) PROVE TruthInv'
  <2>1. Told(u.conn, u.job, u.status)' /\ u.conn \in Connections
    BY <1>1, <1>15 DEF Queued, Updates
  <2>2. PICK new : new = Sync(u.job, "queued", row[u.conn].sync.synced)
    OBVIOUS
  <2>3. new.job = u.job /\ new.status = "queued"
    BY <2>2 DEF Sync
  <2>4. ToldSync(u.conn, new)'
    BY <2>1, <2>3 DEF ToldSync, Told, Ended
  <2>5. row'[u.conn].sync = new /\ \A d \in Connections : d # u.conn => row'[d] = row[d]
    BY <1>15, <2>2 DEF Queued
  <2>6. \A d \in Connections, sync \in Syncs : row'[d].sync = sync => ToldSync(d, sync)'
    BY <1>1, <2>4, <2>5
  <2>7. \A v \in Workers, x \in Updates : x \in worker'[v].got => Told(x.conn, x.job, x.status)'
    BY <1>1, <1>15 DEF Queued, Becomes, AtRest
  <2>8. UNCHANGED editor
    BY <1>15 DEF Queued
  <2> QED BY <1>1, <2>6, <2>7, <2>8 DEF TruthInv
<1> QED BY <1>2, <1>4, <1>5, <1>6, <1>7, <1>8, <1>9, <1>10, <1>11, <1>12, <1>13, <1>14, <1>15 DEF Kinds

(***************************************************************************)
(* Connections that only one operation is at work on.                      *)
(***************************************************************************)
\* The connections a worker with me in memory is at work on.
HeldBy(me) == ConnsOf(me.todo \cup me.got \cup me.saved) \cup ({me.conn} \ {0})
Alone(c) ==
  /\ \A v, w \in Workers : c \in HeldBy(worker[v]) /\ c \in HeldBy(worker[w]) => v = w
  /\ \A w \in Workers : c \in HeldBy(worker[w]) => editor.conn # c
\* The PATCH, the copies a worker saved and, once it is done, the tenant's status agree
\* with the row.
Agree(c) ==
  /\ editor.conn = c => editor.sync = row[c].sync
  /\ \A w \in Workers, s \in Copies :
       s \in worker[w].saved /\ s.conn = c => row[c].sync.job = s.job /\ row[c].sync.status = s.status
  /\ shown.conn = c /\ (\A w \in Workers, s \in Copies : s \in worker[w].saved => s.conn # c) =>
       shown.job = row[c].sync.job /\ shown.status = row[c].sync.status
AgreeInv == \A c \in Connections \ disturbed : Alone(c) /\ Agree(c)

LEMMA HeldFacts ==
  ASSUME NEW me \in Memories, NEW c \in Connections
  PROVE  c \in HeldBy(me) <=> \/ \E x \in me.todo : x.conn = c
                              \/ \E x \in me.got : x.conn = c
                              \/ \E x \in me.saved : x.conn = c
                              \/ me.conn = c
BY ConnectionsFacts DEF HeldBy, ConnsOf

LEMMA BusyFacts ==
  ASSUME NEW c \in Connections
  PROVE  c \in Busy <=> editor.conn = c \/ \E w \in Workers : c \in HeldBy(worker[w])
<1>1. \A w \in Workers : Holds(w) = HeldBy(worker[w])
  BY DEF Holds, HeldBy
<1>2. c \in Busy <=> c \in {editor.conn} \ {0} \/ \E w \in Workers : c \in Holds(w)
  BY DEF Busy
<1> QED BY <1>1, <1>2, ConnectionsFacts

LEMMA AloneKept ==
  ASSUME NEW w \in Workers, NEW me \in Memories, Becomes(w, me), NEW c \in Connections, Alone(c),
         UNCHANGED editor, c \in HeldBy(me) => c \in HeldBy(worker[w]) \/ c \notin Busy
  PROVE  Alone(c)'
<1>1. \A v \in Workers : c \in HeldBy(worker'[v]) => c \in HeldBy(worker[v]) \/ (v = w /\ c \notin Busy)
  BY DEF Becomes
<1>2. c \notin Busy => editor.conn # c /\ \A v \in Workers : c \notin HeldBy(worker[v])
  BY BusyFacts
<1>3. \A u, v \in Workers : c \in HeldBy(worker'[u]) /\ c \in HeldBy(worker'[v]) => u = v
  BY <1>1, <1>2 DEF Alone
<1>4. \A v \in Workers : c \in HeldBy(worker'[v]) => editor.conn # c
  BY <1>1, <1>2 DEF Alone
<1> QED BY <1>3, <1>4 DEF Alone

LEMMA AloneStep ==
  ASSUME Base, AgreeInv, Kinds, NEW c \in Connections \ disturbed'
  PROVE  Alone(c)'
<1>0. TypeOK /\ c \in Connections /\ c \notin disturbed /\ Alone(c)
  BY KindsMove DEF Base, AgreeInv
<1>1. CASE UNCHANGED <<worker, editor>>
  BY <1>0, <1>1 DEF Alone
<1>2. UNCHANGED vars \/ Ticked \/ JobsMoved => UNCHANGED <<worker, editor>>
  BY DEF vars, Ticked, JobsMoved
<1>3. ASSUME NEW d \in Connections, PatchStarted(d) PROVE Alone(c)'
  <2>1. d = c => c \notin Busy
    BY <1>3 DEF PatchStarted, Meet
  <2>2. UNCHANGED worker /\ editor'.conn = d
    BY <1>3 DEF PatchStarted
  <2>3. d = c => \A w \in Workers : c \notin HeldBy(worker[w])
    BY <1>0, <2>1, BusyFacts
  <2> QED BY <1>0, <2>2, <2>3 DEF Alone
<1>4. ASSUME NEW d \in Connections, PatchSaved(d) PROVE Alone(c)'
  <2>1. UNCHANGED worker /\ editor'.conn # c
    BY <1>0, <1>4, ConnectionsFacts DEF PatchSaved, NoEdit
  <2> QED BY <1>0, <2>1 DEF Alone
<1>5. ASSUME NEW w \in Workers, Dropped(w) PROVE Alone(c)'
  <2>1. c \notin HeldBy(AtRest)
    BY <1>0, ConnectionsFacts DEF HeldBy, ConnsOf, AtRest
  <2> QED BY <1>0, <1>5, <2>1, AloneKept, AtRestType DEF Dropped
<1>6. ASSUME NEW w \in Workers, NEW me \in Memories, Began(w, me) PROVE Alone(c)'
  <2>1. c \in HeldBy(me) => c \in ConnsOf(me.todo)
    BY <1>0, <1>6, HeldFacts, ConnectionsFacts DEF Began, ConnsOf
  <2>2. c \in ConnsOf(me.todo) => c \notin Busy
    BY <1>6 DEF Began, Meet
  <2> QED BY <1>0, <1>6, <2>1, <2>2, AloneKept DEF Began
<1>7. ASSUME NEW w \in Workers, NEW me \in Memories, NEW p \in Loads, Asked(w, me, p) PROVE Alone(c)'
  <2>1. worker[w] \in Memories
    BY <1>0, MemoryFacts
  <2>2. c \in HeldBy(me) => c \in HeldBy(worker[w])
    BY <1>0, <1>7, <2>1, HeldFacts DEF Asked
  <2> QED BY <1>0, <1>7, <2>2, AloneKept DEF Asked
<1>8. ASSUME NEW w \in Workers, NEW me \in Memories, NEW p \in Loads, NEW found \in SUBSET Updates, Passed(w, me, p, found)
      PROVE  Alone(c)'
  <2>1. worker[w] \in Memories
    BY <1>0, MemoryFacts
  <2>2. c \in HeldBy(me) => c \in HeldBy(worker[w])
    BY <1>0, <1>8, <2>1, HeldFacts, ConnectionsFacts DEF Passed
  <2> QED BY <1>0, <1>8, <2>2, AloneKept DEF Passed
<1>9. ASSUME NEW w \in Workers, NEW me \in Memories, NEW u \in Updates, Hooked(w, me, u) PROVE Alone(c)'
  <2>1. c \in HeldBy(me) => c = u.conn
    BY <1>0, <1>9, HeldFacts, ConnectionsFacts DEF Hooked
  <2> QED BY <1>0, <1>9, <2>1, AloneKept DEF Hooked
<1>10. ASSUME NEW w \in Workers, NEW me \in Memories, NEW u \in Updates, RowSaved(w, me, u) PROVE Alone(c)'
  <2>1. worker[w] \in Memories
    BY <1>0, MemoryFacts
  <2>2. c \in HeldBy(me) => c \in HeldBy(worker[w])
    BY <1>0, <1>10, <2>1, HeldFacts DEF RowSaved
  <2> QED BY <1>0, <1>10, <2>2, AloneKept DEF RowSaved
<1>11. ASSUME NEW w \in Workers, NEW me \in Memories, NEW s \in Copies, StatusSaved(w, me, s) PROVE Alone(c)'
  <2>1. worker[w] \in Memories
    BY <1>0, MemoryFacts
  <2>2. c \in HeldBy(me) => c \in HeldBy(worker[w])
    BY <1>0, <1>11, <2>1, HeldFacts DEF StatusSaved
  <2> QED BY <1>0, <1>11, <2>2, AloneKept DEF StatusSaved
<1>12. ASSUME NEW w \in Workers, NEW me \in Memories, NEW u \in Updates, Requested(w, me, u) PROVE Alone(c)'
  <2>1. c \notin HeldBy(me)
    BY <1>0, <1>12, HeldFacts, ConnectionsFacts DEF Requested
  <2> QED BY <1>0, <1>12, <2>1, AloneKept DEF Requested
<1>13. ASSUME NEW w \in Workers, NEW u \in Updates, Queued(w, u) PROVE Alone(c)'
  <2>1. c \notin HeldBy(AtRest)
    BY <1>0, ConnectionsFacts DEF HeldBy, ConnsOf, AtRest
  <2> QED BY <1>0, <1>13, <2>1, AloneKept, AtRestType DEF Queued
<1> QED BY <1>1, <1>2, <1>3, <1>4, <1>5, <1>6, <1>7, <1>8, <1>9, <1>10, <1>11, <1>12, <1>13 DEF Kinds

LEMMA AgreeKept ==
  ASSUME NEW c, Agree(c), row'[c].sync = row[c].sync, UNCHANGED <<editor, shown>>,
         \A w \in Workers, s \in Copies :
           s.conn = c => (s \in worker'[w].saved <=> s \in worker[w].saved)
  PROVE  Agree(c)'
BY DEF Agree

\* Only the saving of rows and statuses changes what a worker saved.
LEMMA SavedKept ==
  ASSUME Base, NEW w \in Workers, NEW me \in Memories, Becomes(w, me), me.saved = {}, worker[w].saved = {}
  PROVE  \A v \in Workers : worker'[v].saved = worker[v].saved
BY DEF Becomes

LEMMA AgreeStep ==
  ASSUME Base, AgreeInv, Kinds, NEW c \in Connections \ disturbed'
  PROVE  Agree(c)'
<1>0. /\ TypeOK /\ c \in Connections /\ c \notin disturbed /\ Alone(c) /\ Agree(c)
      /\ \A w \in Workers : Shaped(worker[w]) /\ worker[w] \in Memories
  BY KindsMove, MemoryFacts DEF Base, AgreeInv, ShapeInv
<1>1. CASE UNCHANGED <<worker, editor, shown>> /\ row'[c] = row[c]
  BY <1>0, <1>1, AgreeKept
<1>2. UNCHANGED vars \/ Ticked \/ JobsMoved => UNCHANGED <<worker, editor, shown>> /\ row'[c] = row[c]
  BY DEF vars, Ticked, JobsMoved
<1>3. ASSUME NEW d \in Connections, PatchStarted(d) PROVE Agree(c)'
  <2>1. /\ editor'.conn = d /\ (d = c => editor'.sync = row[c].sync) /\ UNCHANGED <<worker, shown>>
        /\ row'[c] = row[c]
    BY <1>3 DEF PatchStarted
  <2> QED BY <1>0, <2>1 DEF Agree
<1>4. ASSUME NEW d \in Connections, PatchSaved(d) PROVE Agree(c)'
  <2>1. editor'.conn # c /\ UNCHANGED <<worker, shown>>
    BY <1>0, <1>4, ConnectionsFacts DEF PatchSaved, NoEdit
  <2>2. row'[c].sync = row[c].sync
    BY <1>0, <1>4 DEF PatchSaved, Agree
  <2> QED BY <1>0, <2>1, <2>2 DEF Agree
<1>5. ASSUME NEW w \in Workers, Dropped(w) PROVE Agree(c)'
  <2>1. \A s \in worker[w].saved : s.conn \in disturbed'
    BY <1>5 DEF Dropped, ConnsOf
  <2>2. \A v \in Workers, s \in Copies : s.conn = c => (s \in worker'[v].saved <=> s \in worker[v].saved)
    BY <1>5, <2>1 DEF Dropped, Becomes, AtRest
  <2> QED BY <1>0, <1>5, <2>2, AgreeKept DEF Dropped
<1>6. ASSUME NEW w \in Workers, NEW me \in Memories,
             \/ Began(w, me)
             \/ \E p \in Loads : Asked(w, me, p) \/ \E found \in SUBSET Updates : Passed(w, me, p, found)
             \/ \E u \in Updates : Hooked(w, me, u) \/ Requested(w, me, u)
      PROVE  Agree(c)'
  <2>1. Becomes(w, me) /\ UNCHANGED <<row, editor, shown>> /\ (me.saved = {} \/ me.saved = worker[w].saved)
        /\ worker[w].pc \in Taking \cup {"idle", "asking"}
    BY <1>6 DEF Began, Asked, Passed, Hooked, Requested, Passing, Taking
  <2>2. worker[w].saved = {}
    BY <1>0, <2>1 DEF Shaped, AtRest
  <2>3. \A v \in Workers : worker'[v].saved = worker[v].saved
    BY <2>1, <2>2, SavedKept
  <2> QED BY <1>0, <2>1, <2>3, AgreeKept
<1>7. ASSUME NEW w \in Workers, NEW me \in Memories, NEW u \in Updates, RowSaved(w, me, u) PROVE Agree(c)'
  <2>1. PICK copy \in Copies : copy = [conn |-> u.conn, job |-> u.job, status |-> u.status]
    BY DEF Updates, Copies
  <2>2. /\ Becomes(w, me) /\ me.saved = worker[w].saved \cup {copy} /\ u \in worker[w].got
        /\ UNCHANGED <<editor, shown>> /\ copy.conn = u.conn /\ copy.job = u.job /\ copy.status = u.status
    BY <1>7, <2>1 DEF RowSaved
  <2>3. CASE u.conn # c
    <3>1. row'[c] = row[c]
      BY <1>0, <1>7, <2>3 DEF RowSaved
    <3>2. \A v \in Workers, s \in Copies : s.conn = c => (s \in worker'[v].saved <=> s \in worker[v].saved)
      BY <2>2, <2>3 DEF Becomes
    <3> QED BY <1>0, <2>2, <3>1, <3>2, AgreeKept
  <2>4. CASE u.conn = c
    <3>1. row'[c].sync.job = u.job /\ row'[c].sync.status = u.status
      BY <1>7, <2>4 DEF RowSaved, Sync
    <3>2. c \in HeldBy(worker[w]) /\ \A s \in worker[w].saved : s.conn # c
      BY <1>0, <2>2, <2>4, HeldFacts DEF Shaped, Apart
    <3>3. editor.conn # c /\ \A v \in Workers : v # w => c \notin HeldBy(worker[v])
      BY <1>0, <3>2 DEF Alone
    <3>4. \A v \in Workers, s \in Copies : s \in worker'[v].saved /\ s.conn = c => s = copy
      BY <1>0, <2>2, <3>2, <3>3, HeldFacts DEF Becomes
    <3>5. copy \in worker'[w].saved
      BY <2>2 DEF Becomes
    <3> QED BY <2>2, <2>4, <3>1, <3>3, <3>4, <3>5 DEF Agree
  <2> QED BY <2>3, <2>4
<1>8. ASSUME NEW w \in Workers, NEW me \in Memories, NEW s \in Copies, StatusSaved(w, me, s) PROVE Agree(c)'
  <2>1. /\ Becomes(w, me) /\ me.saved = worker[w].saved \ {s} /\ s \in worker[w].saved /\ shown' = s
        /\ UNCHANGED <<row, editor>>
    BY <1>8 DEF StatusSaved
  <2>2. \A v \in Workers, x \in Copies : x \in worker'[v].saved => x \in worker[v].saved
    BY <2>1 DEF Becomes
  <2>3. s.conn = c => row[c].sync.job = s.job /\ row[c].sync.status = s.status
    BY <1>0, <2>1 DEF Agree
  <2> QED BY <1>0, <2>1, <2>2, <2>3 DEF Agree
<1>9. ASSUME NEW w \in Workers, NEW u \in Updates, Queued(w, u) PROVE Agree(c)'
  <2>1. u.conn # c /\ row'[c] = row[c] /\ Becomes(w, AtRest) /\ UNCHANGED <<editor, shown>>
    BY <1>0, <1>9 DEF Queued
  <2>2. worker[w].saved = {} /\ AtRest.saved = {}
    BY <1>0, <1>9 DEF Queued, Shaped, AtRest
  <2>3. \A v \in Workers : worker'[v].saved = worker[v].saved
    BY <2>1, <2>2, SavedKept, AtRestType
  <2> QED BY <1>0, <2>1, <2>3, AgreeKept
<1> QED BY <1>1, <1>2, <1>3, <1>4, <1>5, <1>6, <1>7, <1>8, <1>9 DEF Kinds

(***************************************************************************)
(* The interval of the schedule.                                           *)
(***************************************************************************)
\* Every job of c from j on was started or ended after the scheduler triggered c.
Since(c, j) == \A i \in DOMAIN jobs : i >= j /\ jobs[i].conn = c => jobs[i].at >= triggered[c]
FreshRow(c) == row[c].sync.synced >= triggered[c] /\ Since(c, row[c].sync.job)
Underway(c) == \E w \in Workers : worker[w].conn = c \/ \E u \in worker[w].got : u.conn = c
\* A row, or the update that a worker is about to store in it, is not older than the last
\* trigger of its connection, nor will the updates of its job be; and a worker that is to
\* trigger it has the row's own time in memory.
Fresh(c) ==
  /\ FreshRow(c) \/ Underway(c)
  /\ \A w \in Workers : worker[w].conn = c => Since(c, worker[w].job)
  /\ \A w \in Workers, u \in Updates : u \in worker[w].got /\ u.conn = c =>
       u.at # 0 /\ u.at >= triggered[c] /\ Since(c, u.job)
  /\ \A w \in Workers, p \in Loads : p \in worker[w].todo /\ p.conn = c => p.synced = row[c].sync.synced
FreshInv == \A c \in Connections \ disturbed : Fresh(c)
\* The scheduler left a job of each connection it triggered, and no time is in the future.
TriggersInv ==
  \A c \in Connections :
    /\ triggered[c] <= now
    /\ triggered[c] # 0 => \E j \in DOMAIN jobs : jobs[j].conn = c /\ Since(c, j)
\* What a worker is to trigger was due when the pass began, and still is.
DueInv ==
  \A w \in Workers, p \in Loads :
    p \in worker[w].todo /\ worker[w].pc \in {"triggering", "asking"} =>
      p.synced = 0 \/ p.synced + Interval <= now

LEMMA SinceStays ==
  ASSUME Base, JobsMove, NEW c \in Connections, triggered'[c] = triggered[c], triggered[c] <= now
  PROVE  \A j \in Nat : Since(c, j) => Since(c, j)'
<1> SUFFICES ASSUME NEW j \in Nat, Since(c, j), NEW i \in DOMAIN jobs', i >= j, jobs'[i].conn = c
             PROVE  jobs'[i].at >= triggered[c]
  BY DEF Since
<1>1. CASE i \in DOMAIN jobs
  <2>1. jobs[i].conn = c /\ jobs'[i].at \in {jobs[i].at, now} /\ jobs[i].at >= triggered[c]
    BY <1>1 DEF JobsMove, Since
  <2> QED BY <2>1
<1>2. CASE i \notin DOMAIN jobs
  BY <1>2 DEF JobsMove
<1> QED BY <1>1, <1>2

\* A connection's latest job is not older than its last trigger.
LEMMA LatestSince ==
  ASSUME Base, TriggersInv, NEW c \in Connections
  PROVE  Since(c, Latest(c))
<1>1. TypeOK /\ jobs \in Seq(AirbyteJobs) /\ triggered \in [Connections -> Times]
  BY DEF Base, TypeOK
<1> SUFFICES ASSUME NEW i \in DOMAIN jobs, i >= Latest(c), jobs[i].conn = c
             PROVE  jobs[i].at >= triggered[c]
  BY DEF Since
<1>2. jobs[i].at \in Nat /\ triggered[c] \in Nat
  BY <1>1, JobsFacts, ConnectionsFacts
<1>3. CASE triggered[c] = 0
  BY <1>2, <1>3
<1>4. CASE triggered[c] # 0
  <2>1. PICK j \in DOMAIN jobs : jobs[j].conn = c /\ Since(c, j)
    BY <1>4 DEF TriggersInv
  <2>2. j <= Latest(c) /\ j \in Nat /\ i \in Nat /\ Latest(c) \in Nat
    BY <1>1, <2>1, LatestFacts, JobsFacts
  <2>3. i >= j
    BY <2>2
  <2> QED BY <2>1, <2>3 DEF Since
<1> QED BY <1>3, <1>4

LEMMA TriggersStep ==
  ASSUME Base, TriggersInv, Kinds
  PROVE  TriggersInv'
<1>0. /\ TypeOK /\ JobsMove /\ now' >= now /\ now \in Nat /\ now' \in Nat /\ TypeOK'
      /\ triggered \in [Connections -> Times]
  BY KindsMove, JobsFacts, TypeStep, ConnectionsFacts DEF Base, TypeOK
<1>1. ASSUME NEW c \in Connections
      PROVE  triggered'[c] = triggered[c] \/ (triggered'[c] = now /\ Created(c))
  <2>1. UNCHANGED vars \/ Ticked \/ JobsMoved \/ (\E d \in Connections : PatchStarted(d) \/ PatchSaved(d)) => UNCHANGED triggered
    BY DEF vars, Ticked, JobsMoved, PatchStarted, PatchSaved
  <2>2. ASSUME NEW w \in Workers, NEW me \in Memories,
               \/ Began(w, me)
               \/ \E p \in Loads, found \in SUBSET Updates : Passed(w, me, p, found)
               \/ \E u \in Updates : Hooked(w, me, u) \/ RowSaved(w, me, u) \/ Requested(w, me, u)
               \/ \E s \in Copies : StatusSaved(w, me, s)
        PROVE  UNCHANGED triggered
    BY <2>2 DEF Began, Passed, Hooked, RowSaved, Requested, StatusSaved
  <2>5. ASSUME NEW w \in Workers, NEW u \in Updates, Queued(w, u) PROVE UNCHANGED triggered
    BY <2>5 DEF Queued
  <2>3. ASSUME NEW w \in Workers, NEW me \in Memories, NEW p \in Loads, Asked(w, me, p) PROVE <1>1!2
    BY <1>0, <2>3 DEF Asked
  <2>4. ASSUME NEW w \in Workers, Dropped(w) PROVE <1>1!2
    BY <2>4 DEF Dropped
  <2> QED BY <2>1, <2>2, <2>3, <2>4, <2>5 DEF Kinds
<1> SUFFICES ASSUME NEW c \in Connections
             PROVE  /\ triggered'[c] <= now'
                    /\ triggered'[c] # 0 => \E j \in DOMAIN jobs' : jobs'[j].conn = c /\ Since(c, j)'
  BY DEF TriggersInv
<1>2. CASE triggered'[c] = triggered[c]
  <2>1. triggered[c] \in Nat /\ triggered[c] <= now
    BY <1>0, ConnectionsFacts DEF TriggersInv
  <2>2. ASSUME NEW j \in DOMAIN jobs, jobs[j].conn = c, Since(c, j)
        PROVE  j \in DOMAIN jobs' /\ jobs'[j].conn = c /\ Since(c, j)'
    <3>1. j \in Nat
      BY <1>0, JobsFacts
    <3>2. Since(c, j)'
      BY <1>0, <1>2, <2>1, <2>2, <3>1, SinceStays
    <3> QED BY <1>0, <2>2, <3>2 DEF JobsMove
  <2> QED BY <1>0, <1>2, <2>1, <2>2 DEF TriggersInv
<1>3. CASE triggered'[c] = now /\ Created(c)
  <2>1. PICK j : j = Len(jobs) + 1
    OBVIOUS
  <2>2. j \in DOMAIN jobs' /\ jobs'[j].conn = c /\ jobs'[j].at = now /\ DOMAIN jobs' = 1 .. j
    BY <1>0, <1>3, <2>1, JobsFacts DEF Created, JobsMove
  <2>3. \A i \in DOMAIN jobs' : i >= j => i = j
    BY <1>0, <2>1, <2>2, JobsFacts
  <2>4. Since(c, j)'
    BY <1>0, <1>3, <2>2, <2>3 DEF Since
  <2> QED BY <1>0, <1>3, <2>2, <2>4
<1> QED BY <1>1, <1>2, <1>3

LEMMA DueStep ==
  ASSUME Base, DueInv, Kinds
  PROVE  DueInv'
<1>0. TypeOK /\ now' >= now /\ now \in Nat /\ now' \in Nat /\ Interval \in Nat
  BY KindsMove, JobsFacts, BoundsAreNumbers, ConnectionsFacts DEF Base
<1>1. \A w \in Workers, p \in Loads :
        p \in worker[w].todo /\ worker[w].pc \in {"triggering", "asking"} =>
          p.synced = 0 \/ p.synced + Interval <= now'
  <2>1. \A p \in Loads : p.synced \in Nat
    BY ConnectionsFacts DEF Loads
  <2> QED BY <1>0, <2>1 DEF DueInv
<1>2. CASE UNCHANGED worker
  BY <1>1, <1>2 DEF DueInv
<1>3. ASSUME NEW w \in Workers, NEW me \in Memories, Becomes(w, me),
             me.pc \in {"triggering", "asking"} =>
               \A p \in me.todo : \/ p \in worker[w].todo /\ worker[w].pc \in {"triggering", "asking"}
                                  \/ p.synced = 0 \/ p.synced + Interval <= now'
      PROVE  DueInv'
  BY <1>1, <1>3 DEF DueInv, Becomes
<1>4. UNCHANGED vars \/ Ticked \/ JobsMoved \/ (\E c \in Connections : PatchStarted(c) \/ PatchSaved(c)) => UNCHANGED worker
  BY DEF vars, Ticked, JobsMoved, PatchStarted, PatchSaved
<1>5. ASSUME NEW w \in Workers, Dropped(w) PROVE DueInv'
  <2>1. AtRest.pc \notin {"triggering", "asking"}
    BY DEF AtRest
  <2> QED BY <1>3, <1>5, <2>1, AtRestType DEF Dropped
<1>6. ASSUME NEW w \in Workers, NEW me \in Memories, Began(w, me) PROVE DueInv'
  BY <1>3, <1>6 DEF Began, Taking
<1>7. ASSUME NEW w \in Workers, NEW me \in Memories, NEW p \in Loads, Asked(w, me, p) PROVE DueInv'
  BY <1>3, <1>7 DEF Asked
<1>8. ASSUME NEW w \in Workers, NEW me \in Memories, NEW p \in Loads, NEW found \in SUBSET Updates, Passed(w, me, p, found)
      PROVE  DueInv'
  <2>1. me.pc \in {"triggering", "asking"} => me.pc = "triggering" /\ me.todo # {}
    BY <1>8 DEF Passed, Passing, AtRest
  <2> QED BY <1>3, <1>8, <2>1 DEF Passed
<1>9. ASSUME NEW w \in Workers, NEW me \in Memories,
             \/ \E u \in Updates : Hooked(w, me, u) \/ RowSaved(w, me, u) \/ Requested(w, me, u)
             \/ \E s \in Copies : StatusSaved(w, me, s)
      PROVE  DueInv'
  <2>1. Becomes(w, me) /\ me.pc \notin {"triggering", "asking"}
    BY <1>9 DEF Hooked, RowSaved, Requested, StatusSaved, AtRest
  <2> QED BY <1>3, <2>1
<1>10. ASSUME NEW w \in Workers, NEW u \in Updates, Queued(w, u) PROVE DueInv'
  <2>1. AtRest.pc \notin {"triggering", "asking"}
    BY DEF AtRest
  <2> QED BY <1>3, <1>10, <2>1, AtRestType DEF Queued
<1> QED BY <1>2, <1>3, <1>4, <1>5, <1>6, <1>7, <1>8, <1>9, <1>10 DEF Kinds

\* A worker, and no other, is at work on an undisturbed connection.
LEMMA AloneFacts ==
  ASSUME Base, AgreeInv, NEW c \in Connections \ disturbed, NEW w \in Workers, c \in HeldBy(worker[w])
  PROVE  \A v \in Workers : v # w =>
           /\ worker[v].conn # c
           /\ \A p \in worker[v].todo : p.conn # c
           /\ \A u \in worker[v].got : u.conn # c
<1>1. \A v \in Workers : worker[v] \in Memories /\ (v # w => c \notin HeldBy(worker[v]))
  BY MemoryFacts DEF Base, AgreeInv, Alone
<1> QED BY <1>1, HeldFacts

\* When nothing that the connection depends on changes, it stays fresh.
LEMMA FreshKept ==
  ASSUME Base, TriggersInv, NEW c \in Connections, Fresh(c), JobsMove, triggered'[c] = triggered[c],
         row'[c].sync = row[c].sync,
         \A w \in Workers :
           /\ worker'[w].conn = c => worker[w].conn = c /\ worker'[w].job = worker[w].job
           /\ worker[w].conn = c => worker'[w].conn = c
           /\ \A u \in Updates : u.conn = c => (u \in worker'[w].got <=> u \in worker[w].got)
           /\ \A p \in Loads : p.conn = c /\ p \in worker'[w].todo =>
                p \in worker[w].todo \/ p.synced = row[c].sync.synced
  PROVE  Fresh(c)'
<1>0. /\ TypeOK /\ \A w \in Workers : worker[w].job \in Nat /\ worker[w].got \subseteq Updates
      /\ row[c].sync.job \in Nat /\ \A u \in Updates : u.job \in Nat
  BY MemoryFacts, BoundsAreNumbers DEF Base, TypeOK, Rows, Syncs, Updates
<1>1. \A j \in Nat : Since(c, j) => Since(c, j)'
  BY SinceStays DEF TriggersInv
<1>2. FreshRow(c) => FreshRow(c)'
  BY <1>0, <1>1 DEF FreshRow
<1>3. Underway(c) => Underway(c)'
  BY <1>0 DEF Underway
<1>4. ASSUME NEW w \in Workers, worker'[w].conn = c
      PROVE  Since(c, worker[w].job)'
  <2>1. PICK j \in Nat : j = worker[w].job
    BY <1>0
  <2>2. Since(c, j)' /\ worker'[w].job = j
    BY <1>1, <1>4, <2>1 DEF Fresh
  <2> QED BY <2>2 DEF Since
<1>5. \A w \in Workers, u \in Updates : u \in worker'[w].got /\ u.conn = c =>
        u.at # 0 /\ u.at >= triggered'[c] /\ Since(c, u.job)'
  BY <1>0, <1>1 DEF Fresh
<1>6. \A w \in Workers, p \in Loads : p \in worker'[w].todo /\ p.conn = c => p.synced = row'[c].sync.synced
  BY DEF Fresh
<1> QED BY <1>2, <1>3, <1>4, <1>5, <1>6 DEF Fresh

\* What Airbyte answers of a job that is as young as the last trigger.
LEMMA AnswersFresh ==
  ASSUME Base, NEW u \in Updates, NEW j \in Nat, Answers(u, j), u.at # 0, Since(u.conn, j)
  PROVE  u.at >= triggered[u.conn] /\ Since(u.conn, u.job)
<1>1. j \in DOMAIN jobs /\ jobs[j].conn = u.conn /\ u.at = jobs[j].at /\ u.job = j
  BY DEF Answers
<1>2. jobs[j].at >= triggered[u.conn]
  BY <1>1 DEF Since
<1> QED BY <1>1, <1>2

\* A row is fresh while nobody has an update for it.
LEMMA RestFresh ==
  ASSUME NEW c, Fresh(c), \A w \in Workers : worker[w].conn # c /\ \A u \in worker[w].got : u.conn # c
  PROVE  FreshRow(c)
BY DEF Fresh, Underway

\* The connection of a pass has a fresh row until Airbyte answers about it.
LEMMA TodoFresh ==
  ASSUME Base, AgreeInv, FreshInv, NEW c \in Connections \ disturbed, NEW w \in Workers,
         NEW p \in worker[w].todo, p.conn = c, worker[w].conn # c
  PROVE  FreshRow(c)
<1>1. Fresh(c) /\ worker[w] \in Memories /\ Shaped(worker[w])
  BY MemoryFacts DEF Base, FreshInv, ShapeInv
<1>2. c \in HeldBy(worker[w])
  BY <1>1, HeldFacts
<1>3. \A u \in worker[w].got : u.conn # c
  BY <1>1 DEF Shaped, Apart
<1>4. \A v \in Workers : worker[v].conn # c /\ \A u \in worker[v].got : u.conn # c
  BY <1>2, <1>3, AloneFacts
<1> QED BY <1>1, <1>4, RestFresh

LEMMA AskedFresh ==
  ASSUME Base, AgreeInv, FreshInv, TriggersInv, NEW c \in Connections \ disturbed',
         NEW w \in Workers, NEW me \in Memories, NEW p \in Loads, Asked(w, me, p)
  PROVE  Fresh(c)'
<1>0. /\ TypeOK /\ c \in Connections \ disturbed /\ Fresh(c) /\ worker[w] \in Memories /\ Shaped(worker[w])
      /\ JobsMove /\ UNCHANGED <<row, disturbed>> /\ triggered \in [Connections -> Times]
      /\ p \in worker[w].todo /\ worker[w].conn = 0 /\ Becomes(w, me) /\ me.conn = p.conn
      /\ me.todo = worker[w].todo /\ me.got = worker[w].got /\ p.conn \in Connections
  BY MemoryFacts DEF Base, FreshInv, ShapeInv, Asked, Created, TypeOK, Shaped, Loads
<1>1. CASE p.conn # c
  <2>1. triggered'[c] = triggered[c]
    BY <1>0, <1>1 DEF Asked
  <2>2. \A v \in Workers :
           /\ worker'[v].conn = c => worker[v].conn = c /\ worker'[v].job = worker[v].job
           /\ worker[v].conn = c => worker'[v].conn = c
           /\ worker'[v].got = worker[v].got /\ worker'[v].todo = worker[v].todo
    BY <1>0, <1>1, ConnectionsFacts DEF Becomes
  <2> QED BY <1>0, <2>1, <2>2, FreshKept
<1>2. CASE p.conn = c
  <2>1. PICK j : j = Len(jobs) + 1
    OBVIOUS
  <2>2. /\ j \in DOMAIN jobs' /\ jobs'[j].conn = c /\ jobs'[j].at = now /\ DOMAIN jobs' = 1 .. j
        /\ me.job = j /\ triggered'[c] = now
    BY <1>0, <1>2, <2>1, JobsFacts DEF Asked, Created, JobsMove
  <2>3. now \in Nat /\ \A i \in DOMAIN jobs' : i >= j => i = j
    BY <1>0, <2>1, <2>2, JobsFacts
  <2>4. Since(c, j)'
    BY <2>2, <2>3 DEF Since
  <2>5. c \in HeldBy(worker[w])
    BY <1>0, <1>2, HeldFacts
  <2>6. /\ \A v \in Workers, u \in Updates : u \in worker'[v].got => u.conn # c
        /\ \A v \in Workers : v # w => worker'[v].conn # c
    BY <1>0, <1>2, <2>5, AloneFacts DEF Becomes, Shaped, Apart
  <2>7. \A v \in Workers, q \in Loads : q \in worker'[v].todo /\ q.conn = c => q.synced = row'[c].sync.synced
    BY <1>0 DEF Fresh, Becomes
  <2>8. worker'[w].conn = c /\ worker'[w].job = j
    BY <1>0, <1>2, <2>2 DEF Becomes
  <2>9. \A v \in Workers : worker'[v].conn = c => Since(c, worker[v].job)'
    BY <2>4, <2>6, <2>8 DEF Since
  <2>10. Underway(c)'
    BY <2>8 DEF Underway
  <2> QED BY <2>6, <2>7, <2>9, <2>10 DEF Fresh
<1> QED BY <1>1, <1>2

LEMMA PassedFresh ==
  ASSUME Base, AgreeInv, FreshInv, TriggersInv, NEW c \in Connections \ disturbed',
         NEW w \in Workers, NEW me \in Memories, NEW p \in Loads, NEW found \in SUBSET Updates,
         Passed(w, me, p, found)
  PROVE  Fresh(c)'
<1>0. /\ TypeOK /\ c \in Connections \ disturbed /\ Fresh(c) /\ worker[w] \in Memories /\ Shaped(worker[w])
      /\ UNCHANGED <<jobs, row, triggered, now>> /\ triggered \in [Connections -> Times]
      /\ p \in worker[w].todo /\ Becomes(w, me) /\ me.conn = 0 /\ p.conn \in Connections
      /\ me.todo = worker[w].todo \ {p} /\ me.got = worker[w].got \cup found
      /\ \A u \in found : u.conn = p.conn
      /\ worker[w].pc = "asking" => p.conn = worker[w].conn /\ found # {}
      /\ worker[w].pc # "asking" => worker[w].conn = 0
  BY MemoryFacts DEF Base, FreshInv, ShapeInv, Passed, TypeOK, Shaped, Loads
<1>1. JobsMove /\ c # 0
  BY <1>0, ConnectionsFacts DEF JobsMove, TypeOK
<1>2. CASE p.conn # c
  <2>1. \A v \in Workers :
           /\ worker'[v].conn = c => worker[v].conn = c /\ worker'[v].job = worker[v].job
           /\ worker[v].conn = c => worker'[v].conn = c
           /\ \A u \in Updates : u.conn = c => (u \in worker'[v].got <=> u \in worker[v].got)
           /\ \A q \in Loads : q.conn = c /\ q \in worker'[v].todo => q \in worker[v].todo
    BY <1>0, <1>1, <1>2 DEF Becomes
  <2> QED BY <1>0, <1>1, <2>1, FreshKept
<1>3. CASE p.conn = c
  <2>1. c \in HeldBy(worker[w])
    BY <1>0, <1>3, HeldFacts
  <2>2. /\ \A v \in Workers : worker'[v].conn # c
        /\ \A v \in Workers, u \in Updates : u \in worker'[v].got /\ u.conn = c => v = w /\ u \in found
        /\ \A v \in Workers, q \in Loads : q \in worker'[v].todo /\ q.conn = c => q.synced = row[c].sync.synced
    BY <1>0, <1>1, <1>3, <2>1, AloneFacts DEF Becomes, Shaped, Apart, Fresh
  <2>3. worker[w].pc # "asking" => FreshRow(c)
    BY <1>0, <1>1, <1>3, TodoFresh
  <2>4. ASSUME NEW u \in found PROVE u.at # 0 /\ u.at >= triggered[c] /\ Since(c, u.job)
    <3>1. u \in Updates /\ u.conn = c /\ u.at # 0
      BY <1>0, <1>3 DEF Passed
    <3>2. CASE worker[w].pc = "asking"
      <4>1. PICK j \in Nat : j = worker[w].job
        BY <1>0, MemoryFacts, BoundsAreNumbers
      <4>2. Answers(u, j) /\ Since(c, j)
        BY <1>0, <1>3, <3>2, <4>1 DEF Passed, Fresh
      <4> QED BY <3>1, <4>2, AnswersFresh
    <3>3. CASE worker[w].pc # "asking"
      <4>1. PICK j \in Nat : j = Latest(c)
        BY <1>0, LatestFacts, JobsFacts DEF TypeOK
      <4>2. Since(c, j)
        BY <1>0, <4>1, LatestSince
      <4>3. Answers(u, j) \/ ForcedFailure(u)
        BY <3>1, <3>3, <4>1 DEF Passed
      <4>4. CASE Answers(u, j)
        BY <3>1, <4>2, <4>4, AnswersFresh
      <4>5. CASE ForcedFailure(u)
        <5>1. u.at = now /\ u.job \in {row[c].sync.job, j}
          BY <3>1, <4>1, <4>5 DEF ForcedFailure
        <5>2. now >= triggered[c]
          BY <1>0, JobsFacts, ConnectionsFacts DEF TriggersInv
        <5>3. Since(c, row[c].sync.job)
          BY <2>3, <3>3 DEF FreshRow
        <5> QED BY <3>1, <4>2, <5>1, <5>2, <5>3
      <4> QED BY <4>3, <4>4, <4>5
    <3> QED BY <3>2, <3>3
  <2>5. \A u \in found : Since(c, u.job)'
    BY <1>0, <2>4 DEF Since
  <2>6. FreshRow(c) => FreshRow(c)'
    BY <1>0 DEF FreshRow, Since
  <2>7. found # {} => Underway(c)'
    BY <1>0, <1>3 DEF Underway, Becomes
  <2>8. FreshRow(c)' \/ Underway(c)'
    BY <1>0, <2>3, <2>6, <2>7
  <2>9. \A v \in Workers, u \in Updates : u \in worker'[v].got /\ u.conn = c =>
           u.at # 0 /\ u.at >= triggered'[c] /\ Since(c, u.job)'
    BY <1>0, <2>2, <2>4, <2>5
  <2> QED BY <1>0, <2>2, <2>8, <2>9 DEF Fresh
<1> QED BY <1>2, <1>3

LEMMA HookedFresh ==
  ASSUME Base, AgreeInv, FreshInv, TriggersInv, NEW c \in Connections \ disturbed',
         NEW w \in Workers, NEW me \in Memories, NEW u \in Updates, Hooked(w, me, u)
  PROVE  Fresh(c)'
<1>0. /\ TypeOK /\ c \in Connections \ disturbed /\ Fresh(c) /\ worker[w] = AtRest /\ Becomes(w, me)
      /\ UNCHANGED <<jobs, row, triggered>> /\ me.todo = {} /\ me.got = {u} /\ me.conn = 0
      /\ \A v \in Workers : worker[v] \in Memories
  BY MemoryFacts DEF Base, FreshInv, ShapeInv, Hooked, Shaped
<1>1. JobsMove /\ c # 0 /\ AtRest.conn = 0 /\ AtRest.got = {} /\ AtRest.todo = {}
  BY <1>0, ConnectionsFacts DEF JobsMove, TypeOK, AtRest
<1>2. CASE u.conn # c
  <2>1. \A v \in Workers :
           /\ worker'[v].conn = c => worker[v].conn = c /\ worker'[v].job = worker[v].job
           /\ worker[v].conn = c => worker'[v].conn = c
           /\ \A x \in Updates : x.conn = c => (x \in worker'[v].got <=> x \in worker[v].got)
           /\ worker'[v].todo = worker[v].todo
    BY <1>0, <1>1, <1>2 DEF Becomes
  <2> QED BY <1>0, <1>1, <2>1, FreshKept
<1>3. CASE u.conn = c
  <2>1. c \notin Busy
    BY <1>3 DEF Hooked
  <2>2. \A v \in Workers : worker[v].conn # c /\ \A x \in worker[v].got : x.conn # c
    BY <1>0, <2>1, BusyFacts, HeldFacts
  <2>3. FreshRow(c)
    BY <1>0, <2>2, RestFresh
  <2>4. PICK j \in Nat : j = u.job
    BY BoundsAreNumbers DEF Updates
  <2>5. Since(c, j)
    <3>1. row[c].sync.job \in Nat /\ j >= row[c].sync.job
      BY <1>0, <1>3, <2>4, BoundsAreNumbers DEF Hooked, TypeOK, Rows, Syncs
    <3>2. \A i \in DOMAIN jobs : i >= j => i >= row[c].sync.job
      BY <1>0, <2>4, <3>1, JobsFacts
    <3> QED BY <2>3, <3>2 DEF FreshRow, Since
  <2>6. u.at # 0 /\ u.at >= triggered[c] /\ Since(c, u.job)
    BY <1>3, <2>4, <2>5, AnswersFresh DEF Hooked
  <2>7. /\ \A v \in Workers : worker'[v].conn # c
        /\ \A v \in Workers, x \in Updates : x \in worker'[v].got /\ x.conn = c => x = u
        /\ \A v \in Workers, q \in Loads : q \in worker'[v].todo /\ q.conn = c => q.synced = row'[c].sync.synced
    BY <1>0, <1>1, <2>2 DEF Becomes, Fresh
  <2>8. Since(c, u.job)' /\ FreshRow(c)'
    BY <1>0, <2>3, <2>6 DEF Since, FreshRow
  <2> QED BY <1>0, <2>6, <2>7, <2>8 DEF Fresh
<1> QED BY <1>2, <1>3

LEMMA RowSavedFresh ==
  ASSUME Base, AgreeInv, FreshInv, TriggersInv, NEW c \in Connections \ disturbed',
         NEW w \in Workers, NEW me \in Memories, NEW u \in Updates, RowSaved(w, me, u)
  PROVE  Fresh(c)'
<1>0. /\ TypeOK /\ c \in Connections \ disturbed /\ Fresh(c) /\ Shaped(worker[w]) /\ Becomes(w, me)
      /\ UNCHANGED <<jobs, triggered>> /\ me.todo = {} /\ worker[w].todo = {} /\ me.got = worker[w].got \ {u}
      /\ worker[w].conn = 0 /\ me.conn = 0 /\ u \in worker[w].got /\ worker[w] \in Memories
  BY MemoryFacts DEF Base, FreshInv, ShapeInv, RowSaved, Shaped
<1>1. JobsMove /\ c # 0
  BY <1>0, ConnectionsFacts DEF JobsMove, TypeOK
<1>2. CASE u.conn # c
  <2>1. \A v \in Workers :
           /\ worker'[v].conn = c => worker[v].conn = c /\ worker'[v].job = worker[v].job
           /\ worker[v].conn = c => worker'[v].conn = c
           /\ \A x \in Updates : x.conn = c => (x \in worker'[v].got <=> x \in worker[v].got)
           /\ worker'[v].todo = worker[v].todo
    BY <1>0, <1>1, <1>2 DEF Becomes
  <2>2. row'[c] = row[c]
    BY <1>0, <1>2 DEF RowSaved
  <2> QED BY <1>0, <1>1, <2>1, <2>2, FreshKept
<1>3. CASE u.conn = c
  <2>1. u.at # 0 /\ u.at >= triggered[c] /\ Since(c, u.job)
    BY <1>0, <1>3 DEF Fresh
  <2>2. row'[c].sync.synced = u.at /\ row'[c].sync.job = u.job
    BY <1>3, <2>1 DEF RowSaved, Sync, SyncedAt
  <2>3. FreshRow(c)'
    BY <1>0, <2>1, <2>2 DEF FreshRow, Since
  <2>4. c \in HeldBy(worker[w])
    BY <1>0, <1>3, HeldFacts
  <2>5. /\ \A v \in Workers : worker'[v].conn # c
        /\ \A v \in Workers, x \in Updates : x \in worker'[v].got => x.conn # c
        /\ \A v \in Workers, q \in Loads : q \in worker'[v].todo => q.conn # c
    BY <1>0, <1>1, <1>3, <2>4, AloneFacts DEF Becomes, Shaped, OnePer
  <2> QED BY <2>3, <2>5 DEF Fresh
<1> QED BY <1>2, <1>3

LEMMA FreshStep ==
  ASSUME Base, AgreeInv, FreshInv, TriggersInv, Kinds
  PROVE  FreshInv'
<1> SUFFICES ASSUME NEW c \in Connections \ disturbed' PROVE Fresh(c)'
  BY DEF FreshInv
<1>0. /\ TypeOK /\ c \in Connections \ disturbed /\ Fresh(c) /\ JobsMove
      /\ \A w \in Workers : Shaped(worker[w]) /\ worker[w] \in Memories
      /\ c # 0 /\ AtRest.conn = 0 /\ AtRest.got = {} /\ AtRest.todo = {}
  BY KindsMove, MemoryFacts, ConnectionsFacts DEF Base, FreshInv, ShapeInv, AtRest
<1>1. CASE UNCHANGED <<worker, triggered>> /\ row'[c].sync = row[c].sync
  BY <1>0, <1>1, FreshKept
<1>2. UNCHANGED vars \/ Ticked \/ JobsMoved => UNCHANGED <<worker, triggered>> /\ row'[c].sync = row[c].sync
  BY DEF vars, Ticked, JobsMoved
<1>3. ASSUME NEW d \in Connections, PatchStarted(d) \/ PatchSaved(d)
      PROVE  UNCHANGED <<worker, triggered>> /\ row'[c].sync = row[c].sync
  <2>1. Agree(c)
    BY <1>0 DEF AgreeInv
  <2> QED BY <1>0, <1>3, <2>1 DEF PatchStarted, PatchSaved, Agree
<1>4. ASSUME NEW w \in Workers, Dropped(w) PROVE Fresh(c)'
  <2>1. worker[w].conn # c /\ (\A u \in worker[w].got : u.conn # c) /\ triggered'[c] = triggered[c]
    BY <1>0, <1>4 DEF Dropped, ConnsOf
  <2>2. \A v \in Workers :
           /\ worker'[v].conn = c => worker[v].conn = c /\ worker'[v].job = worker[v].job
           /\ worker[v].conn = c => worker'[v].conn = c
           /\ \A x \in Updates : x.conn = c => (x \in worker'[v].got <=> x \in worker[v].got)
           /\ \A q \in Loads : q \in worker'[v].todo => q \in worker[v].todo
    BY <1>0, <1>4, <2>1 DEF Dropped, Becomes
  <2>3. row'[c].sync = row[c].sync
    BY <1>4 DEF Dropped
  <2> QED BY <1>0, <2>1, <2>2, <2>3, FreshKept
<1>5. ASSUME NEW w \in Workers, NEW me \in Memories, Began(w, me) PROVE Fresh(c)'
  <2>1. worker[w] = AtRest /\ Becomes(w, me) /\ me.got = {} /\ me.conn = 0 /\ UNCHANGED <<row, triggered>>
    BY <1>0, <1>5 DEF Began, Shaped
  <2>2. \A p \in me.todo : p.synced = row[p.conn].sync.synced
    BY <1>5 DEF Began
  <2>3. \A v \in Workers :
           /\ worker'[v].conn = c => worker[v].conn = c /\ worker'[v].job = worker[v].job
           /\ worker[v].conn = c => worker'[v].conn = c
           /\ worker'[v].got = worker[v].got
           /\ \A q \in Loads : q.conn = c /\ q \in worker'[v].todo => q \in worker[v].todo \/ q.synced = row[c].sync.synced
    BY <1>0, <2>1, <2>2 DEF Becomes
  <2> QED BY <1>0, <2>1, <2>3, FreshKept
<1>6. ASSUME NEW w \in Workers, NEW me \in Memories, NEW s \in Copies, StatusSaved(w, me, s) PROVE Fresh(c)'
  <2>1. Becomes(w, me) /\ me.todo = worker[w].todo /\ me.conn = worker[w].conn /\ me.got = worker[w].got
        /\ UNCHANGED <<row, triggered>> /\ worker[w].conn = 0
    BY <1>0, <1>6 DEF StatusSaved, Shaped
  <2>2. \A v \in Workers :
           /\ worker'[v].conn = c => worker[v].conn = c /\ worker'[v].job = worker[v].job
           /\ worker[v].conn = c => worker'[v].conn = c
           /\ worker'[v].got = worker[v].got /\ worker'[v].todo = worker[v].todo
    BY <1>0, <2>1 DEF Becomes
  <2> QED BY <1>0, <2>1, <2>2, FreshKept
<1>7. ASSUME NEW w \in Workers, NEW me \in Memories, NEW u \in Updates, Requested(w, me, u) \/ Queued(w, u)
      PROVE  Fresh(c)'
  <2>1. PICK new \in Memories : Becomes(w, new) /\ new.todo = {} /\ new.conn = 0 /\ new.got \subseteq {u}
    <3>1. CASE Requested(w, me, u)
      BY <3>1 DEF Requested
    <3>2. CASE Queued(w, u)
      BY <1>0, <3>2, AtRestType DEF Queued
    <3> QED BY <1>7, <3>1, <3>2
  <2>2. /\ u.conn # c /\ row'[c].sync = row[c].sync /\ triggered'[c] = triggered[c]
        /\ worker[w].conn = 0 /\ (worker[w].got = {u} \/ worker[w].pc = "requesting")
    BY <1>0, <1>7 DEF Requested, Queued, Shaped
  <2>3. \A x \in worker[w].got : x.conn # c
    BY <1>0, <2>2 DEF Shaped
  <2>4. \A v \in Workers :
           /\ worker'[v].conn = c => worker[v].conn = c /\ worker'[v].job = worker[v].job
           /\ worker[v].conn = c => worker'[v].conn = c
           /\ \A x \in Updates : x.conn = c => (x \in worker'[v].got <=> x \in worker[v].got)
           /\ \A q \in Loads : q \in worker'[v].todo => q \in worker[v].todo
    BY <1>0, <2>1, <2>2, <2>3 DEF Becomes
  <2> QED BY <1>0, <2>2, <2>4, FreshKept
<1>8. ASSUME NEW w \in Workers, NEW u \in Updates, Queued(w, u) PROVE Fresh(c)'
  BY <1>7, <1>8, AtRestType
<1> QED BY <1>1, <1>2, <1>3, <1>4, <1>5, <1>6, <1>7, <1>8, AskedFresh, PassedFresh, HookedFresh, RowSavedFresh DEF Kinds

(***************************************************************************)
(* The theorems.                                                           *)
(***************************************************************************)
IInv == Base /\ TruthInv /\ AgreeInv /\ TriggersInv /\ FreshInv /\ DueInv

LEMMA IInvInit ==
  ASSUME Init
  PROVE  IInv
<1>0. Base
  BY BaseInit
<1>1. /\ now = 1 /\ jobs = <<>> /\ editor = NoEdit
      /\ row = [c \in Connections |-> [active |-> TRUE, sync |-> Sync(0, "", 0)]]
      /\ shown = [conn |-> 0, job |-> 0, status |-> ""] /\ triggered = [c \in Connections |-> 0]
  BY DEF Init
<1>2. worker = [w \in Workers |-> AtRest]
  BY DEF Init
<1>3. \A w \in Workers : worker[w].todo = {} /\ worker[w].got = {} /\ worker[w].saved = {} /\ worker[w].conn = 0
  BY <1>2 DEF AtRest
<1>4. \A c \in Connections : /\ row[c].sync.status = "" /\ row[c].sync.synced = 0 /\ row[c].sync.job = 0
                             /\ triggered[c] = 0 /\ c # 0 /\ c # editor.conn /\ c # shown.conn
  BY <1>1, ConnectionsFacts DEF Sync, NoEdit
<1>5. TruthInv
  BY <1>3, <1>4 DEF TruthInv, ToldSync
<1>6. AgreeInv
  <2>1. \A c \in Connections, w \in Workers : c \notin HeldBy(worker[w])
    BY <1>3, <1>4 DEF HeldBy, ConnsOf
  <2> QED BY <1>3, <1>4, <2>1 DEF AgreeInv, Alone, Agree
<1>7. TriggersInv /\ FreshInv /\ DueInv
  <2>1. now = 1 /\ DOMAIN jobs = {}
    <3>1. jobs = <<>> /\ now = 1
      BY DEF Init
    <3> QED BY <3>1
  <2>2. ASSUME NEW c \in Connections PROVE Fresh(c)
    <3>1. \A j : Since(c, j)
      BY <2>1 DEF Since
    <3>2. FreshRow(c)
      <4>1. row[c].sync.synced = 0 /\ triggered[c] = 0
        BY <1>4
      <4> QED BY <3>1, <4>1 DEF FreshRow
    <3>3. \A w \in Workers : worker[w].conn # c
      BY <1>3, <1>4
    <3> QED BY <1>3, <3>2, <3>3 DEF Fresh
  <2>3. TriggersInv
    <3>1. \A c \in Connections : triggered[c] = 0
      BY <1>4
    <3> QED BY <2>1, <3>1 DEF TriggersInv
  <2>4. DueInv
    BY <1>3 DEF DueInv
  <2> QED BY <2>2, <2>3, <2>4 DEF FreshInv
<1> QED BY <1>0, <1>5, <1>6, <1>7 DEF IInv

LEMMA IInvStep ==
  ASSUME IInv, [Next]_vars
  PROVE  IInv'
<1>1. Kinds /\ Base
  BY NextKinds DEF IInv
<1>2. AgreeInv'
  BY <1>1, AloneStep, AgreeStep DEF IInv, AgreeInv
<1> QED BY <1>1, <1>2, BaseStep, TruthStep, TriggersStep, FreshStep, DueStep DEF IInv

LEMMA SyncIInv == Spec => []IInv
BY IInvInit, IInvStep, PTL DEF Spec

\* Every variable of the schedule keeps its type, for any number of connections, workers
\* and jobs: no job id or time is written that no job had.
THEOREM TypeCorrect == Spec => []TypeOK
<1>1. IInv => TypeOK
  BY DEF IInv, Base
<1> QED BY <1>1, SyncIInv, PTL

\* No interleaving of passes, webhooks, lost workers and PATCH requests makes a row claim
\* an end its job did not have, or leaves the tenant's status apart from a row that one
\* operation at a time was at work on.
THEOREM RowsStayTrue == Spec => []RowsTellTheTruth
<1>1. ASSUME IInv PROVE RowsTellTheTruth
  <2> SUFFICES ASSUME NEW c \in Connections, NEW sync \in Syncs, sync = row[c].sync
               PROVE  /\ sync.status # "" /\ ~force =>
                           /\ sync.job \in DOMAIN jobs /\ jobs[sync.job].conn = c
                           /\ sync.status \in Ended => sync.status = jobs[sync.job].status
                      /\ shown.conn = c /\ c \notin disturbed \cup Busy =>
                           shown.job = sync.job /\ shown.status = sync.status
    <3>1. \A c \in Connections : row[c].sync \in Syncs
      BY <1>1 DEF IInv, Base, TypeOK, Rows
    <3> QED BY <3>1 DEF RowsTellTheTruth
  <2>1. ~force => ToldSync(c, sync)
    BY <1>1 DEF IInv, TruthInv
  <2>2. ASSUME shown.conn = c, c \notin disturbed \cup Busy
        PROVE  shown.job = sync.job /\ shown.status = sync.status
    <3>1. Agree(c) /\ \A w \in Workers : worker[w] \in Memories /\ c \notin HeldBy(worker[w])
      BY <1>1, <2>2, BusyFacts, MemoryFacts DEF IInv, Base, AgreeInv
    <3>2. \A w \in Workers, s \in Copies : s \in worker[w].saved => s.conn # c
      BY <3>1, HeldFacts
    <3> QED BY <2>2, <3>1, <3>2 DEF Agree
  <2> QED BY <2>1, <2>2 DEF ToldSync, Told
<1> QED BY <1>1, SyncIInv, PTL

\* Between two triggers of one connection by the scheduler lies its interval, whatever
\* other workers, webhooks and users do, unless the connection was disturbed.
THEOREM TriggersKeepInterval == Spec => IntervalKept
<1>1. ASSUME IInv, Kinds, NEW c \in Connections \ disturbed', WorkerTriggers(c), triggered[c] # 0
      PROVE  triggered[c] + Interval <= now
  <2>0. TypeOK /\ Base /\ AgreeInv /\ FreshInv /\ DueInv /\ DOMAIN jobs = 1 .. Len(jobs) /\ Len(jobs) \in Nat
    BY <1>1, JobsFacts DEF IInv, Base
  <2>1. Len(jobs') > Len(jobs) /\ jobs'[Len(jobs')].conn = c /\ worker' # worker
    BY <1>1 DEF WorkerTriggers
  <2>2. ASSUME NEW w \in Workers, Dropped(w) PROVE FALSE
    BY <1>1, <2>1, <2>2 DEF Dropped
  <2>3. ASSUME UNCHANGED jobs \/ UNCHANGED worker PROVE FALSE
    BY <2>0, <2>1, <2>3
  <2>4. UNCHANGED vars \/ Ticked \/ JobsMoved \/ (\E d \in Connections : PatchStarted(d) \/ PatchSaved(d))
        => UNCHANGED jobs \/ UNCHANGED worker
    BY DEF vars, Ticked, JobsMoved, PatchStarted, PatchSaved
  <2>5. ASSUME NEW w \in Workers, NEW me \in Memories,
               \/ Began(w, me)
               \/ \E p \in Loads, found \in SUBSET Updates : Passed(w, me, p, found)
               \/ \E u \in Updates : Hooked(w, me, u) \/ RowSaved(w, me, u)
               \/ \E s \in Copies : StatusSaved(w, me, s)
        PROVE  UNCHANGED jobs
    BY <2>5 DEF Began, Passed, Hooked, RowSaved, StatusSaved
  <2>13. ASSUME NEW w \in Workers, NEW u \in Updates, Queued(w, u) PROVE UNCHANGED jobs
    BY <2>13 DEF Queued
  <2>12. ASSUME NEW w \in Workers, NEW me \in Memories, NEW u \in Updates, Requested(w, me, u) PROVE FALSE
    BY <1>1, <2>1, <2>12 DEF Requested, Created
  <2>6. PICK w \in Workers, me \in Memories, p \in Loads : Asked(w, me, p)
    BY <1>1, <2>2, <2>3, <2>4, <2>5, <2>12, <2>13 DEF Kinds
  <2>7. /\ p.conn = c /\ p \in worker[w].todo /\ worker[w].pc = "triggering" /\ worker[w].conn # c
        /\ c \in Connections \ disturbed
    <3>1. worker[w].conn = 0 /\ c # 0
      BY <2>0, <2>6, ConnectionsFacts DEF Asked, Base, ShapeInv, Shaped
    <3>2. Len(jobs') = Len(jobs) + 1 /\ jobs'[Len(jobs) + 1].conn = p.conn
      BY <2>6 DEF Asked, Created
    <3> QED BY <1>1, <2>1, <2>6, <3>1, <3>2 DEF Asked
  <2>8. FreshRow(c) /\ Fresh(c)
    BY <2>0, <2>7, TodoFresh DEF FreshInv
  <2>9. p.synced = 0 \/ p.synced + Interval <= now
    BY <2>0, <2>7 DEF DueInv
  <2>10. p.synced = row[c].sync.synced /\ p.synced >= triggered[c]
    BY <2>7, <2>8 DEF Fresh, FreshRow
  <2>11. triggered[c] \in Nat /\ p.synced \in Nat /\ Interval \in Nat /\ now \in Nat
    BY <2>0, BoundsAreNumbers, JobsFacts, ConnectionsFacts DEF TypeOK, Loads
  <2> QED BY <1>1, <2>9, <2>10, <2>11
<1>2. ASSUME IInv, [Next]_vars
      PROVE  [\A c \in Connections \ disturbed' :
                WorkerTriggers(c) /\ triggered[c] # 0 => triggered[c] + Interval <= now]_vars
  BY <1>1, <1>2, NextKinds DEF IInv
<1> QED BY <1>2, SyncIInv, PTL DEF Spec, IntervalKept

------------------------------------------------------------------------------
(***************************************************************************)
(* ConnectorLifecycle: requests for one account.                           *)
(***************************************************************************)
\* The requests that are between the lock of ga4 and its release.
Asking == {"sources", "making source", "links", "making link"}
\* A request knows by the time it needs it what to write: the key of its credential, the
\* token and the source it creates with, the connection it saves.
Sound(me) ==
  /\ me.pc = "idle" => me = Conn!AtRest
  /\ me.pc \in Conn!Provisioning => me.token # 0
  /\ me.pc \in {"links", "making link"} => me.source # 0
  /\ me.pc = "saving" => me.link # 0
  /\ me.pc \in {"exchanged", "loaded", "chosen"} => me.key # 0
  /\ me.pc = "exchanged" => me.kept = 0
SoundInv ==
  /\ \A r \in Requests : Sound(req[r])
  /\ \A i \in DOMAIN late : late[i].pc \in {"making source", "making link"} /\ Sound(late[i])
  /\ cred.token # 0 => cred.key # 0
RequestBase == Conn!TypeInvariant /\ SoundInv

\* The request r has me in memory after the step.
RequestBecomes(r, me) ==
  /\ me \in Conn!RequestStates /\ req' \in [Requests -> Conn!RequestStates]
  /\ req'[r] = me /\ \A q \in Requests : q # r => req'[q] = req[q]
Released(r) == holder' = IF holder = r THEN NoRequest ELSE holder
RequestEnded(r) == RequestBecomes(r, Conn!AtRest) /\ Released(r)

LEMMA ConnTypes ==
  ASSUME RequestBase
  PROVE  /\ Conn!TypeInvariant /\ MaxGrants \in Nat /\ MaxRemote \in Nat
         /\ Conn!Grants = 0 .. MaxGrants /\ 0 \in Conn!Grants /\ Conn!Remote = 1 .. MaxRemote
         /\ cred \in Conn!Credentials /\ cred.key \in Conn!Grants /\ cred.token \in Conn!Grants
         /\ sources \in Seq(Conn!Grants \ {0}) /\ links \in Seq(Conn!Remote) /\ late \in Seq(Conn!RequestStates)
         /\ Len(sources) <= MaxRemote /\ Len(links) <= MaxRemote
         /\ local \in [Conn!Remote -> {"none", "active", "paused"}] /\ req \in [Requests -> Conn!RequestStates]
         /\ holder \in Requests \cup {NoRequest} /\ granted \in Conn!Grants /\ grant \in Conn!Grants
         /\ mixed \in BOOLEAN /\ delayed \in BOOLEAN /\ closed \in BOOLEAN
         /\ survivors \subseteq {"connection", "credential"}
<1>1. Conn!TypeInvariant /\ MaxGrants \in Nat /\ MaxRemote \in Nat
  BY GrantsAssumption DEF RequestBase, GrantsAssumption
<1>2. cred \in Conn!Credentials
  BY <1>1 DEF Conn!TypeInvariant
<1>3. cred.key \in Conn!Grants /\ cred.token \in Conn!Grants
  BY <1>2 DEF Conn!Credentials
<1>4. Conn!Grants = 0 .. MaxGrants /\ 0 \in Conn!Grants /\ Conn!Remote = 1 .. MaxRemote
  BY <1>1 DEF Conn!Grants, Conn!Remote
<1>5. mixed \in BOOLEAN /\ delayed \in BOOLEAN /\ closed \in BOOLEAN
  BY <1>1 DEF Conn!TypeInvariant
<1> QED BY <1>1, <1>2, <1>3, <1>4, <1>5 DEF Conn!TypeInvariant

LEMMA SequenceFacts ==
  ASSUME RequestBase
  PROVE  /\ Len(sources) \in Nat /\ DOMAIN sources = 1 .. Len(sources) /\ DOMAIN sources \subseteq Conn!Remote
         /\ Len(links) \in Nat /\ DOMAIN links = 1 .. Len(links) /\ DOMAIN links \subseteq Conn!Remote
         /\ sources = <<>> <=> Len(sources) = 0
         /\ links = <<>> <=> Len(links) = 0
         /\ Conn!Remote \subseteq 0 .. MaxRemote /\ 0 \notin Conn!Remote /\ 0 \in 0 .. MaxRemote
BY ConnTypes

LEMMA RequestMemoryFacts ==
  ASSUME RequestBase, NEW r \in Requests
  PROVE  /\ req[r] \in Conn!RequestStates /\ Sound(req[r])
         /\ req[r].key \in Conn!Grants /\ req[r].token \in Conn!Grants /\ req[r].kept \in Conn!Grants
         /\ req[r].source \in 0 .. MaxRemote /\ req[r].link \in 0 .. MaxRemote
<1>1. req[r] \in Conn!RequestStates
  BY ConnTypes
<1> QED BY <1>1 DEF RequestBase, SoundInv, Conn!RequestStates

LEMMA AtRestFacts ==
  ASSUME RequestBase
  PROVE  Conn!AtRest \in Conn!RequestStates /\ Sound(Conn!AtRest) /\ Conn!AtRest.pc = "idle"
BY ConnTypes, SequenceFacts DEF Conn!AtRest, Conn!RequestStates, Sound, Conn!Provisioning

LEMMA GoFacts ==
  ASSUME RequestBase, NEW r \in Requests, NEW me \in Conn!RequestStates, Conn!Go(r, me)
  PROVE  RequestBecomes(r, me)
BY ConnTypes DEF Conn!Go, RequestBecomes

LEMMA EndFacts ==
  ASSUME RequestBase, NEW r \in Requests, Conn!End(r)
  PROVE  RequestEnded(r)
BY AtRestFacts, GoFacts DEF Conn!End, RequestEnded, Released

(***************************************************************************)
(* What the steps of a request do.                                         *)
(***************************************************************************)
\* Nothing of Airbyte's changes, nor any lock.
Opened == closed' = FALSE /\ survivors' \in {survivors, {}}
          /\ (survivors' = survivors \/ \A q \in Requests : req[q].pc # "paused")
\* Connections may be paused, and none becomes active.
Hushed == /\ local' \in [Conn!Remote -> {"none", "active", "paused"}]
          /\ \A l \in Conn!Remote : local'[l] = "active" => local[l] = "active"
Begun(r, me) ==
  /\ RequestBecomes(r, me) /\ Sound(me) /\ req[r].pc = "idle" /\ Opened
  /\ UNCHANGED <<provider, cred, Conn!airbyte, holder, late, grant, delayed>> /\ granted' \in Conn!Grants
  /\ mixed' \in BOOLEAN /\ (mixed => mixed')
  /\ \/ me.pc \in {"exchanged", "chosen"} /\ local' = local
     \/ me.pc = "sources" /\ local' = local /\ ~Conn!Is("ga4")
     \/ me.pc = "loaded" /\ local' = local /\ me.key = cred.key /\ me.kept = cred.token
        /\ (~mixed' => \A q \in Requests \ {r} : req[q].pc # "loaded")
     \/ me.pc = "paused" /\ Hushed /\ \A l \in Conn!Remote : local'[l] = "active" => l \in me.rows
RequestCreated(r, me) ==
  /\ RequestBecomes(r, me) /\ Sound(me) /\ req[r].pc = "exchanged" /\ me.pc = "loaded" /\ me.token = req[r].token
  /\ \/ cred.key = 0 /\ cred' \in Conn!Credentials /\ cred'.key = me.key /\ me.kept = 0 /\ cred'.token = 0 /\ grant' = 0
     \/ cred.key # 0 /\ me.key = cred.key /\ me.kept = cred.token /\ UNCHANGED <<cred, grant>>
  /\ mixed' \in BOOLEAN /\ (mixed => mixed') /\ (~mixed' => \A q \in Requests \ {r} : req[q].pc # "loaded")
  /\ UNCHANGED <<provider, Conn!airbyte, local, holder, granted, late, delayed, closed, survivors>>
Saved(r) ==
  /\ RequestEnded(r) /\ req[r].pc = "loaded"
  /\ \/ UNCHANGED <<cred, grant>>
     \/ /\ cred.key \in {0, req[r].key} /\ cred' \in Conn!Credentials /\ cred'.key = req[r].key
        /\ cred'.token = Conn!Token(req[r].token, req[r].kept)
        /\ grant' = IF req[r].token # 0 THEN req[r].token ELSE IF cred.key = 0 THEN req[r].kept ELSE grant
  /\ UNCHANGED <<provider, Conn!airbyte, local, granted, late, mixed, delayed, closed, survivors>>
LockTaken(r, me) ==
  /\ RequestBecomes(r, me) /\ Sound(me) /\ req[r].pc = "chosen" /\ me.pc = "sources" /\ Conn!Unlocked /\ holder' = r
  /\ cred.key = req[r].key
  /\ UNCHANGED <<provider, cred, Conn!airbyte, local, granted, late, Conn!history>>
\* A request goes on or ends, and what it made is in Airbyte.
Worked(r, me) ==
  /\ RequestBecomes(r, me) /\ Sound(me) /\ req[r].pc \in Asking
  /\ sources' \in Seq(Conn!Grants \ {0}) /\ links' \in Seq(Conn!Remote) /\ Len(sources') <= MaxRemote /\ Len(links') <= MaxRemote
  /\ \/ UNCHANGED Conn!airbyte
     \/ Len(sources') = Len(sources) /\ UNCHANGED links /\ req[r].pc = "making source"
     \/ Len(links') = Len(links) /\ UNCHANGED sources /\ req[r].pc = "making link" /\ me.pc = "saving"
     \/ /\ req[r].pc = "making source" /\ req[r].source = 0 /\ Len(sources') = Len(sources) + 1 /\ UNCHANGED links
        /\ me.pc = "making source" => ~Conn!Is("ga4")
     \/ req[r].pc = "making link" /\ req[r].link = 0 /\ Len(links') = Len(links) + 1 /\ UNCHANGED sources
        /\ me.pc # "making link"
  /\ \/ me.pc \in Asking /\ holder' = holder
     \/ me.pc \in {"idle", "saving"} /\ Released(r)
  /\ me.pc = "making source" /\ me.source = 0 => sources = <<>> \/ me = req[r]
  /\ me.pc = "making link" /\ me.link = 0 => links = <<>>
  /\ late' = late \/ (me = Conn!AtRest /\ late' = Append(late, req[r]) /\ req[r].pc \in {"making source", "making link"})
  /\ UNCHANGED <<provider, cred, local, granted, Conn!history>>
\* The row of the connection is active.
Recorded(r) ==
  /\ RequestEnded(r) /\ req[r].pc = "saving"
  /\ local' \in [Conn!Remote -> {"none", "active", "paused"}]
  /\ survivors' = survivors \cup (IF Conn!Others(r, {"paused"}) THEN {"connection"} ELSE {})
  /\ UNCHANGED <<provider, cred, Conn!airbyte, granted, late, grant, mixed, delayed, closed>>
\* The row is deleted by the second step of a disconnect.
Disconnected(r) ==
  /\ cred' = Conn!NoCredential /\ grant' = 0 /\ Conn!Close(r, survivors)
  /\ RequestEnded(r) /\ req[r].pc = "paused"
  /\ Hushed /\ \A l \in req[r].rows : local'[l] # "active"
  /\ UNCHANGED <<provider, Conn!airbyte, granted, late, mixed, delayed>>

LEMMA RequestBeginFacts ==
  ASSUME RequestBase, NEW r \in Requests, NEW me \in Conn!RequestStates, Conn!Begin(r, me)
  PROVE  RequestBecomes(r, me) /\ req[r].pc = "idle" /\ Opened
<1>1. RequestBecomes(r, me) /\ req[r].pc = "idle"
  BY GoFacts DEF Conn!Begin, Conn!At
<1>2. Opened
  BY DEF Conn!Begin, Conn!Reopen, Opened, Conn!At
<1> QED BY <1>1, <1>2

LEMMA CallbackFacts ==
  ASSUME RequestBase, NEW r \in Requests, Conn!StartCallback(r)
  PROVE  \E me \in Conn!RequestStates : Begun(r, me)
<1>1. PICK token \in {0, granted + 1} : Conn!Begin(r, [Conn!AtRest EXCEPT !.pc = "exchanged", !.key = granted + 1, !.token = token])
  BY DEF Conn!StartCallback
<1>2. PICK me : me = [Conn!AtRest EXCEPT !.pc = "exchanged", !.key = granted + 1, !.token = token]
  OBVIOUS
<1>3. granted + 1 \in Conn!Grants /\ granted + 1 # 0 /\ token \in Conn!Grants
  BY <1>1, ConnTypes DEF Conn!StartCallback
<1>4. me \in Conn!RequestStates /\ Sound(me) /\ me.pc = "exchanged"
  BY <1>2, <1>3, AtRestFacts DEF Conn!AtRest, Conn!RequestStates, Sound, Conn!Provisioning
<1>5. RequestBecomes(r, me) /\ req[r].pc = "idle" /\ Opened
  BY <1>1, <1>2, <1>4, RequestBeginFacts
<1> QED BY <1>3, <1>4, <1>5, ConnTypes DEF Begun, Conn!StartCallback

LEMMA RefreshFacts ==
  ASSUME RequestBase, NEW r \in Requests, Conn!StartRefresh(r)
  PROVE  \E me \in Conn!RequestStates : Begun(r, me)
<1>1. PICK me : me = [Conn!AtRest EXCEPT !.pc = "loaded", !.key = cred.key, !.kept = cred.token]
  OBVIOUS
<1>2. cred.key # 0
  BY DEF Conn!StartRefresh, RequestBase, SoundInv
<1>3. me \in Conn!RequestStates /\ Sound(me) /\ me.pc = "loaded" /\ me.key = cred.key /\ me.kept = cred.token
  BY <1>1, <1>2, AtRestFacts, ConnTypes DEF Conn!AtRest, Conn!RequestStates, Sound, Conn!Provisioning
<1>4. RequestBecomes(r, me) /\ req[r].pc = "idle" /\ Opened
  BY <1>1, <1>3, RequestBeginFacts DEF Conn!StartRefresh
<1>5. mixed' \in BOOLEAN /\ (mixed => mixed') /\ (~mixed' => \A q \in Requests \ {r} : req[q].pc # "loaded")
  BY ConnTypes DEF Conn!StartRefresh, Conn!Mix, Conn!Others, Conn!Saving
<1> QED BY <1>3, <1>4, <1>5, ConnTypes DEF Begun, Conn!StartRefresh

LEMMA ProvisionFacts ==
  ASSUME RequestBase, NEW r \in Requests, Conn!StartProvision(r)
  PROVE  \E me \in Conn!RequestStates : Begun(r, me)
<1>1. PICK pc : pc = IF Conn!Is("ga4") THEN "chosen" ELSE "sources"
  OBVIOUS
<1>2. PICK key : key = IF Conn!Is("ga4") THEN cred.key ELSE 0
  OBVIOUS
<1>3. PICK me : me = [Conn!AtRest EXCEPT !.pc = pc, !.key = key, !.token = cred.token]
  OBVIOUS
<1>4. cred.token # 0 /\ cred.key # 0 /\ key \in Conn!Grants
  BY <1>2, ConnTypes DEF Conn!StartProvision, Conn!Authorized, RequestBase, SoundInv
<1>5. me \in Conn!RequestStates /\ Sound(me) /\ me.pc = pc
  BY <1>1, <1>2, <1>3, <1>4, AtRestFacts, ConnTypes DEF Conn!AtRest, Conn!RequestStates, Sound, Conn!Provisioning
<1>6. RequestBecomes(r, me) /\ req[r].pc = "idle" /\ Opened
  BY <1>1, <1>2, <1>3, <1>5, RequestBeginFacts DEF Conn!StartProvision
<1>7. mixed' \in BOOLEAN /\ (mixed => mixed')
  BY ConnTypes DEF Conn!StartProvision, Conn!Mix
<1> QED BY <1>1, <1>5, <1>6, <1>7, ConnTypes DEF Begun, Conn!StartProvision

LEMMA PausedFacts ==
  ASSUME RequestBase, NEW rows \in SUBSET Conn!Remote
  PROVE  /\ Conn!Paused(rows) \in [Conn!Remote -> {"none", "active", "paused"}]
         /\ \A l \in Conn!Remote : Conn!Paused(rows)[l] = "active" => l \notin rows /\ local[l] = "active"
BY ConnTypes DEF Conn!Paused

LEMMA PauseFacts ==
  ASSUME RequestBase, NEW r \in Requests, Conn!PauseConnections(r)
  PROVE  \E me \in Conn!RequestStates : Begun(r, me)
<1>0. PICK rows \in SUBSET Conn!Remote : rows = Conn!Mirrored
  BY DEF Conn!Mirrored
<1>1. \A l \in Conn!Remote : local[l] = "active" => l \in rows
  BY <1>0 DEF Conn!Mirrored
<1>2. ASSUME NEW me \in Conn!RequestStates, Sound(me), me.pc = "paused", Conn!Begin(r, me),
             Hushed, \A l \in Conn!Remote : local'[l] = "active" => l \in me.rows
      PROVE  Begun(r, me)
  <2>1. RequestBecomes(r, me) /\ req[r].pc = "idle" /\ Opened
    BY <1>2, RequestBeginFacts
  <2> QED BY <1>2, <2>1, ConnTypes DEF Begun, Conn!PauseConnections
<1>3. CASE Conn!Is("ga4")
  <2>1. PICK me : me = [Conn!AtRest EXCEPT !.pc = "paused", !.rows = rows]
    OBVIOUS
  <2>2. me \in Conn!RequestStates /\ Sound(me) /\ me.pc = "paused" /\ me.rows = rows
    BY <2>1, AtRestFacts DEF Conn!AtRest, Conn!RequestStates, Sound, Conn!Provisioning
  <2>3. local' = local /\ Conn!Begin(r, me)
    BY <1>0, <1>3, <2>1 DEF Conn!PauseConnections
  <2>4. Hushed
    BY <2>3, ConnTypes DEF Hushed
  <2> QED BY <1>1, <1>2, <2>2, <2>3, <2>4
<1>4. CASE ~Conn!Is("ga4")
  <2>1. PICK me : me = [Conn!AtRest EXCEPT !.pc = "paused"]
    OBVIOUS
  <2>2. me \in Conn!RequestStates /\ Sound(me) /\ me.pc = "paused"
    BY <2>1, AtRestFacts DEF Conn!AtRest, Conn!RequestStates, Sound, Conn!Provisioning
  <2>3. local' = Conn!Paused(rows) /\ Conn!Begin(r, me)
    BY <1>0, <1>4, <2>1 DEF Conn!PauseConnections
  <2>4. Hushed /\ \A l \in Conn!Remote : local'[l] # "active"
    BY <1>1, <2>3, PausedFacts DEF Hushed
  <2> QED BY <1>2, <2>2, <2>3, <2>4
<1> QED BY <1>3, <1>4

LEMMA CreateFacts ==
  ASSUME RequestBase, NEW r \in Requests, Conn!GetOrCreate(r)
  PROVE  \E me \in Conn!RequestStates : RequestCreated(r, me)
<1>0. /\ req[r] \in Conn!RequestStates /\ req[r].pc = "exchanged" /\ req[r].kept = 0 /\ req[r].key # 0
      /\ req[r].key \in Conn!Grants /\ 0 \in Conn!Grants /\ cred.key \in Conn!Grants /\ cred.token \in Conn!Grants
  BY RequestMemoryFacts, ConnTypes DEF Conn!GetOrCreate, Conn!At, Sound
<1>1. mixed' \in BOOLEAN /\ (mixed => mixed') /\ (~mixed' => \A q \in Requests \ {r} : req[q].pc # "loaded")
  BY ConnTypes DEF Conn!GetOrCreate, Conn!Mix, Conn!Others, Conn!Saving
<1>2. CASE cred.key = 0
  <2>1. PICK me : me = [req[r] EXCEPT !.pc = "loaded"]
    OBVIOUS
  <2>2. me \in Conn!RequestStates /\ me.pc = "loaded" /\ me.token = req[r].token /\ me.key = req[r].key /\ me.kept = 0
    BY <1>0, <2>1 DEF Conn!RequestStates
  <2>3. Sound(me)
    BY <1>0, <2>2 DEF Sound, Conn!Provisioning
  <2>4. RequestBecomes(r, me)
    BY <1>2, <2>1, <2>2, GoFacts DEF Conn!GetOrCreate
  <2>5. cred' \in Conn!Credentials /\ cred'.key = me.key /\ cred'.token = 0 /\ grant' = 0
    BY <1>0, <1>2, <2>2 DEF Conn!GetOrCreate, Conn!Credentials
  <2> QED BY <1>0, <1>1, <1>2, <2>2, <2>3, <2>4, <2>5 DEF RequestCreated, Conn!GetOrCreate
<1>3. CASE cred.key # 0
  <2>1. PICK me : me = [req[r] EXCEPT !.pc = "loaded", !.key = cred.key, !.kept = cred.token]
    OBVIOUS
  <2>2. me \in Conn!RequestStates /\ me.pc = "loaded" /\ me.token = req[r].token /\ me.key = cred.key /\ me.kept = cred.token
    BY <1>0, <2>1 DEF Conn!RequestStates
  <2>3. Sound(me)
    BY <1>3, <2>2 DEF Sound, Conn!Provisioning
  <2>4. RequestBecomes(r, me)
    BY <1>3, <2>1, <2>2, GoFacts DEF Conn!GetOrCreate
  <2> QED BY <1>0, <1>1, <1>3, <2>2, <2>3, <2>4 DEF RequestCreated, Conn!GetOrCreate
<1> QED BY <1>2, <1>3

LEMMA SaveFacts ==
  ASSUME RequestBase, NEW r \in Requests, Conn!SaveCredential(r)
  PROVE  Saved(r)
<1>1. RequestEnded(r) /\ req[r].pc = "loaded"
  BY EndFacts DEF Conn!SaveCredential, Conn!At
<1>2. PICK token : token = Conn!Token(req[r].token, req[r].kept)
  OBVIOUS
<1>3. token \in Conn!Grants /\ req[r].key \in Conn!Grants
  BY <1>2, RequestMemoryFacts DEF Conn!Token
<1>4. CASE cred.key \in {0, req[r].key}
  <2>1. cred' = [key |-> req[r].key, token |-> token]
        /\ grant' = IF req[r].token # 0 THEN req[r].token ELSE IF cred.key = 0 THEN req[r].kept ELSE grant
    BY <1>2, <1>4 DEF Conn!SaveCredential, Conn!SaveRow
  <2>2. cred' \in Conn!Credentials /\ cred'.key = req[r].key /\ cred'.token = token
    BY <1>3, <2>1 DEF Conn!Credentials
  <2> QED BY <1>1, <1>2, <1>4, <2>1, <2>2 DEF Saved, Conn!SaveCredential
<1>5. CASE cred.key \notin {0, req[r].key}
  BY <1>1, <1>5 DEF Saved, Conn!SaveCredential, Conn!SaveRow
<1> QED BY <1>4, <1>5

LEMMA LockFacts ==
  ASSUME RequestBase, NEW r \in Requests, Conn!Lock(r)
  PROVE  \E me \in Conn!RequestStates : LockTaken(r, me)
<1>0. req[r] \in Conn!RequestStates /\ req[r].pc = "chosen" /\ req[r].token # 0 /\ 0 \in Conn!Grants
  BY RequestMemoryFacts, ConnTypes DEF Conn!Lock, Conn!At, Sound, Conn!Provisioning
<1>1. PICK me : me = [req[r] EXCEPT !.pc = "sources", !.key = 0]
  OBVIOUS
<1>2. me \in Conn!RequestStates /\ me.pc = "sources" /\ me.token # 0
  BY <1>0, <1>1 DEF Conn!RequestStates, Conn!Provisioning
<1>3. Sound(me)
  BY <1>2 DEF Sound
<1>4. RequestBecomes(r, me)
  BY <1>1, <1>2, GoFacts DEF Conn!Lock
<1> QED BY <1>0, <1>2, <1>3, <1>4 DEF LockTaken, Conn!Lock, Conn!Locked

\* A request that goes on in Airbyte keeps its token.
LEMMA WorkFacts ==
  ASSUME RequestBase, NEW r \in Requests, req[r].pc \in Asking
  PROVE  /\ req[r] \in Conn!RequestStates /\ Sound(req[r]) /\ req[r].token # 0 /\ req[r].token \in Conn!Grants
         /\ req[r].source \in 0 .. MaxRemote /\ req[r].link \in 0 .. MaxRemote
         /\ req[r].pc \in {"links", "making link"} => req[r].source \in Conn!Remote
<1>1. /\ req[r] \in Conn!RequestStates /\ Sound(req[r]) /\ req[r].token \in Conn!Grants
      /\ req[r].source \in 0 .. MaxRemote /\ req[r].link \in 0 .. MaxRemote
  BY RequestMemoryFacts
<1>2. req[r].token # 0 /\ (req[r].pc \in {"links", "making link"} => req[r].source # 0)
  BY <1>1 DEF Asking, Sound, Conn!Provisioning
<1>3. MaxRemote \in Nat /\ Conn!Remote = 1 .. MaxRemote
  BY ConnTypes
<1>4. req[r].pc \in {"links", "making link"} => req[r].source \in Conn!Remote
  <2>1. PICK s : s = req[r].source
    OBVIOUS
  <2>2. s \in 0 .. MaxRemote /\ (s # 0 => s \in Conn!Remote)
    BY <1>1, <1>3, <2>1
  <2> QED BY <1>2, <2>1, <2>2
<1> QED BY <1>1, <1>2, <1>4

\* An entry of a sequence is replaced, or nothing is.
LEMMA UpdateFacts ==
  ASSUME NEW S, NEW s \in Seq(S), NEW new \in S, NEW i
  PROVE  [s EXCEPT ![i] = new] \in Seq(S) /\ Len([s EXCEPT ![i] = new]) = Len(s)
<1>1. CASE i \in DOMAIN s
  BY <1>1
<1>2. CASE i \notin DOMAIN s
  <2>1. [s EXCEPT ![i] = new] = s
    BY <1>2
  <2> QED BY <2>1
<1> QED BY <1>1, <1>2

LEMMA ListSourcesFacts ==
  ASSUME RequestBase, NEW r \in Requests, Conn!ListSources(r)
  PROVE  \E me \in Conn!RequestStates : Worked(r, me)
<1>0. req[r].pc = "sources" /\ req[r].pc \in Asking
  BY DEF Conn!ListSources, Conn!At, Asking
<1>1. PICK s \in IF sources = <<>> THEN {0} ELSE DOMAIN sources :
        Conn!Go(r, [req[r] EXCEPT !.pc = "making source", !.source = s])
  BY DEF Conn!ListSources
<1>2. s \in 0 .. MaxRemote /\ (s = 0 => sources = <<>>)
  BY <1>1, SequenceFacts
<1>3. PICK me : me = [req[r] EXCEPT !.pc = "making source", !.source = s]
  OBVIOUS
<1>4. me \in Conn!RequestStates /\ me.pc = "making source" /\ me.source = s /\ me.token # 0
  BY <1>0, <1>2, <1>3, WorkFacts DEF Conn!RequestStates, Conn!Provisioning
<1>5. Sound(me) /\ me.pc \in Asking
  BY <1>4 DEF Sound, Asking
<1>6. RequestBecomes(r, me)
  BY <1>1, <1>3, <1>4, GoFacts
<1> QED BY <1>0, <1>2, <1>4, <1>5, <1>6, ConnTypes DEF Worked, Conn!ListSources, Conn!airbyte

LEMMA ReuseSourceFacts ==
  ASSUME RequestBase, NEW r \in Requests, Conn!ReuseSource(r)
  PROVE  \E me \in Conn!RequestStates : Worked(r, me)
<1>0. req[r].pc = "making source" /\ req[r].pc \in Asking /\ req[r].source # 0
  BY DEF Conn!ReuseSource, Conn!At, Asking
<1>1. PICK me : me = [req[r] EXCEPT !.pc = "links"]
  OBVIOUS
<1>2. me \in Conn!RequestStates /\ me.pc = "links" /\ me.source # 0 /\ me.token # 0
  BY <1>0, <1>1, WorkFacts DEF Conn!RequestStates, Conn!Provisioning
<1>3. Sound(me) /\ me.pc \in Asking
  BY <1>2 DEF Sound, Asking
<1>4. RequestBecomes(r, me)
  BY <1>1, <1>2, GoFacts DEF Conn!ReuseSource
<1>5. PICK new \in Conn!Grants \ {0} : new = req[r].token
  BY <1>0, WorkFacts
<1>6. sources' = [sources EXCEPT ![req[r].source] = new] \/ sources' = sources
  BY <1>5 DEF Conn!ReuseSource, Conn!Configured
<1>7. sources' \in Seq(Conn!Grants \ {0}) /\ Len(sources') = Len(sources)
  BY <1>6, UpdateFacts, ConnTypes
<1> QED BY <1>0, <1>2, <1>3, <1>4, <1>7, ConnTypes DEF Worked, Conn!ReuseSource

LEMMA CreateSourceFacts ==
  ASSUME RequestBase, NEW r \in Requests, Conn!CreateSource(r)
  PROVE  \E me \in Conn!RequestStates : Worked(r, me)
<1>0. req[r].pc = "making source" /\ req[r].pc \in Asking /\ req[r].source = 0
  BY DEF Conn!CreateSource, Conn!At, Asking
<1>7. Len(sources) < MaxRemote
  BY DEF Conn!CreateSource
<1>1. PICK new \in Conn!Grants \ {0} : new = req[r].token
  BY <1>0, WorkFacts
<1>2. sources' = Append(sources, new)
  BY <1>1 DEF Conn!CreateSource
<1>3. sources' \in Seq(Conn!Grants \ {0}) /\ Len(sources') = Len(sources) + 1 /\ Len(sources') <= MaxRemote
  <2>1. sources \in Seq(Conn!Grants \ {0}) /\ Len(sources) \in Nat /\ MaxRemote \in Nat
    BY ConnTypes, SequenceFacts
  <2>2. sources' \in Seq(Conn!Grants \ {0}) /\ Len(sources') = Len(sources) + 1
    BY <1>2, <2>1
  <2> QED BY <1>7, <2>1, <2>2
<1>4. CASE Conn!Go(r, [req[r] EXCEPT !.pc = "links", !.source = Len(sources) + 1]) /\ UNCHANGED holder
  <2>1. PICK s : s = Len(sources) + 1
    OBVIOUS
  <2>2. s \in 0 .. MaxRemote /\ s # 0
    <3>1. Len(sources) \in Nat /\ MaxRemote \in Nat
      BY ConnTypes, SequenceFacts
    <3> QED BY <1>7, <2>1, <3>1
  <2>3. PICK me : me = [req[r] EXCEPT !.pc = "links", !.source = s]
    OBVIOUS
  <2>4. me \in Conn!RequestStates /\ me.pc = "links" /\ me.source # 0 /\ me.token # 0
    BY <1>0, <2>2, <2>3, WorkFacts DEF Conn!RequestStates, Conn!Provisioning
  <2>5. Sound(me) /\ me.pc \in Asking
    BY <2>4 DEF Sound, Asking
  <2>6. RequestBecomes(r, me)
    BY <1>4, <2>1, <2>3, <2>4, GoFacts
  <2> QED BY <1>0, <1>3, <1>4, <2>4, <2>5, <2>6, ConnTypes DEF Worked, Conn!CreateSource
<1>5. CASE Conn!Is("google_ads") /\ UNCHANGED <<req, holder>>
  <2>1. ~Conn!Is("ga4")
    BY <1>5 DEF Conn!Is
  <2>2. RequestBecomes(r, req[r]) /\ req[r] \in Conn!RequestStates /\ Sound(req[r])
    BY <1>0, <1>5, WorkFacts, ConnTypes DEF RequestBecomes
  <2> QED BY <1>0, <1>3, <1>5, <2>1, <2>2, ConnTypes DEF Worked, Conn!CreateSource
<1>6. CASE Conn!End(r)
  <2>1. RequestEnded(r) /\ Conn!AtRest \in Conn!RequestStates /\ Sound(Conn!AtRest) /\ Conn!AtRest.pc = "idle"
    BY <1>6, EndFacts, AtRestFacts
  <2> QED BY <1>0, <1>3, <2>1, ConnTypes DEF Worked, Conn!CreateSource, RequestEnded
<1> QED BY <1>4, <1>5, <1>6 DEF Conn!CreateSource

LEMMA ListLinksFacts ==
  ASSUME RequestBase, NEW r \in Requests, Conn!ListLinks(r)
  PROVE  \E me \in Conn!RequestStates : Worked(r, me)
<1>0. req[r].pc = "links" /\ req[r].pc \in Asking
  BY DEF Conn!ListLinks, Conn!At, Asking
<1>1. PICK l \in IF links = <<>> THEN {0} ELSE DOMAIN links :
        Conn!Go(r, [req[r] EXCEPT !.pc = "making link", !.link = l])
  BY DEF Conn!ListLinks
<1>2. l \in 0 .. MaxRemote /\ (l = 0 => links = <<>>)
  BY <1>1, SequenceFacts
<1>3. PICK me : me = [req[r] EXCEPT !.pc = "making link", !.link = l]
  OBVIOUS
<1>4. me \in Conn!RequestStates /\ me.pc = "making link" /\ me.link = l /\ me.token # 0 /\ me.source # 0
  BY <1>0, <1>2, <1>3, WorkFacts, SequenceFacts DEF Conn!RequestStates, Conn!Provisioning
<1>5. Sound(me) /\ me.pc \in Asking
  BY <1>4 DEF Sound, Asking
<1>6. RequestBecomes(r, me)
  BY <1>1, <1>3, <1>4, GoFacts
<1> QED BY <1>0, <1>2, <1>4, <1>5, <1>6, ConnTypes DEF Worked, Conn!ListLinks, Conn!airbyte

LEMMA ReuseLinkFacts ==
  ASSUME RequestBase, NEW r \in Requests, Conn!ReuseLink(r)
  PROVE  \E me \in Conn!RequestStates : Worked(r, me)
<1>0. req[r].pc = "making link" /\ req[r].pc \in Asking /\ req[r].link # 0
  BY DEF Conn!ReuseLink, Conn!At, Asking
<1>1. PICK me : me = [req[r] EXCEPT !.pc = "saving", !.source = 0]
  OBVIOUS
<1>2. me \in Conn!RequestStates /\ me.pc = "saving" /\ me.link # 0 /\ me.token # 0
  BY <1>0, <1>1, WorkFacts, SequenceFacts DEF Conn!RequestStates, Conn!Provisioning
<1>3. Sound(me)
  BY <1>2 DEF Sound
<1>4. RequestBecomes(r, me)
  BY <1>1, <1>2, GoFacts DEF Conn!ReuseLink
<1>5. PICK new \in Conn!Remote : new = req[r].source
  BY <1>0, WorkFacts
<1>6. links' = [links EXCEPT ![req[r].link] = new]
  BY <1>5 DEF Conn!ReuseLink
<1>7. links' \in Seq(Conn!Remote) /\ Len(links') = Len(links)
  BY <1>6, UpdateFacts, ConnTypes
<1> QED BY <1>0, <1>2, <1>3, <1>4, <1>7, ConnTypes DEF Worked, Conn!ReuseLink, Released

LEMMA CreateLinkFacts ==
  ASSUME RequestBase, NEW r \in Requests, Conn!CreateLink(r)
  PROVE  \E me \in Conn!RequestStates : Worked(r, me)
<1>0. req[r].pc = "making link" /\ req[r].pc \in Asking /\ req[r].link = 0
  BY DEF Conn!CreateLink, Conn!At, Asking
<1>7. Len(links) < MaxRemote
  BY DEF Conn!CreateLink
<1>1. PICK new \in Conn!Remote : new = req[r].source
  BY <1>0, WorkFacts
<1>2. links' = Append(links, new)
  BY <1>1 DEF Conn!CreateLink
<1>3. links' \in Seq(Conn!Remote) /\ Len(links') = Len(links) + 1 /\ Len(links') <= MaxRemote
  <2>1. links \in Seq(Conn!Remote) /\ Len(links) \in Nat /\ MaxRemote \in Nat
    BY ConnTypes, SequenceFacts
  <2>2. links' \in Seq(Conn!Remote) /\ Len(links') = Len(links) + 1
    BY <1>2, <2>1
  <2> QED BY <1>7, <2>1, <2>2
<1>4. CASE /\ Conn!Go(r, [req[r] EXCEPT !.pc = "saving", !.source = 0, !.link = Len(links) + 1])
           /\ holder' = IF holder = r THEN NoRequest ELSE holder
  <2>1. PICK l : l = Len(links) + 1
    OBVIOUS
  <2>2. l \in 0 .. MaxRemote /\ l # 0 /\ 0 \in 0 .. MaxRemote
    <3>1. Len(links) \in Nat /\ MaxRemote \in Nat
      BY ConnTypes, SequenceFacts
    <3> QED BY <1>7, <2>1, <3>1
  <2>3. PICK me : me = [req[r] EXCEPT !.pc = "saving", !.source = 0, !.link = l]
    OBVIOUS
  <2>4. me \in Conn!RequestStates /\ me.pc = "saving" /\ me.link # 0 /\ me.token # 0
    BY <1>0, <2>2, <2>3, WorkFacts DEF Conn!RequestStates, Conn!Provisioning
  <2>5. Sound(me)
    BY <2>4 DEF Sound
  <2>6. RequestBecomes(r, me)
    BY <1>4, <2>1, <2>3, <2>4, GoFacts
  <2> QED BY <1>0, <1>3, <1>4, <2>4, <2>5, <2>6, ConnTypes DEF Worked, Conn!CreateLink, Released
<1>5. CASE Conn!End(r)
  <2>1. RequestEnded(r) /\ Conn!AtRest \in Conn!RequestStates /\ Sound(Conn!AtRest) /\ Conn!AtRest.pc = "idle"
    BY <1>5, EndFacts, AtRestFacts
  <2> QED BY <1>0, <1>3, <2>1, ConnTypes DEF Worked, Conn!CreateLink, RequestEnded
<1> QED BY <1>4, <1>5 DEF Conn!CreateLink

LEMMA TimeOutFacts ==
  ASSUME RequestBase, NEW r \in Requests, Conn!TimeOut(r)
  PROVE  \E me \in Conn!RequestStates : Worked(r, me)
<1>0. req[r].pc \in {"making source", "making link"} /\ req[r].pc \in Asking
  BY DEF Conn!TimeOut, Conn!At, Asking
<1>1. RequestEnded(r) /\ Conn!AtRest \in Conn!RequestStates /\ Sound(Conn!AtRest) /\ Conn!AtRest.pc = "idle"
  BY EndFacts, AtRestFacts DEF Conn!TimeOut
<1> QED BY <1>0, <1>1, ConnTypes DEF Worked, Conn!TimeOut, RequestEnded, Conn!airbyte

LEMMA RecordFacts ==
  ASSUME RequestBase, NEW r \in Requests, Conn!SaveConnection(r)
  PROVE  Recorded(r)
<1>1. RequestEnded(r) /\ req[r].pc = "saving"
  BY EndFacts DEF Conn!SaveConnection, Conn!At
<1>2. local' \in [Conn!Remote -> {"none", "active", "paused"}]
  BY ConnTypes DEF Conn!SaveConnection
<1> QED BY <1>1, <1>2 DEF Recorded, Conn!SaveConnection

LEMMA DisconnectFacts ==
  ASSUME RequestBase, NEW r \in Requests, Conn!DeleteCredentials(r)
  PROVE  Disconnected(r)
<1>1. RequestEnded(r) /\ req[r].pc = "paused"
  BY EndFacts DEF Conn!DeleteCredentials, Conn!At
<1>2. PICK rows \in SUBSET Conn!Remote : rows = req[r].rows
  BY RequestMemoryFacts DEF Conn!RequestStates
<1>3. local' = Conn!Paused(rows)
  BY <1>2 DEF Conn!DeleteCredentials
<1>4. Hushed /\ \A l \in rows : local'[l] # "active"
  BY <1>3, PausedFacts DEF Hushed
<1> QED BY <1>1, <1>2, <1>4 DEF Conn!DeleteCredentials, Disconnected

\* Every step is of one of these kinds.
RequestKinds ==
  \/ UNCHANGED Conn!vars
  \/ Conn!Exchange \/ Conn!Land \/ Conn!DeleteCredential
  \/ \E r \in Requests :
       \/ RequestEnded(r) /\ UNCHANGED <<provider, cred, Conn!airbyte, local, granted, late, Conn!history>>
       \/ Saved(r) \/ Recorded(r)
       \/ Disconnected(r)
       \/ \E me \in Conn!RequestStates : Begun(r, me) \/ RequestCreated(r, me) \/ LockTaken(r, me) \/ Worked(r, me)

LEMMA RequestNextKinds ==
  ASSUME RequestBase, [Conn!Next]_Conn!vars
  PROVE  RequestKinds
<1>1. ASSUME NEW r \in Requests,
             \/ Conn!StartCallback(r) \/ Conn!StartRefresh(r) \/ Conn!StartProvision(r) \/ Conn!PauseConnections(r)
             \/ Conn!GetOrCreate(r) \/ Conn!SaveCredential(r) \/ Conn!Lock(r) \/ Conn!SaveConnection(r)
      PROVE  RequestKinds
  BY <1>1, CallbackFacts, RefreshFacts, ProvisionFacts, PauseFacts, CreateFacts, SaveFacts, LockFacts, RecordFacts DEF RequestKinds
<1>2. ASSUME NEW r \in Requests,
             \/ Conn!ListSources(r) \/ Conn!ReuseSource(r) \/ Conn!CreateSource(r) \/ Conn!ListLinks(r) \/ Conn!ReuseLink(r) \/ Conn!CreateLink(r)
             \/ Conn!TimeOut(r)
      PROVE  RequestKinds
  BY <1>2, ListSourcesFacts, ReuseSourceFacts, CreateSourceFacts, ListLinksFacts, ReuseLinkFacts, CreateLinkFacts,
     TimeOutFacts DEF RequestKinds
<1>3. ASSUME NEW r \in Requests, Conn!DeleteCredentials(r) PROVE RequestKinds
  BY <1>3, DisconnectFacts DEF RequestKinds
<1>4. ASSUME NEW r \in Requests, Conn!GiveUp(r) PROVE RequestKinds
  BY <1>4, EndFacts DEF RequestKinds, Conn!GiveUp
<1>5. UNCHANGED Conn!vars \/ Conn!Exchange \/ Conn!Land \/ Conn!DeleteCredential => RequestKinds
  BY DEF RequestKinds
<1> QED BY <1>1, <1>2, <1>3, <1>4, <1>5 DEF Conn!Next

LEMMA AppendFacts ==
  ASSUME NEW S, NEW s \in Seq(S), NEW new \in S
  PROVE  /\ Append(s, new) \in Seq(S) /\ Len(s) \in Nat /\ Len(Append(s, new)) = Len(s) + 1
         /\ DOMAIN s = 1 .. Len(s) /\ DOMAIN Append(s, new) = 1 .. Len(s) + 1
         /\ Append(s, new)[Len(s) + 1] = new /\ \A i \in DOMAIN s : Append(s, new)[i] = s[i]
OBVIOUS

LEMMA LandFacts ==
  ASSUME RequestBase, Conn!Land
  PROVE  /\ sources' \in Seq(Conn!Grants \ {0}) /\ links' \in Seq(Conn!Remote) /\ late' \in Seq(Conn!RequestStates)
         /\ Len(sources') <= MaxRemote /\ Len(links') <= MaxRemote
         /\ \A i \in DOMAIN late' : i + 1 \in DOMAIN late /\ late'[i] = late[i + 1]
<1>1. late \in Seq(Conn!RequestStates) /\ late # <<>> /\ late' = Tail(late)
  BY ConnTypes DEF Conn!Land
<1>2. PICK first \in Conn!RequestStates : first = Head(late)
  BY <1>1
<1>3. first.pc \in {"making source", "making link"} /\ Sound(first)
  <2>1. 1 \in DOMAIN late /\ first = late[1]
    BY <1>1, <1>2
  <2> QED BY <2>1 DEF RequestBase, SoundInv
<1>4. first.token \in Conn!Grants \ {0} /\ (first.pc = "making link" => first.source \in Conn!Remote)
  <2>1. first.token \in Conn!Grants /\ first.source \in 0 .. MaxRemote
    BY <1>2 DEF Conn!RequestStates
  <2>2. first.token # 0 /\ (first.pc = "making link" => first.source # 0)
    BY <1>3 DEF Sound, Conn!Provisioning
  <2>3. \A s \in 0 .. MaxRemote : s # 0 => s \in Conn!Remote
    BY ConnTypes
  <2> QED BY <2>1, <2>2, <2>3
<1>5. sources \in Seq(Conn!Grants \ {0}) /\ links \in Seq(Conn!Remote) /\ Len(sources) <= MaxRemote /\ Len(links) <= MaxRemote
      /\ MaxRemote \in Nat
  BY ConnTypes
<1>6. CASE first.pc = "making source"
  <2>1. sources' = Append(sources, first.token) /\ Len(sources) < MaxRemote /\ links' = links
    BY <1>2, <1>6 DEF Conn!Land
  <2>2. sources' \in Seq(Conn!Grants \ {0}) /\ Len(sources') <= MaxRemote
    <3>1. sources' \in Seq(Conn!Grants \ {0}) /\ Len(sources) \in Nat /\ Len(sources') = Len(sources) + 1
      <4>1. PICK Tokens : Tokens = Conn!Grants \ {0}
        OBVIOUS
      <4>2. PICK new \in Tokens : new = first.token
        BY <1>4, <4>1
      <4>3. sources \in Seq(Tokens) /\ sources' = Append(sources, new)
        BY <1>5, <2>1, <4>1, <4>2
      <4>4. sources' \in Seq(Tokens) /\ Len(sources) \in Nat /\ Len(sources') = Len(sources) + 1
        BY <4>3, AppendFacts
      <4> QED BY <4>1, <4>4
    <3> QED BY <1>5, <2>1, <3>1
  <2> QED BY <1>1, <1>5, <2>1, <2>2
<1>7. CASE first.pc # "making source"
  <2>1. links' = Append(links, first.source) /\ Len(links) < MaxRemote /\ sources' = sources
    BY <1>2, <1>7 DEF Conn!Land
  <2>2. links' \in Seq(Conn!Remote) /\ Len(links') <= MaxRemote
    <3>1. first.source \in Conn!Remote
      BY <1>3, <1>4, <1>7
    <3>2. links' \in Seq(Conn!Remote) /\ Len(links) \in Nat /\ Len(links') = Len(links) + 1
      BY <1>5, <2>1, <3>1, AppendFacts
    <3> QED BY <1>5, <2>1, <3>2
  <2> QED BY <1>1, <1>5, <2>1, <2>2
<1> QED BY <1>6, <1>7

LEMMA ExchangeFacts ==
  ASSUME RequestBase, Conn!Exchange
  PROVE  /\ cred' \in Conn!Credentials /\ cred'.key # 0 /\ granted' \in Conn!Grants /\ grant' \in Conn!Grants
         /\ \E token \in Conn!Grants :
              cred'.token = Conn!Token(token, cred.token)
              /\ grant' = IF token # 0 THEN token ELSE IF cred.key = 0 THEN 0 ELSE grant
<1>1. PICK token \in {0, granted + 1} :
        /\ cred' = [key |-> IF cred.key = 0 THEN granted + 1 ELSE cred.key, token |-> Conn!Token(token, cred.token)]
        /\ grant' = IF token # 0 THEN token ELSE IF cred.key = 0 THEN 0 ELSE grant
  BY DEF Conn!Exchange
<1>2. granted + 1 \in Conn!Grants /\ granted + 1 # 0 /\ token \in Conn!Grants
  BY <1>1, ConnTypes DEF Conn!Exchange
<1>3. PICK key : key = IF cred.key = 0 THEN granted + 1 ELSE cred.key
  OBVIOUS
<1>4. PICK new : new = Conn!Token(token, cred.token)
  OBVIOUS
<1>5. key \in Conn!Grants /\ key # 0 /\ new \in Conn!Grants
  BY <1>2, <1>3, <1>4, ConnTypes DEF Conn!Token
<1>6. cred' \in Conn!Credentials /\ cred'.key = key /\ cred'.token = new
  BY <1>1, <1>3, <1>4, <1>5 DEF Conn!Credentials
<1>7. granted' \in Conn!Grants /\ grant' \in Conn!Grants
  BY <1>1, <1>2, ConnTypes DEF Conn!Exchange
<1> QED BY <1>1, <1>2, <1>4, <1>5, <1>6, <1>7

LEMMA NoCredentialFacts ==
  ASSUME RequestBase
  PROVE  Conn!NoCredential \in Conn!Credentials /\ Conn!NoCredential.key = 0 /\ Conn!NoCredential.token = 0
BY ConnTypes DEF Conn!NoCredential, Conn!Credentials

LEMMA RequestTypeStep ==
  ASSUME RequestBase, RequestKinds
  PROVE  Conn!TypeInvariant'
<1>0. /\ provider \in Providers /\ cred \in Conn!Credentials
      /\ sources \in Seq(Conn!Grants \ {0}) /\ links \in Seq(Conn!Remote) /\ late \in Seq(Conn!RequestStates)
      /\ Len(sources) <= MaxRemote /\ Len(links) <= MaxRemote
      /\ local \in [Conn!Remote -> {"none", "active", "paused"}] /\ req \in [Requests -> Conn!RequestStates]
      /\ holder \in Requests \cup {NoRequest} /\ granted \in Conn!Grants /\ grant \in Conn!Grants
      /\ mixed \in BOOLEAN /\ delayed \in BOOLEAN /\ closed \in BOOLEAN
      /\ survivors \subseteq {"connection", "credential"} /\ 0 \in Conn!Grants
  BY ConnTypes DEF RequestBase, Conn!TypeInvariant
<1>1. CASE UNCHANGED Conn!vars
  BY <1>0, <1>1 DEF Conn!vars, Conn!airbyte, Conn!history, Conn!TypeInvariant
<1>2. CASE Conn!Exchange
  <2>1. survivors' \in {survivors, {}}
    BY <1>2 DEF Conn!Exchange, Conn!Reopen
  <2> QED BY <1>0, <1>2, <2>1, ExchangeFacts DEF Conn!Exchange, Conn!Reopen, Conn!airbyte, Conn!TypeInvariant
<1>3. CASE Conn!Land
  BY <1>0, <1>3, LandFacts DEF Conn!Land, Conn!TypeInvariant
<1>4. CASE Conn!DeleteCredential
  BY <1>0, <1>4, NoCredentialFacts DEF Conn!DeleteCredential, Conn!airbyte, Conn!TypeInvariant
<1>5. ASSUME NEW r \in Requests, RequestEnded(r)
      PROVE  req' \in [Requests -> Conn!RequestStates] /\ holder' \in Requests \cup {NoRequest}
  BY <1>0, <1>5 DEF RequestEnded, RequestBecomes, Released
<1>6. ASSUME NEW r \in Requests, RequestEnded(r) /\ UNCHANGED <<provider, cred, Conn!airbyte, local, granted, late, Conn!history>> PROVE Conn!TypeInvariant'
  BY <1>0, <1>5, <1>6 DEF Conn!airbyte, Conn!history, Conn!TypeInvariant
<1>7. ASSUME NEW r \in Requests, Saved(r) PROVE Conn!TypeInvariant'
  <2>1. cred' \in Conn!Credentials /\ grant' \in Conn!Grants
    BY <1>0, <1>7, RequestMemoryFacts DEF Saved
  <2> QED BY <1>0, <1>5, <1>7, <2>1 DEF Saved, Conn!airbyte, Conn!TypeInvariant
<1>8. ASSUME NEW r \in Requests, Recorded(r) PROVE Conn!TypeInvariant'
  <2>1. survivors' \subseteq {"connection", "credential"}
    BY <1>0, <1>8 DEF Recorded
  <2> QED BY <1>0, <1>5, <1>8, <2>1 DEF Recorded, Conn!airbyte, Conn!TypeInvariant
<1>9. ASSUME NEW r \in Requests, Disconnected(r) PROVE Conn!TypeInvariant'
  <2>1. survivors' \subseteq {"connection", "credential"} /\ closed' = TRUE
    BY <1>0, <1>9 DEF Disconnected, Conn!Close
  <2>2. req' \in [Requests -> Conn!RequestStates] /\ holder' \in Requests \cup {NoRequest}
    BY <1>0, <1>5, <1>9 DEF Disconnected
  <2>3. local' \in [Conn!Remote -> {"none", "active", "paused"}]
    BY <1>9 DEF Disconnected, Hushed
  <2> QED BY <1>0, <1>9, <2>1, <2>2, <2>3, NoCredentialFacts DEF Disconnected, Conn!airbyte, Conn!TypeInvariant
<1>10. ASSUME NEW r \in Requests, NEW me \in Conn!RequestStates, Begun(r, me) PROVE Conn!TypeInvariant'
  <2>1. local' \in [Conn!Remote -> {"none", "active", "paused"}] /\ req' \in [Requests -> Conn!RequestStates]
    BY <1>0, <1>10 DEF Begun, RequestBecomes, Hushed
  <2>2. survivors' \subseteq {"connection", "credential"} /\ closed' = FALSE
    BY <1>0, <1>10 DEF Begun, Opened
  <2> QED BY <1>0, <1>10, <2>1, <2>2 DEF Begun, Conn!airbyte, Conn!TypeInvariant
<1>11. ASSUME NEW r \in Requests, NEW me \in Conn!RequestStates, RequestCreated(r, me) PROVE Conn!TypeInvariant'
  BY <1>0, <1>11 DEF RequestCreated, RequestBecomes, Conn!airbyte, Conn!TypeInvariant
<1>12. ASSUME NEW r \in Requests, NEW me \in Conn!RequestStates, LockTaken(r, me) PROVE Conn!TypeInvariant'
  BY <1>0, <1>12 DEF LockTaken, RequestBecomes, Conn!airbyte, Conn!history, Conn!TypeInvariant
<1>13. ASSUME NEW r \in Requests, NEW me \in Conn!RequestStates, Worked(r, me) PROVE Conn!TypeInvariant'
  <2>1. late' \in Seq(Conn!RequestStates)
    <3>1. req[r] \in Conn!RequestStates
      BY <1>0
    <3>2. late' = late \/ late' = Append(late, req[r])
      BY <1>13 DEF Worked
    <3> QED BY <1>0, <3>1, <3>2, AppendFacts
  <2>2. holder' \in Requests \cup {NoRequest} /\ req' \in [Requests -> Conn!RequestStates]
    BY <1>0, <1>13 DEF Worked, Released, RequestBecomes
  <2> QED BY <1>0, <1>13, <2>1, <2>2 DEF Worked, Conn!history, Conn!TypeInvariant
<1> QED BY <1>1, <1>2, <1>3, <1>4, <1>6, <1>7, <1>8, <1>9, <1>10, <1>11, <1>12, <1>13 DEF RequestKinds

LEMMA SoundStep ==
  ASSUME RequestBase, RequestKinds
  PROVE  SoundInv'
<1>0. /\ \A q \in Requests : Sound(req[q])
      /\ \A i \in DOMAIN late : late[i].pc \in {"making source", "making link"} /\ Sound(late[i])
      /\ cred.token # 0 => cred.key # 0
      /\ Sound(Conn!AtRest) /\ late \in Seq(Conn!RequestStates)
  BY AtRestFacts, ConnTypes DEF RequestBase, SoundInv
<1>1. ASSUME NEW r \in Requests, NEW me, RequestBecomes(r, me), Sound(me) PROVE \A q \in Requests : Sound(req'[q])
  BY <1>0, <1>1 DEF RequestBecomes
<1>2. ASSUME \A q \in Requests : Sound(req'[q]), UNCHANGED late, cred'.token # 0 => cred'.key # 0 PROVE SoundInv'
  BY <1>0, <1>2 DEF SoundInv
<1>3. CASE UNCHANGED Conn!vars
  BY <1>0, <1>2, <1>3 DEF Conn!vars
<1>4. CASE Conn!Exchange
  BY <1>0, <1>2, <1>4, ExchangeFacts DEF Conn!Exchange
<1>5. CASE Conn!Land
  <2>1. UNCHANGED <<req, cred>>
    BY <1>5 DEF Conn!Land
  <2>2. \A i \in DOMAIN late' : late'[i].pc \in {"making source", "making link"} /\ Sound(late'[i])
    BY <1>0, <1>5, LandFacts
  <2> QED BY <1>0, <2>1, <2>2 DEF SoundInv
<1>6. CASE Conn!DeleteCredential
  BY <1>0, <1>2, <1>6, NoCredentialFacts DEF Conn!DeleteCredential
<1>7. ASSUME NEW r \in Requests, RequestEnded(r), UNCHANGED <<cred, late>> PROVE SoundInv'
  BY <1>0, <1>1, <1>2, <1>7 DEF RequestEnded
<1>8. ASSUME NEW r \in Requests, Saved(r) PROVE SoundInv'
  <2>1. cred'.token # 0 => cred'.key # 0
    BY <1>0, <1>8 DEF Saved, Sound
  <2> QED BY <1>0, <1>1, <1>2, <1>8, <2>1 DEF Saved, RequestEnded
<1>9. ASSUME NEW r \in Requests, Disconnected(r) PROVE SoundInv'
  BY <1>0, <1>1, <1>2, <1>9, NoCredentialFacts DEF Disconnected, RequestEnded
<1>10. ASSUME NEW r \in Requests, NEW me \in Conn!RequestStates, Begun(r, me) \/ LockTaken(r, me) PROVE SoundInv'
  BY <1>0, <1>1, <1>2, <1>10 DEF Begun, LockTaken
<1>11. ASSUME NEW r \in Requests, NEW me \in Conn!RequestStates, RequestCreated(r, me) PROVE SoundInv'
  BY <1>0, <1>1, <1>2, <1>11 DEF RequestCreated
<1>12. ASSUME NEW r \in Requests, NEW me \in Conn!RequestStates, Worked(r, me) PROVE SoundInv'
  <2>1. UNCHANGED cred /\ \A q \in Requests : Sound(req'[q])
    BY <1>1, <1>12 DEF Worked
  <2>2. CASE UNCHANGED late
    BY <1>0, <1>2, <2>1, <2>2
  <2>3. CASE late' = Append(late, req[r]) /\ req[r].pc \in {"making source", "making link"}
    <3>1. PICK old \in Conn!RequestStates : old = req[r]
      BY ConnTypes
    <3>2. Len(late) \in Nat /\ DOMAIN late' = 1 .. Len(late) + 1 /\ DOMAIN late = 1 .. Len(late)
          /\ late'[Len(late) + 1] = old /\ \A i \in DOMAIN late : late'[i] = late[i]
      <4>1. late' = Append(late, old)
        BY <2>3, <3>1
      <4>2. late \in Seq(Conn!RequestStates)
        BY <1>0
      <4> QED BY <4>1, <4>2, AppendFacts
    <3>3. \A i \in DOMAIN late' : i \in DOMAIN late \/ late'[i] = old
      BY <3>2
    <3>4. \A i \in DOMAIN late' : late'[i].pc \in {"making source", "making link"} /\ Sound(late'[i])
      BY <1>0, <2>3, <3>1, <3>2, <3>3
    <3> QED BY <1>0, <2>1, <3>4 DEF SoundInv
  <2> QED BY <1>12, <2>2, <2>3 DEF Worked
<1>13. ASSUME NEW r \in Requests, Recorded(r) PROVE SoundInv'
  BY <1>7, <1>13 DEF Recorded
<1> QED BY <1>3, <1>4, <1>5, <1>6, <1>7, <1>8, <1>9, <1>10, <1>11, <1>12, <1>13 DEF RequestKinds

\* The provider is fixed, and the history only grows.
LEMMA RequestKindsMove ==
  ASSUME RequestBase, RequestKinds
  PROVE  provider' = provider /\ (delayed => delayed') /\ (mixed => mixed')
<1>1. UNCHANGED Conn!vars => UNCHANGED <<provider, delayed, mixed>>
  BY DEF Conn!vars, Conn!history
<1>2. Conn!Exchange \/ Conn!Land \/ Conn!DeleteCredential => provider' = provider /\ (delayed => delayed') /\ (mixed => mixed')
  <2>1. Conn!Exchange => provider' = provider /\ (delayed => delayed') /\ (mixed => mixed')
    BY ConnTypes DEF Conn!Exchange
  <2>2. Conn!Land => provider' = provider /\ (delayed => delayed') /\ (mixed => mixed')
    <3>1. Conn!Land => provider' = provider /\ delayed' = TRUE /\ mixed' = mixed
      BY DEF Conn!Land
    <3> QED BY <3>1
  <2>3. Conn!DeleteCredential => provider' = provider /\ (delayed => delayed') /\ (mixed => mixed')
    BY DEF Conn!DeleteCredential
  <2> QED BY <2>1, <2>2, <2>3
<1>3. ASSUME NEW r \in Requests, Saved(r) \/ Recorded(r) PROVE UNCHANGED <<provider, delayed, mixed>>
  BY <1>3 DEF Saved, Recorded
<1>4. ASSUME NEW r \in Requests, Disconnected(r) PROVE UNCHANGED <<provider, delayed, mixed>>
  BY <1>4 DEF Disconnected
<1>5. ASSUME NEW r \in Requests, NEW me, Begun(r, me) \/ RequestCreated(r, me)
      PROVE  provider' = provider /\ (delayed => delayed') /\ (mixed => mixed')
  BY <1>5 DEF Begun, RequestCreated
<1>6. ASSUME NEW r \in Requests, NEW me, LockTaken(r, me) \/ Worked(r, me)
      PROVE  UNCHANGED <<provider, delayed, mixed>>
  BY <1>6 DEF LockTaken, Worked, Conn!history
<1>7. UNCHANGED Conn!history => UNCHANGED <<delayed, mixed>>
  BY DEF Conn!history
<1> QED BY <1>1, <1>2, <1>3, <1>4, <1>5, <1>6, <1>7 DEF RequestKinds

LEMMA RequestBaseStep ==
  ASSUME RequestBase, RequestKinds
  PROVE  RequestBase'
BY RequestTypeStep, SoundStep DEF RequestBase

(***************************************************************************)
(* The lock of ga4's provisioning, and what is made under it.              *)
(***************************************************************************)
\* A request works in Airbyte only while it holds the lock.
LockInv == Conn!Is("ga4") => \A r \in Requests : req[r].pc \in Asking => holder = r
\* What a request found missing is still missing when it makes it.
OneInv == Conn!Is("ga4") /\ ~delayed =>
  /\ Len(sources) <= 1 /\ Len(links) <= 1
  /\ \A r \in Requests : req[r].pc = "making source" /\ req[r].source = 0 => sources = <<>>
  /\ \A r \in Requests : req[r].pc = "making link" /\ req[r].link = 0 => links = <<>>

LEMMA LockStep ==
  ASSUME RequestBase, LockInv, RequestKinds, NoRequest \notin Requests
  PROVE  LockInv'
<1>0. Conn!AtRest.pc = "idle" /\ "idle" \notin Asking
  BY AtRestFacts DEF Asking
<1>1. provider' = provider
  BY RequestKindsMove
<1> SUFFICES ASSUME Conn!Is("ga4"), \A q \in Requests : req[q].pc \in Asking => holder = q
             PROVE  \A q \in Requests : req'[q].pc \in Asking => holder' = q
  BY <1>1 DEF LockInv, Conn!Is
<1>2. CASE UNCHANGED Conn!vars \/ Conn!Exchange \/ Conn!Land \/ Conn!DeleteCredential
  BY <1>2 DEF Conn!vars, Conn!Exchange, Conn!Land, Conn!DeleteCredential
<1>3. ASSUME NEW r \in Requests, RequestEnded(r) PROVE \A q \in Requests : req'[q].pc \in Asking => holder' = q
  BY <1>0, <1>3 DEF RequestEnded, RequestBecomes, Released
<1>4. ASSUME NEW r \in Requests, Disconnected(r)
      PROVE  \A q \in Requests : req'[q].pc \in Asking => holder' = q
  BY <1>3, <1>4 DEF Disconnected
<1>5. ASSUME NEW r \in Requests, NEW me \in Conn!RequestStates, Begun(r, me) \/ RequestCreated(r, me)
      PROVE  \A q \in Requests : req'[q].pc \in Asking => holder' = q
  BY <1>5 DEF Begun, RequestCreated, RequestBecomes, Asking
<1>6. ASSUME NEW r \in Requests, NEW me \in Conn!RequestStates, LockTaken(r, me)
      PROVE  \A q \in Requests : req'[q].pc \in Asking => holder' = q
  BY <1>6 DEF LockTaken, RequestBecomes, Conn!Unlocked
<1>7. ASSUME NEW r \in Requests, NEW me \in Conn!RequestStates, Worked(r, me)
      PROVE  \A q \in Requests : req'[q].pc \in Asking => holder' = q
  BY <1>7 DEF Worked, RequestBecomes, Released, Asking
<1> QED BY <1>2, <1>3, <1>4, <1>5, <1>6, <1>7 DEF RequestKinds, Saved, Recorded

LEMMA OneStep ==
  ASSUME RequestBase, LockInv, OneInv, RequestKinds
  PROVE  OneInv'
<1>0. Conn!AtRest.pc = "idle"
  BY AtRestFacts
<1>1. provider' = provider /\ (~delayed' => ~delayed)
  BY RequestKindsMove
<1> SUFFICES ASSUME Conn!Is("ga4"), ~delayed, ~delayed' PROVE OneInv'
  BY <1>1 DEF OneInv, Conn!Is
<1>2. /\ Len(sources) <= 1 /\ Len(links) <= 1
      /\ \A r \in Requests : req[r].pc = "making source" /\ req[r].source = 0 => sources = <<>>
      /\ \A r \in Requests : req[r].pc = "making link" /\ req[r].link = 0 => links = <<>>
      /\ \A r \in Requests : req[r].pc \in Asking => holder = r
  BY DEF OneInv, LockInv
<1>3. ASSUME UNCHANGED <<req, Conn!airbyte>> PROVE OneInv'
  BY <1>2, <1>3 DEF OneInv, Conn!airbyte
<1>4. ASSUME NEW r \in Requests, NEW me, RequestBecomes(r, me), me.pc \notin {"making source", "making link"}, UNCHANGED Conn!airbyte
      PROVE  OneInv'
  BY <1>2, <1>4 DEF OneInv, Conn!airbyte, RequestBecomes
<1>5. UNCHANGED Conn!vars \/ Conn!Exchange \/ Conn!DeleteCredential => UNCHANGED <<req, Conn!airbyte>>
  BY DEF Conn!vars, Conn!Exchange, Conn!DeleteCredential
<1>6. ~Conn!Land
  BY DEF Conn!Land
<1>7. ASSUME NEW r \in Requests, RequestEnded(r), UNCHANGED Conn!airbyte PROVE OneInv'
  BY <1>0, <1>4, <1>7 DEF RequestEnded
<1>8. ASSUME NEW r \in Requests, Disconnected(r) PROVE OneInv'
  BY <1>3, <1>7, <1>8 DEF Disconnected
<1>9. ASSUME NEW r \in Requests, NEW me \in Conn!RequestStates, Begun(r, me) \/ RequestCreated(r, me) \/ LockTaken(r, me) PROVE OneInv'
  BY <1>4, <1>9 DEF Begun, RequestCreated, LockTaken
<1>10. ASSUME NEW r \in Requests, NEW me \in Conn!RequestStates, Worked(r, me) PROVE OneInv'
  <2>1. \A q \in Requests : q # r => req[q].pc \notin Asking
    BY <1>2, <1>10 DEF Worked
  <2>2. \A q \in Requests : req'[q].pc \in {"making source", "making link"} => q = r /\ req'[q] = me
    BY <1>10, <2>1 DEF Worked, RequestBecomes, Asking
  <2>3. /\ Len(sources) \in Nat /\ Len(links) \in Nat
        /\ sources \in Seq(Conn!Grants \ {0}) /\ links \in Seq(Conn!Remote)
        /\ sources' \in Seq(Conn!Grants \ {0}) /\ links' \in Seq(Conn!Remote)
    BY <1>10, ConnTypes, SequenceFacts DEF Worked
  <2>4. (sources = <<>> <=> Len(sources) = 0) /\ (links = <<>> <=> Len(links) = 0)
        /\ (Len(sources') = 0 => sources' = <<>>)
    BY <2>3, SequenceFacts
  <2>5. CASE UNCHANGED Conn!airbyte
    BY <1>2, <1>10, <2>2, <2>5 DEF Worked, OneInv, Conn!airbyte
  <2>6. CASE Len(sources') = Len(sources) /\ UNCHANGED links /\ req[r].pc = "making source"
    <3>1. me.pc = "making source" => me.source # 0 \/ sources = <<>>
      BY <1>2, <1>10, <2>6 DEF Worked
    <3>2. sources = <<>> => sources' = <<>>
      BY <2>3, <2>4, <2>6
    <3> QED BY <1>2, <1>10, <2>2, <2>6, <3>1, <3>2 DEF Worked, OneInv
  <2>7. CASE Len(links') = Len(links) /\ UNCHANGED sources /\ me.pc = "saving"
    BY <1>2, <2>2, <2>7 DEF OneInv
  <2>8. CASE /\ req[r].pc = "making source" /\ req[r].source = 0 /\ Len(sources') = Len(sources) + 1 /\ UNCHANGED links
             /\ me.pc # "making source"
    <3>1. sources = <<>>
      BY <1>2, <2>8
    <3>2. Len(sources) = 0
      BY <2>4, <3>1
    <3>3. Len(sources') = Len(sources) + 1
      BY <2>8
    <3>4. Len(sources') <= 1
      BY <3>2, <3>3
    <3> QED BY <1>2, <1>10, <2>2, <2>8, <3>4 DEF Worked, OneInv
  <2>9. CASE /\ req[r].pc = "making link" /\ req[r].link = 0 /\ Len(links') = Len(links) + 1 /\ UNCHANGED sources
             /\ me.pc # "making link"
    <3>1. links = <<>>
      BY <1>2, <2>9
    <3>2. Len(links) = 0
      BY <2>4, <3>1
    <3>3. Len(links') = Len(links) + 1
      BY <2>9
    <3>4. Len(links') <= 1
      BY <3>2, <3>3
    <3>5. me.pc = "making source" => me.source # 0 \/ sources = <<>>
      BY <1>10, <2>9 DEF Worked
    <3> QED BY <1>2, <1>10, <2>2, <2>9, <3>4, <3>5 DEF Worked, OneInv
  <2> QED BY <1>10, <2>5, <2>6, <2>7, <2>8, <2>9 DEF Worked
<1> QED BY <1>3, <1>5, <1>6, <1>7, <1>8, <1>9, <1>10 DEF RequestKinds, Saved, Recorded

(***************************************************************************)
(* What a disconnect leaves.                                               *)
(***************************************************************************)
ClosedInv ==
  /\ closed /\ "credential" \notin survivors =>
       cred.key = 0 /\ \A r \in Requests : req[r].pc \notin {"exchanged", "loaded"}
  /\ closed /\ survivors = {} =>
       (\A l \in Conn!Remote : local[l] # "active") /\ \A r \in Requests : req[r].pc \notin Conn!AfterLock
  /\ "connection" \notin survivors =>
       \A r \in Requests : req[r].pc = "paused" =>
         \A l \in Conn!Remote : local[l] = "active" => l \in req[r].rows

LEMMA ClosedStep ==
  ASSUME RequestBase, ClosedInv, RequestKinds
  PROVE  ClosedInv'
<1>0. /\ Conn!AtRest.pc = "idle" /\ {"exchanged", "loaded"} \cap {"idle", "paused", "chosen"} = {}
      /\ Conn!AfterLock = {"sources", "making source", "links", "making link", "saving"} /\ Asking \subseteq Conn!AfterLock
      /\ survivors \subseteq {"connection", "credential"}
  BY AtRestFacts, ConnTypes DEF Conn!AfterLock, Conn!Provisioning, Asking
<1>1. ASSUME UNCHANGED <<cred, local, closed, survivors>>,
             \A q \in Requests :
               /\ req'[q].pc \in {"exchanged", "loaded"} => req[q].pc \in {"exchanged", "loaded"}
               /\ req'[q].pc \in Conn!AfterLock => req[q].pc \in Conn!AfterLock
               /\ req'[q].pc = "paused" => req'[q] = req[q]
      PROVE  ClosedInv'
  BY <1>1 DEF ClosedInv
<1>2. ASSUME NEW r \in Requests, NEW me, RequestBecomes(r, me), UNCHANGED <<cred, local, closed, survivors>>,
             me.pc = "idle" \/ (me.pc \in Conn!AfterLock /\ req[r].pc \in Conn!AfterLock)
      PROVE  ClosedInv'
  <2>1. \A q \in Requests :
           /\ req'[q].pc \in {"exchanged", "loaded"} => req[q].pc \in {"exchanged", "loaded"}
           /\ req'[q].pc \in Conn!AfterLock => req[q].pc \in Conn!AfterLock
           /\ req'[q].pc = "paused" => req'[q] = req[q]
    BY <1>0, <1>2 DEF RequestBecomes
  <2> QED BY <1>1, <1>2, <2>1
<1>3. CASE UNCHANGED Conn!vars \/ Conn!Land
  BY <1>1, <1>3 DEF Conn!vars, Conn!history, Conn!Land
<1>4. CASE Conn!Exchange
  <2>1. closed' = FALSE /\ UNCHANGED <<req, local>>
        /\ survivors' = IF \E q \in Requests : Conn!At(q, "paused") THEN survivors ELSE {}
    BY <1>4 DEF Conn!Exchange, Conn!Reopen
  <2> QED BY <2>1 DEF ClosedInv, Conn!At
<1>5. CASE Conn!DeleteCredential
  <2>1. UNCHANGED <<req, local, closed, survivors>> /\ cred'.key = 0
    BY <1>5, NoCredentialFacts DEF Conn!DeleteCredential
  <2> QED BY <2>1 DEF ClosedInv
<1>6. ASSUME NEW r \in Requests, RequestEnded(r) /\ UNCHANGED <<provider, cred, Conn!airbyte, local, granted, late, Conn!history>> PROVE ClosedInv'
  BY <1>0, <1>2, <1>6 DEF RequestEnded, Conn!history
<1>7. ASSUME NEW r \in Requests, Saved(r) PROVE ClosedInv'
  <2>1. /\ req[r].pc = "loaded" /\ UNCHANGED <<local, closed, survivors>>
        /\ \A q \in Requests :
             /\ req'[q].pc \in Conn!AfterLock => req[q].pc \in Conn!AfterLock
             /\ req'[q].pc = "paused" => req'[q] = req[q]
    BY <1>0, <1>7 DEF Saved, RequestEnded, RequestBecomes
  <2>2. ~(closed /\ "credential" \notin survivors)
    BY <2>1 DEF ClosedInv
  <2> QED BY <2>1, <2>2 DEF ClosedInv
<1>8. ASSUME NEW r \in Requests, NEW me \in Conn!RequestStates, RequestCreated(r, me) PROVE ClosedInv'
  <2>1. /\ req[r].pc = "exchanged" /\ UNCHANGED <<local, closed, survivors>>
        /\ \A q \in Requests :
             /\ req'[q].pc \in Conn!AfterLock => req[q].pc \in Conn!AfterLock
             /\ req'[q].pc = "paused" => req'[q] = req[q]
    BY <1>0, <1>8 DEF RequestCreated, RequestBecomes
  <2>2. ~(closed /\ "credential" \notin survivors)
    BY <2>1 DEF ClosedInv
  <2> QED BY <2>1, <2>2 DEF ClosedInv
<1>9. ASSUME NEW r \in Requests, Recorded(r) PROVE ClosedInv'
  <2>1. /\ req[r].pc = "saving" /\ UNCHANGED <<cred, closed>> /\ survivors \subseteq survivors'
        /\ RequestBecomes(r, Conn!AtRest)
        /\ (\E q \in Requests \ {r} : req[q].pc = "paused") => "connection" \in survivors'
    BY <1>9 DEF Recorded, RequestEnded, Conn!Others
  <2>2. \A q \in Requests :
           /\ req'[q].pc \in {"exchanged", "loaded"} => req[q].pc \in {"exchanged", "loaded"}
           /\ req'[q].pc = "paused" => q # r /\ req[q].pc = "paused"
    BY <1>0, <2>1 DEF RequestBecomes
  <2>3. ~(closed /\ survivors = {})
    BY <1>0, <2>1 DEF ClosedInv
  <2>4. closed' /\ survivors' = {} => FALSE
    BY <2>1, <2>3
  <2>5. (\E q \in Requests : req'[q].pc = "paused") => "connection" \in survivors'
    BY <2>1, <2>2
  <2> QED BY <2>1, <2>2, <2>4, <2>5 DEF ClosedInv
<1>10. ASSUME NEW r \in Requests, NEW me \in Conn!RequestStates, Begun(r, me) PROVE ClosedInv'
  <2>1. ~closed' /\ RequestBecomes(r, me) /\ (survivors' = survivors \/ \A q \in Requests : req[q].pc # "paused")
    BY <1>10 DEF Begun, Opened
  <2>2. \A q \in Requests : (q = r /\ req'[q] = me) \/ (q # r /\ req'[q] = req[q])
    BY <2>1 DEF RequestBecomes
  <2>3. \A l \in Conn!Remote : local'[l] = "active" => local[l] = "active"
    BY <1>10 DEF Begun, Hushed
  <2>4. me.pc = "paused" => \A l \in Conn!Remote : local'[l] = "active" => l \in me.rows
    BY <1>10 DEF Begun
  <2> QED BY <2>1, <2>2, <2>3, <2>4 DEF ClosedInv
<1>11. ASSUME NEW r \in Requests, NEW me \in Conn!RequestStates, LockTaken(r, me) PROVE ClosedInv'
  <2>1. /\ req[r].pc = "chosen" /\ me.pc = "sources" /\ cred.key = req[r].key /\ RequestBecomes(r, me)
        /\ UNCHANGED <<cred, local, closed, survivors>>
    BY <1>11 DEF LockTaken, Conn!history
  <2>2. cred.key # 0
    BY <2>1, RequestMemoryFacts DEF Sound
  <2>3. \A q \in Requests :
           /\ req'[q].pc \in {"exchanged", "loaded"} => req[q].pc \in {"exchanged", "loaded"}
           /\ req'[q].pc = "paused" => req'[q] = req[q]
    BY <2>1 DEF RequestBecomes
  <2>4. ~(closed /\ "credential" \notin survivors)
    BY <2>2 DEF ClosedInv
  <2> QED BY <2>1, <2>3, <2>4 DEF ClosedInv
<1>12. ASSUME NEW r \in Requests, NEW me \in Conn!RequestStates, Worked(r, me) PROVE ClosedInv'
  <2>1. /\ RequestBecomes(r, me) /\ UNCHANGED <<cred, local, closed, survivors>> /\ req[r].pc \in Conn!AfterLock
        /\ me.pc = "idle" \/ me.pc \in Conn!AfterLock
    BY <1>0, <1>12 DEF Worked, Conn!history
  <2> QED BY <1>2, <2>1
<1>13. ASSUME NEW r \in Requests, Disconnected(r) PROVE ClosedInv'
  <2>1. /\ cred'.key = 0 /\ survivors \subseteq survivors'
        /\ survivors' = {} => \A q \in Requests \ {r} : req[q].pc \notin Conn!AfterLock
        /\ "credential" \notin survivors' => \A q \in Requests \ {r} : req[q].pc \notin {"exchanged", "loaded"}
    BY <1>13, NoCredentialFacts DEF Disconnected, Conn!Close, Conn!Others
  <2>2. \A q \in Requests : (q = r /\ req'[q].pc = "idle") \/ (q # r /\ req'[q] = req[q])
    BY <1>0, <1>13 DEF Disconnected, RequestEnded, RequestBecomes
  <2>3. req[r].pc = "paused" /\ \A l \in Conn!Remote : local'[l] = "active" => local[l] = "active" /\ l \notin req[r].rows
    BY <1>13 DEF Disconnected, Hushed
  <2>4. "connection" \notin survivors' => \A l \in Conn!Remote : local'[l] # "active"
    BY <2>1, <2>3 DEF ClosedInv
  <2> QED BY <1>0, <2>1, <2>2, <2>3, <2>4 DEF ClosedInv
<1> QED BY <1>3, <1>4, <1>5, <1>6, <1>7, <1>8, <1>9, <1>10, <1>11, <1>12, <1>13 DEF RequestKinds

(***************************************************************************)
(* The refresh token of the row.                                           *)
(***************************************************************************)
\* The one request that is to save the row has its refresh token in memory.
KeptInv == ~mixed =>
  /\ cred.key # 0 => cred.token = grant
  /\ \A q, r \in Requests : req[q].pc = "loaded" /\ req[r].pc = "loaded" => q = r
  /\ \A r \in Requests : req[r].pc = "loaded" /\ req[r].key = cred.key => req[r].kept = cred.token

LEMMA KeptStep ==
  ASSUME RequestBase, KeptInv, RequestKinds
  PROVE  KeptInv'
<1>0. Conn!AtRest.pc = "idle" /\ mixed \in BOOLEAN
  BY AtRestFacts, ConnTypes
<1>1. mixed => mixed'
  BY RequestKindsMove
<1> SUFFICES ASSUME ~mixed, ~mixed' PROVE KeptInv'
  BY <1>1 DEF KeptInv
<1>2. /\ cred.key # 0 => cred.token = grant
      /\ \A q, r \in Requests : req[q].pc = "loaded" /\ req[r].pc = "loaded" => q = r
      /\ \A r \in Requests : req[r].pc = "loaded" /\ req[r].key = cred.key => req[r].kept = cred.token
  BY DEF KeptInv
<1>3. ASSUME UNCHANGED <<cred, grant>>, \A q \in Requests : req'[q].pc = "loaded" => req'[q] = req[q] PROVE KeptInv'
  BY <1>2, <1>3 DEF KeptInv
<1>4. ASSUME NEW r \in Requests, NEW me, RequestBecomes(r, me), me.pc # "loaded"
      PROVE  \A q \in Requests : req'[q].pc = "loaded" => q # r /\ req'[q] = req[q]
  BY <1>4 DEF RequestBecomes
<1>5. CASE UNCHANGED Conn!vars \/ Conn!Land
  BY <1>3, <1>5 DEF Conn!vars, Conn!history, Conn!Land
<1>6. CASE Conn!Exchange
  <2>1. UNCHANGED req /\ \A r \in Requests : req[r].pc # "loaded"
    BY <1>6 DEF Conn!Exchange, Conn!Saving
  <2>2. PICK token \in Conn!Grants :
           cred'.token = Conn!Token(token, cred.token)
           /\ grant' = IF token # 0 THEN token ELSE IF cred.key = 0 THEN 0 ELSE grant
    BY <1>6, ExchangeFacts
  <2>3. cred.key = 0 => cred.token = 0
    BY DEF RequestBase, SoundInv
  <2>4. cred'.token = grant'
    BY <1>2, <2>2, <2>3 DEF Conn!Token
  <2> QED BY <2>1, <2>4 DEF KeptInv
<1>7. ASSUME cred'.key = 0, \A q \in Requests : req'[q].pc = "loaded" => req'[q] = req[q] PROVE KeptInv'
  <2>1. \A r \in Requests : req'[r].pc = "loaded" => req'[r].key # 0
    BY <1>7, RequestMemoryFacts DEF Sound
  <2> QED BY <1>2, <1>7, <2>1 DEF KeptInv
<1>8. CASE Conn!DeleteCredential
  BY <1>7, <1>8, NoCredentialFacts DEF Conn!DeleteCredential
<1>9. ASSUME NEW r \in Requests, Disconnected(r) PROVE KeptInv'
  <2>1. cred'.key = 0
    BY <1>9, NoCredentialFacts DEF Disconnected
  <2>2. \A q \in Requests : req'[q].pc = "loaded" => req'[q] = req[q]
    BY <1>0, <1>4, <1>9 DEF Disconnected, RequestEnded
  <2> QED BY <1>7, <2>1, <2>2
<1>10. ASSUME NEW r \in Requests, RequestEnded(r), UNCHANGED <<cred, grant>> PROVE KeptInv'
  BY <1>0, <1>3, <1>4, <1>10 DEF RequestEnded
<1>11. ASSUME NEW r \in Requests, Saved(r) PROVE KeptInv'
  <2>1. \A q \in Requests : req'[q].pc # "loaded"
    BY <1>0, <1>2, <1>4, <1>11 DEF Saved, RequestEnded
  <2>2. CASE UNCHANGED <<cred, grant>>
    BY <1>2, <2>1, <2>2 DEF KeptInv
  <2>3. CASE /\ cred.key \in {0, req[r].key} /\ cred'.token = Conn!Token(req[r].token, req[r].kept)
             /\ grant' = IF req[r].token # 0 THEN req[r].token ELSE IF cred.key = 0 THEN req[r].kept ELSE grant
    <3>1. cred.key # 0 => req[r].kept = cred.token /\ cred.token = grant
      BY <1>2, <1>11, <2>3 DEF Saved
    <3>2. cred'.token = grant'
      BY <2>3, <3>1 DEF Conn!Token
    <3> QED BY <2>1, <3>2 DEF KeptInv
  <2> QED BY <1>11, <2>2, <2>3 DEF Saved
<1>12. ASSUME NEW r \in Requests, NEW me \in Conn!RequestStates, RequestCreated(r, me) PROVE KeptInv'
  <2>1. \A q \in Requests : req'[q].pc = "loaded" => q = r /\ req'[q] = me
    BY <1>12 DEF RequestCreated, RequestBecomes
  <2>2. me.key = cred'.key /\ me.kept = cred'.token /\ (cred'.key # 0 => cred'.token = grant')
    BY <1>2, <1>12 DEF RequestCreated
  <2> QED BY <2>1, <2>2 DEF KeptInv
<1>13. ASSUME NEW r \in Requests, NEW me \in Conn!RequestStates, Begun(r, me) PROVE KeptInv'
  <2>1. UNCHANGED <<cred, grant>> /\ RequestBecomes(r, me)
    BY <1>13 DEF Begun
  <2>2. CASE me.pc # "loaded"
    BY <1>3, <1>4, <2>1, <2>2
  <2>3. CASE me.pc = "loaded"
    <3>1. me.kept = cred.token /\ \A q \in Requests \ {r} : req[q].pc # "loaded"
      BY <1>13, <2>3 DEF Begun
    <3>2. \A q \in Requests : req'[q].pc = "loaded" => q = r /\ req'[q] = me
      BY <2>1, <3>1 DEF RequestBecomes
    <3> QED BY <1>2, <2>1, <3>1, <3>2 DEF KeptInv
  <2> QED BY <2>2, <2>3
<1>14. ASSUME NEW r \in Requests, NEW me \in Conn!RequestStates, LockTaken(r, me) \/ Worked(r, me) PROVE KeptInv'
  <2>1. UNCHANGED <<cred, grant>> /\ RequestBecomes(r, me) /\ me.pc # "loaded"
    BY <1>14 DEF LockTaken, Worked, Conn!history, Asking
  <2> QED BY <1>3, <1>4, <2>1
<1> QED BY <1>5, <1>6, <1>8, <1>9, <1>10, <1>11, <1>12, <1>13, <1>14 DEF RequestKinds, Recorded, Conn!history

(***************************************************************************)
(* The inductive invariant.                                                *)
(***************************************************************************)
ConnInv == RequestBase /\ LockInv /\ OneInv /\ ClosedInv /\ KeptInv

LEMMA ConnInit ==
  ASSUME Conn!Init
  PROVE  ConnInv
<1>1. MaxGrants \in Nat /\ MaxRemote \in Nat /\ 0 \in Conn!Grants /\ 0 \in 0 .. MaxRemote
  BY GrantsAssumption DEF GrantsAssumption, Conn!Grants
<1>2. \A r \in Requests : req[r] = Conn!AtRest
  BY DEF Conn!Init
<1>3. Conn!AtRest \in Conn!RequestStates /\ Sound(Conn!AtRest) /\ Conn!AtRest.pc = "idle"
  BY <1>1 DEF Conn!AtRest, Conn!RequestStates, Sound, Conn!Provisioning
<1>4. cred \in Conn!Credentials /\ cred.key = 0 /\ cred.token = 0
  BY <1>1 DEF Conn!Init, Conn!NoCredential, Conn!Credentials
<1>5. /\ sources \in Seq(Conn!Grants \ {0}) /\ links \in Seq(Conn!Remote) /\ late \in Seq(Conn!RequestStates)
      /\ Len(sources) = 0 /\ Len(links) = 0 /\ DOMAIN late = {}
  BY DEF Conn!Init
<1>6. /\ local \in [Conn!Remote -> {"none", "active", "paused"}] /\ \A l \in Conn!Remote : local[l] # "active"
  BY DEF Conn!Init
<1>7. req \in [Requests -> Conn!RequestStates]
  BY <1>3 DEF Conn!Init
<1>8. /\ provider \in Providers /\ holder \in Requests \cup {NoRequest} /\ granted \in Conn!Grants /\ grant \in Conn!Grants
      /\ {mixed, delayed, closed} \subseteq BOOLEAN /\ survivors \subseteq {"connection", "credential"}
      /\ ~closed /\ holder = NoRequest
  BY <1>1 DEF Conn!Init
<1>9. Conn!TypeInvariant
  <2>1. Len(sources) <= MaxRemote /\ Len(links) <= MaxRemote
    BY <1>1, <1>5
  <2> QED BY <1>4, <1>5, <1>6, <1>7, <1>8, <2>1 DEF Conn!TypeInvariant
<1>10. RequestBase
  BY <1>2, <1>3, <1>4, <1>5, <1>9 DEF RequestBase, SoundInv
<1>11. LockInv /\ ClosedInv /\ KeptInv
  BY <1>2, <1>3, <1>4, <1>8 DEF LockInv, ClosedInv, KeptInv, Asking
<1>12. OneInv
  <2>1. Len(sources) <= 1 /\ Len(links) <= 1
    BY <1>5
  <2> QED BY <1>2, <1>3, <2>1 DEF OneInv
<1> QED BY <1>10, <1>11, <1>12 DEF ConnInv

LEMMA ConnStep ==
  ASSUME ConnInv, [Conn!Next]_Conn!vars
  PROVE  ConnInv'
<1>1. RequestBase /\ RequestKinds /\ NoRequest \notin Requests
  BY RequestNextKinds, RequestsAssumption DEF ConnInv, RequestsAssumption
<1> QED BY <1>1, RequestBaseStep, LockStep, OneStep, ClosedStep, KeptStep DEF ConnInv

LEMMA ConnInvariance == Conn!Spec => []ConnInv
BY ConnInit, ConnStep, PTL DEF Conn!Spec

\* Every variable of the lifecycle keeps its type.
THEOREM ConnTypeCorrect == Conn!Spec => []TypeInvariant
<1>1. ConnInv => TypeInvariant
  BY DEF ConnInv, RequestBase, TypeInvariant, RequestStates, Credentials, Grants, Remote, Provisioning,
         Conn!TypeInvariant, Conn!RequestStates, Conn!Credentials, Conn!Grants, Conn!Remote, Conn!Provisioning
<1> QED BY <1>1, ConnInvariance, PTL

\* However ga4 provisionings overlap, give up or are lost, Airbyte holds one source and one
\* connection for the account, unless it creates one after its request gave up: the lock of
\* the credential's row (provisioning in integrations/connector_lifecycle_views.py) is held
\* from the listing to the creation.
THEOREM OneSourceAndLink == Conn!Spec => []NoDuplicates
<1>1. ConnInv => NoDuplicates
  BY DEF ConnInv, OneInv, NoDuplicates, Is, Conn!Is
<1> QED BY <1>1, ConnInvariance, PTL

\* What a disconnect deleted or paused comes back only through a request that was past the
\* lock or had the credential in memory when the credential was deleted, through one that
\* saved its connection between the two statements of the disconnect, or through something
\* new (the disconnect views of integrations/connector_lifecycle_views.py and
\* google_ads_views.py).
THEOREM DisconnectsStand == Conn!Spec => []DisconnectStands
<1>1. ConnInv => DisconnectStands
  BY DEF ConnInv, ClosedInv, DisconnectStands, Remote, Conn!Remote
<1> QED BY <1>1, ConnInvariance, PTL

\* A refresh, or a grant without a refresh token, keeps the one in the row (set_raw_tokens of
\* integrations/models.py); only overlapping saves of one row lose it.
THEOREM RefreshTokensStay == Conn!Spec => []RefreshTokenStays
<1>1. ConnInv => RefreshTokenStays
  BY DEF ConnInv, KeptInv, RefreshTokenStays
<1> QED BY <1>1, ConnInvariance, PTL

==============================================================================
