------------------------ MODULE MetaDirectSync_proofs ------------------------
(***************************************************************************)
(* Theorems about MetaDirectSync, for any number of processes, slices,     *)
(* days, retries and upsets.                                               *)
(***************************************************************************)
EXTENDS MetaDirectSync, TLAPS

LEMMA BoundsAreNumbers ==
  /\ MaxJobs \in Nat /\ MaxDays \in Nat /\ MaxRetries \in Nat /\ MaxUpsets \in Nat
  /\ 1 \in Windows /\ Windows \subseteq 0 .. MaxDays /\ Jobs \subseteq 0 .. MaxJobs /\ 0 \notin Jobs
  /\ 0 \in Tries /\ Tries \subseteq Nat
BY BoundsAssumption DEF Windows, Jobs, Tries

LEMMA DirectFacts ==
  ASSUME NEW j \in 0 .. MaxJobs, NEW status \in Running \cup {"succeeded", "failed"},
         NEW rows \in BOOLEAN, NEW window \in 0 .. MaxDays
  PROVE  LET r == Direct(j, status, rows, window) IN
         /\ r \in SyncRows /\ r.job = j /\ r.status = status /\ (r.rows <=> rows)
         /\ r.window = window /\ r.engine = "direct"
BY DEF Direct, SyncRows

\* What a phase writes over the row it loaded.
LEMMA OverlaidFacts ==
  ASSUME row \in SyncRows, NEW me \in Memories, NEW phase \in Phases, NEW result \in Results
  PROVE  LET r == Overlaid(me, phase, result) IN
         /\ r \in SyncRows
         /\ phase = "start" => r.status = "running" /\ r.job = me.job
         /\ phase # "start" => r.status \notin Running
         /\ r.engine = "direct"
         /\ phase = "assets" => (r.rows <=> row.rows) /\ r.window = row.window
         /\ phase # "assets" => r.window = me.window
         /\ phase # "assets" /\ Well(result) /\ r.rows => result = "rows"
         /\ phase \in {"start", "final", "failing"} /\ r.rows => result = "rows"
<1> DEFINE r == Overlaid(me, phase, result)
<1>1. /\ row.rows \in BOOLEAN /\ row.window \in 0 .. MaxDays /\ me.window \in 0 .. MaxDays
      /\ me.job \in 0 .. MaxJobs /\ 0 \in 0 .. MaxJobs
  <2>1. row.rows \in BOOLEAN /\ row.window \in 0 .. MaxDays
    BY DEF SyncRows
  <2>2. me.window \in 0 .. MaxDays /\ me.job \in 0 .. MaxJobs
    BY DEF Memories
  <2> QED BY <2>1, <2>2, BoundsAreNumbers
<1>2. PICK status \in {"succeeded", "failed"} : status = IF Well(result) THEN "succeeded" ELSE "failed"
  OBVIOUS
<1>3. /\ (result = "rows") \in BOOLEAN
      /\ (IF Well(result) THEN result = "rows" ELSE row.rows) \in BOOLEAN
  BY <1>1
<1>4. /\ phase = "start" => r = Direct(me.job, "running", FALSE, me.window)
      /\ phase = "assets" => r = Direct(0, status, row.rows, row.window)
      /\ phase \in {"insights", "extended"} => r = Direct(0, status, IF Well(result) THEN result = "rows" ELSE row.rows, me.window)
      /\ phase \in {"final", "failing"} => r = Direct(0, status, result = "rows", me.window)
  BY <1>2, <1>3 DEF Overlaid, HasInsights
<1>5. status \notin Running /\ "running" \in Running
  BY DEF Running
<1> HIDE DEF r
<1>6. CASE phase = "start"
  <2>1. ASSUME NEW rows \in BOOLEAN, ~rows, r = Direct(me.job, "running", rows, me.window)
        PROVE  /\ r \in SyncRows /\ r.job = me.job /\ r.status = "running" /\ ~r.rows
               /\ r.window = me.window /\ r.engine = "direct"
    BY <1>1, <1>5, <2>1, DirectFacts
  <2> QED BY <1>4, <1>6, <2>1 DEF r
<1>7. CASE phase = "assets"
  BY <1>1, <1>3, <1>4, <1>5, <1>7, DirectFacts DEF r
<1>8. CASE phase \in {"insights", "extended"}
  BY <1>1, <1>3, <1>4, <1>5, <1>8, DirectFacts DEF r
<1>9. CASE phase \in {"final", "failing"}
  <2>1. ASSUME NEW rows \in BOOLEAN, rows <=> result = "rows", r = Direct(0, status, rows, me.window)
        PROVE  /\ r \in SyncRows /\ r.status = status /\ (r.rows <=> result = "rows")
               /\ r.window = me.window /\ r.engine = "direct"
    BY <1>1, <2>1, DirectFacts
  <2> QED BY <1>3, <1>4, <1>5, <1>9, <2>1 DEF r
<1> QED BY <1>6, <1>7, <1>8, <1>9 DEF Phases

\* A process that is to save a phase keeps the rest of its memory.
Touched(m, me, phase, result) ==
  /\ m \in Memories
  /\ m.pc = "save" /\ m.phase = phase /\ m.result = result
  /\ m.copy = Overlaid(me, phase, result)
  /\ m.job = me.job /\ (m.message <=> me.message) /\ m.window = me.window
LEMMA TouchingFacts ==
  ASSUME row \in SyncRows, NEW me \in Memories, NEW phase \in Phases, NEW result \in Results
  PROVE  Touched(Touching(me, phase, result), me, phase, result)
BY OverlaidFacts DEF Touched, Touching, Memories
LEMMA NamesOfPhases ==
  /\ \A phase \in {"start", "assets", "insights", "extended", "final", "failing"} : phase \in Phases
  /\ \A result \in {"", "rows", "none", "failed"} : result \in Results
BY DEF Phases, Results

LEMMA AtRestFacts ==
  /\ AtRest \in Memories /\ NoRow \in SyncRows
  /\ AtRest.pc = "idle" /\ AtRest.job = 0 /\ AtRest.message = FALSE
  /\ NoRow.rows = FALSE /\ NoRow.status \notin Running
BY BoundsAreNumbers DEF AtRest, NoRow, Memories, SyncRows, Phases, Results, Running

(***************************************************************************)
(* Type correctness, and the shape of a process's memory.                  *)
(***************************************************************************)
InOrder(me) ==
  /\ me.pc = "idle" => me.job = 0
  /\ me.pc \notin {"idle", "ending"} => me.window \in Windows
  /\ me.pc = "sending" => me.job # 0
  /\ me.pc \in {"fetch", "skip"} => me.phase \in {"assets", "insights", "extended"}
  /\ me.pc = "save" => me.phase \in Phases
  /\ me.pc \in {"fetch", "skip", "save"} /\ me.job = 0 => me.phase \in {"assets", "insights"}
  /\ me.pc = "ending" => me.message
  /\ me.message => me.job # 0

\* Nobody works on a slice that was not asked for.
AskedFor(p) == proc[p].job # 0 => proc[p].job \in Jobs /\ asked[proc[p].job] # 0

TypeInv ==
  /\ TypeOK
  /\ \A p \in Procs : InOrder(proc[p]) /\ AskedFor(p)

\* The parts of the type invariant that a step of one process keeps.
LEMMA TypeStep ==
  ASSUME TypeInv, NEW p \in Procs, NEW m \in Memories,
         proc' = [proc EXCEPT ![p] = m], InOrder(m),
         m.job # 0 => m.job \in Jobs /\ asked'[m.job] # 0,
         today' = today, connected' = connected, row' \in SyncRows, upsets' \in 0 .. MaxUpsets,
         asked' \in [Jobs -> 0 .. MaxDays], \A j \in Jobs : asked[j] # 0 => asked'[j] # 0,
         broker' \in [Jobs -> [Tries -> Nat]],
         \A j \in Jobs, n \in Tries : asked'[j] = 0 => broker'[j][n] = 0,
         known' \subseteq Windows, dropped' \subseteq Jobs
  PROVE  TypeInv'
<1>1. ASSUME NEW q \in Procs PROVE (InOrder(proc[q]) /\ AskedFor(q))'
  <2>1. CASE q = p
    BY <2>1 DEF TypeInv, TypeOK, AskedFor, InOrder
  <2>2. CASE q # p
    <3>1. proc'[q] = proc[q] /\ InOrder(proc[q]) /\ AskedFor(q)
      BY <2>2 DEF TypeInv, TypeOK
    <3> QED BY <3>1 DEF AskedFor, InOrder
  <2> QED BY <2>1, <2>2
<1>2. TypeOK'
  BY DEF TypeInv, TypeOK
<1> QED BY <1>1, <1>2 DEF TypeInv

\* A step that asks for nothing and sends nothing: the process goes on with its slice, or is
\* done with it.
LEMMA QuietStep ==
  ASSUME TypeInv, NEW p \in Procs, NEW m \in Memories,
         proc' = [proc EXCEPT ![p] = m], InOrder(m), m.job \in {0, proc[p].job},
         today' = today, connected' = connected, row' \in SyncRows, upsets' \in 0 .. MaxUpsets,
         asked' = asked, broker' = broker, known' \subseteq Windows, dropped' \subseteq Jobs
  PROVE  TypeInv'
<1>1. m.job # 0 => m.job \in Jobs /\ asked'[m.job] # 0
  BY DEF TypeInv, AskedFor
<1>2. asked' \in [Jobs -> 0 .. MaxDays] /\ broker' \in [Jobs -> [Tries -> Nat]]
      /\ \A j \in Jobs, n \in Tries : asked'[j] = 0 => broker'[j][n] = 0
  BY DEF TypeInv, TypeOK
<1> QED BY <1>1, <1>2, TypeStep

LEMMA UpsetFacts ==
  ASSUME upsets \in 0 .. MaxUpsets, Upset
  PROVE  upsets' \in 0 .. MaxUpsets
BY BoundsAreNumbers DEF Upset

\* A message more of a slice that was asked for.
LEMMA SentFacts ==
  ASSUME broker \in [Jobs -> [Tries -> Nat]], NEW j \in Jobs, NEW n \in Tries, NEW count \in {0, 1},
         Sent(j, n, count)
  PROVE  /\ broker' \in [Jobs -> [Tries -> Nat]]
         /\ broker'[j][n] = broker[j][n] + count
         /\ \A k \in Tries : broker'[j][k] >= broker[j][k]
         /\ \A i \in Jobs : i # j => broker'[i] = broker[i]
BY DEF Sent
LEMMA SentStep ==
  ASSUME TypeInv, NEW j \in Jobs, NEW n \in Tries, NEW count \in {0, 1}, Sent(j, n, count),
         asked[j] # 0, asked' = asked
  PROVE  /\ broker' \in [Jobs -> [Tries -> Nat]] /\ asked' \in [Jobs -> 0 .. MaxDays]
         /\ \A i \in Jobs, k \in Tries : asked'[i] = 0 => broker'[i][k] = 0
         /\ \A i \in Jobs, k \in Tries : broker[i][k] > 0 => broker'[i][k] > 0
<1>1. /\ broker' \in [Jobs -> [Tries -> Nat]]
      /\ \A k \in Tries : broker'[j][k] >= broker[j][k]
      /\ \A i \in Jobs : i # j => broker'[i] = broker[i]
  BY SentFacts DEF TypeInv, TypeOK
<1>2. \A i \in Jobs, k \in Tries : broker[i][k] \in Nat /\ broker'[i][k] \in Nat
  BY <1>1 DEF TypeInv, TypeOK
<1>3. \A i \in Jobs, k \in Tries : broker[i][k] > 0 => broker'[i][k] > 0
  BY <1>1, <1>2
<1> QED BY <1>1, <1>3 DEF TypeInv, TypeOK

(***************************************************************************)
(* Where a process goes after a step.                                      *)
(***************************************************************************)
\* A process that touches the row, with what it knows of the result.
Loads(m, me, phase, result) ==
  /\ Touched(m, me, phase, result)
  /\ me \in Memories /\ phase \in Phases /\ result \in Results
Resting(m) == m \in Memories /\ InOrder(m) /\ m.pc # "save"

LEMMA OverFacts ==
  ASSUME NEW p \in Procs, proc[p] \in Memories, InOrder(proc[p]), NEW phase \in Phases
  PROVE  Resting(Over(p, phase)) /\ Over(p, phase).job \in {0, proc[p].job}
<1> DEFINE me == proc[p]
<1>1. CASE ~me.message
  BY <1>1, AtRestFacts DEF Over, Resting, InOrder
<1>2. CASE me.message
  <2> DEFINE m == [AtRest EXCEPT !.pc = "ending", !.job = me.job, !.phase = phase, !.message = TRUE, !.tries = me.tries]
  <2>1. m \in Memories /\ m.pc = "ending" /\ m.job = me.job /\ m.message = TRUE
    BY AtRestFacts DEF Memories, AtRest
  <2>2. Over(p, phase) = m
    BY <1>2 DEF Over
  <2> HIDE DEF m
  <2> QED BY <1>2, <2>1, <2>2 DEF Resting, InOrder
<1> QED BY <1>1, <1>2 DEF Memories

LEMMA FetchingFacts ==
  ASSUME NEW p \in Procs, proc[p] \in Memories, NEW phase \in {"assets", "insights", "extended"},
         proc[p].window \in Windows, proc[p].job # 0
  PROVE  LET m == Fetching(p, phase) IN
         Resting(m) /\ m.job = proc[p].job /\ m.pc \in {"fetch", "skip"}
<1> DEFINE m == Fetching(p, phase)
<1>1. phase \in Phases \cup {""} /\ "" \in Results /\ NoRow \in SyncRows
  BY NamesOfPhases, AtRestFacts
<1>2. m \in Memories
  BY <1>1 DEF Fetching, Memories
<1>3. m.pc \in {"fetch", "skip"} /\ m.phase = phase /\ m.job = proc[p].job /\ m.window = proc[p].window
      /\ m.message = proc[p].message
  BY DEF Fetching, Memories
<1> HIDE DEF m
<1> QED BY <1>2, <1>3 DEF Resting, InOrder, m

\* After a save, or a step without a credential: the process is done, goes on with the same
\* slice, or loads the row for the last time.
LEMMA OnwardFacts ==
  ASSUME row \in SyncRows, NEW p \in Procs, proc[p] \in Memories, InOrder(proc[p]),
         NEW result \in Results, proc[p].pc = "save" \/ (proc[p].pc = "skip" /\ result = "none")
  PROVE  LET m == Onward(p, result) IN
         /\ m \in Memories /\ InOrder(m) /\ m.job \in {0, proc[p].job}
         /\ m.pc = "save" =>
              \E phase \in {"failing", "final"} :
                /\ Loads(m, proc[p], phase, result)
                /\ result = "rows" => phase = "final" /\ HasInsights(proc[p].phase)
         /\ proc[p].pc = "skip" \/ proc[p].phase = "start" => m.job = proc[p].job /\ m.pc # "ending"
<1> DEFINE me == proc[p]
           m == Onward(p, result)
<1>1. me.window \in Windows /\ me.phase \in Phases
  BY NamesOfPhases DEF InOrder
<1>2. CASE me.phase = "start"
  <2>1. m = Fetching(p, "assets") /\ me.job # 0
    BY <1>2 DEF Onward, InOrder
  <2> QED BY <1>1, <2>1, FetchingFacts DEF Resting
<1>3. ASSUME NEW phase \in Phases, m = Over(p, phase), me.phase # "start",
             me.pc = "skip" => me.job = 0
      PROVE  /\ m \in Memories /\ InOrder(m) /\ m.job \in {0, me.job} /\ m.pc # "save"
             /\ me.pc = "skip" => m.job = me.job /\ m.pc # "ending"
  <2>1. Resting(m) /\ m.job \in {0, me.job}
    BY <1>3, OverFacts
  <2>2. me.pc = "skip" => m = AtRest
    BY <1>3 DEF Over, InOrder, Memories
  <2> QED BY <1>3, <2>1, <2>2, AtRestFacts DEF Resting
<1>4. ASSUME NEW phase \in {"insights", "extended"}, m = Fetching(p, phase), me.job # 0
      PROVE  /\ m \in Memories /\ InOrder(m) /\ m.job = me.job /\ m.pc \notin {"save", "ending"}
  BY <1>1, <1>4, FetchingFacts DEF Resting
<1>5. ASSUME NEW phase \in {"failing", "final"}, m = Touching(me, phase, result), me.job # 0,
             result = "rows" => phase = "final" /\ HasInsights(me.phase)
      PROVE  /\ m \in Memories /\ InOrder(m) /\ m.job = me.job /\ m.pc # "ending"
             /\ Loads(m, me, phase, result)
  <2>1. Touched(m, me, phase, result) /\ phase \in Phases
    BY <1>5, TouchingFacts, NamesOfPhases
  <2> HIDE DEF m
  <2> QED BY <1>1, <1>5, <2>1 DEF Loads, Touched, InOrder
<1>6. CASE me.phase # "start"
  <2> HIDE DEF me
  <2>1. CASE ~Slice(p) \/ me.phase \in {"final", "failing"}
    <3>1. m = Over(p, me.phase) /\ (me.pc = "skip" => me.job = 0)
      BY <1>6, <2>1 DEF Onward, InOrder, Slice, me
    <3> QED BY <1>1, <1>3, <1>6, <3>1 DEF me
  <2>2. CASE Slice(p) /\ me.phase \in {"assets", "insights", "extended"} /\ ~Well(result)
    <3>1. me.pc = "save" /\ me.job # 0
      BY <2>2 DEF Well, Slice, me
    <3>2. m = Over(p, "final") \/ m = Touching(me, "failing", result)
      BY <1>6, <2>2 DEF Onward, me
    <3>3. result # "rows"
      BY <2>2 DEF Well
    <3> QED BY <1>3, <1>5, <1>6, <3>1, <3>2, <3>3, NamesOfPhases DEF me
  <2>3. CASE Slice(p) /\ me.phase \in {"assets", "insights", "extended"} /\ Well(result)
    <3>1. me.job # 0
      BY <2>3 DEF Slice, me
    <3>2. \/ \E phase \in {"insights", "extended"} : m = Fetching(p, phase)
          \/ m = Touching(me, "final", result) /\ HasInsights(me.phase)
      BY <1>6, <2>3 DEF Onward, HasInsights, me
    <3> QED BY <1>4, <1>5, <1>6, <3>1, <3>2 DEF me
  <2> QED BY <1>1, <2>1, <2>2, <2>3, <1>6 DEF Phases
<1> QED BY <1>2, <1>6

(***************************************************************************)
(* Each step of a process keeps the type invariant; but for Save, it       *)
(* leaves the process with a copy it loads in that step, or with none.     *)
(***************************************************************************)
Moved(p) ==
  /\ proc' = [proc EXCEPT ![p] = proc'[p]]
  /\ proc'[p].pc = "save" =>
       \E me \in Memories, phase \in Phases, result \in Results :
         /\ Loads(proc'[p], me, phase, result)
         /\ result = "rows" => phase = "assets" \/ (HasInsights(phase) /\ me.window \in known')

LEMMA RestMoved ==
  ASSUME TypeInv, NEW p \in Procs, NEW m, m.pc # "save", proc' = [proc EXCEPT ![p] = m]
  PROVE  Moved(p) /\ proc'[p] = m
BY DEF Moved, TypeInv, TypeOK

LEMMA LoadMoved ==
  ASSUME TypeInv, NEW p \in Procs, NEW m, NEW me \in Memories, NEW phase \in Phases, NEW result \in Results,
         Loads(m, me, phase, result), proc' = [proc EXCEPT ![p] = m],
         result = "rows" => phase = "assets" \/ (HasInsights(phase) /\ me.window \in known')
  PROVE  Moved(p) /\ proc'[p] = m
<1>1. proc'[p] = m
  BY DEF TypeInv, TypeOK
<1> QED BY <1>1 DEF Moved

\* A process whose slice is done with, or refused.
LEMMA DroppedFacts ==
  ASSUME TypeInv, NEW p \in Procs,
         dropped' = dropped \/ (proc[p].job # 0 /\ dropped' = dropped \cup {proc[p].job})
  PROVE  dropped' \subseteq Jobs
BY DEF TypeInv, TypeOK, AskedFor

LEMMA PostType ==
  ASSUME TypeInv, NEW p \in Procs, Post(p)
  PROVE  TypeInv' /\ Moved(p)
<1> PICK j \in Jobs :
      /\ asked[j] = 0
      /\ row' = Pending(j)
      /\ asked' = [asked EXCEPT ![j] = today]
      /\ Go(p, [AtRest EXCEPT !.pc = "sending", !.job = j, !.window = today])
  BY DEF Post
<1> DEFINE m == [AtRest EXCEPT !.pc = "sending", !.job = j, !.window = today]
<1>0. today \in Windows /\ today \in 0 .. MaxDays /\ today # 0 /\ j \in 0 .. MaxJobs /\ j # 0
  BY BoundsAreNumbers DEF TypeInv, TypeOK, Windows
<1>1. m \in Memories /\ m.pc = "sending" /\ m.job = j /\ ~m.message /\ m.window = today
  BY <1>0, AtRestFacts DEF AtRest, Memories
<1>2. /\ proc' = [proc EXCEPT ![p] = m] /\ today' = today /\ connected' = connected /\ broker' = broker
      /\ upsets' = upsets /\ known' = known /\ dropped' = dropped
  BY DEF Post, Go, history
<1> HIDE DEF m
<1>3. row' \in SyncRows
  BY <1>0, DirectFacts DEF Pending, Running
<1>4. /\ asked' \in [Jobs -> 0 .. MaxDays] /\ asked'[j] # 0
      /\ \A i \in Jobs : asked[i] # 0 => asked'[i] # 0
  BY <1>0 DEF TypeInv, TypeOK
<1>5. InOrder(m)
  BY <1>0, <1>1 DEF InOrder
<1>6. /\ broker' \in [Jobs -> [Tries -> Nat]] /\ upsets' \in 0 .. MaxUpsets
      /\ known' \subseteq Windows /\ dropped' \subseteq Jobs
      /\ \A i \in Jobs, n \in Tries : asked'[i] = 0 => broker'[i][n] = 0
  BY <1>2, <1>4 DEF TypeInv, TypeOK
<1>7. TypeInv'
  BY <1>1, <1>2, <1>3, <1>4, <1>5, <1>6, TypeStep
<1> QED BY <1>1, <1>2, <1>7, RestMoved

LEMMA SendType ==
  ASSUME TypeInv, NEW p \in Procs, Send(p)
  PROVE  TypeInv' /\ Moved(p)
<1>1. proc[p].job \in Jobs /\ asked[proc[p].job] # 0
  BY DEF Send, At, TypeInv, InOrder, AskedFor
<1>2. /\ proc' = [proc EXCEPT ![p] = AtRest] /\ today' = today /\ connected' = connected /\ row' = row
      /\ asked' = asked /\ upsets' = upsets /\ known' = known /\ dropped' = dropped
      /\ Sent(proc[p].job, 0, 1)
  BY DEF Send, End, Go, history
<1>3. /\ broker' \in [Jobs -> [Tries -> Nat]] /\ asked' \in [Jobs -> 0 .. MaxDays]
      /\ \A i \in Jobs, n \in Tries : asked'[i] = 0 => broker'[i][n] = 0
  BY <1>1, <1>2, SentStep, BoundsAreNumbers
<1>4. TypeInv'
  <2>1. InOrder(AtRest) /\ AtRest.job = 0
    BY AtRestFacts DEF InOrder
  <2>2. row' \in SyncRows /\ upsets' \in 0 .. MaxUpsets /\ known' \subseteq Windows /\ dropped' \subseteq Jobs
    BY <1>2 DEF TypeInv, TypeOK
  <2> QED BY <1>2, <1>3, <2>1, <2>2, TypeStep, AtRestFacts
<1> QED BY <1>2, <1>4, RestMoved, AtRestFacts

\* A slice begins, or ends for want of a credential.
LEMMA BeginFacts ==
  ASSUME TypeInv, NEW p \in Procs, NEW me \in Memories, Begin(p, me),
         me.job \in Jobs, me.window \in Windows
  PROVE  /\ Moved(p)
         /\ proc'[p] \in Memories /\ InOrder(proc'[p]) /\ proc'[p].job \in {0, me.job}
         /\ dropped' \subseteq Jobs
         /\ me.job \in dropped' \/ (proc'[p].job = me.job /\ proc'[p].pc = "save")
         /\ dropped \subseteq dropped'
<1>0. me.job # 0 /\ "start" \in Phases /\ "" \in Results /\ row \in SyncRows
  BY BoundsAreNumbers, NamesOfPhases DEF TypeInv, TypeOK
<1>1. CASE proc' = [proc EXCEPT ![p] = Touching(me, "start", "")] /\ dropped' = dropped
  <2> DEFINE m == Touching(me, "start", "")
  <2>1. Touched(m, me, "start", "")
    BY <1>0, TouchingFacts
  <2> HIDE DEF m
  <2>2. Moved(p) /\ proc'[p] = m
    BY <1>0, <1>1, <2>1, LoadMoved DEF Loads, m
  <2>3. InOrder(m)
    BY <1>0, <2>1 DEF Touched, InOrder
  <2> QED BY <1>1, <2>1, <2>2, <2>3 DEF Touched, TypeInv, TypeOK
<1>2. CASE proc' = [proc EXCEPT ![p] = AtRest] /\ dropped' = dropped \cup {me.job}
  <2>1. Moved(p) /\ proc'[p] = AtRest
    BY <1>2, RestMoved, AtRestFacts
  <2> QED BY <1>2, <2>1, AtRestFacts DEF InOrder, TypeInv, TypeOK
<1> QED BY <1>1, <1>2 DEF Begin, Go, End

LEMMA SendFailsType ==
  ASSUME TypeInv, NEW p \in Procs, SendFails(p)
  PROVE  TypeInv' /\ Moved(p)
<1>1. /\ proc[p] \in Memories /\ proc[p].job \in Jobs /\ asked[proc[p].job] # 0
      /\ proc[p].window \in Windows
  BY DEF SendFails, At, TypeInv, TypeOK, InOrder, AskedFor
<1>2. /\ today' = today /\ connected' = connected /\ row' = row /\ asked' = asked /\ known' = known
      /\ \E count \in {0, 1} : Sent(proc[p].job, 0, count)
      /\ Begin(p, proc[p]) /\ Upset
  BY DEF SendFails
<1>3. /\ broker' \in [Jobs -> [Tries -> Nat]] /\ asked' \in [Jobs -> 0 .. MaxDays]
      /\ \A i \in Jobs, n \in Tries : asked'[i] = 0 => broker'[i][n] = 0
  BY <1>1, <1>2, SentStep, BoundsAreNumbers
<1>4. row' \in SyncRows /\ upsets' \in 0 .. MaxUpsets /\ known' \subseteq Windows
  BY <1>2, UpsetFacts DEF TypeInv, TypeOK
<1>5. /\ Moved(p) /\ proc'[p] \in Memories /\ InOrder(proc'[p]) /\ proc'[p].job \in {0, proc[p].job}
      /\ dropped' \subseteq Jobs
  BY <1>1, <1>2, BeginFacts
<1>6. proc' = [proc EXCEPT ![p] = proc'[p]]
  BY <1>5 DEF Moved
<1>7. TypeInv'
  BY <1>1, <1>2, <1>3, <1>4, <1>5, <1>6, TypeStep
<1> QED BY <1>5, <1>7

\* What the worker knows that has taken a message of slice j.
LEMMA TakenFacts ==
  ASSUME TypeInv, NEW j \in Jobs, NEW n \in Tries, asked[j] # 0
  PROVE  LET me == [AtRest EXCEPT !.job = j, !.message = TRUE, !.tries = n, !.window = asked[j]] IN
         me \in Memories /\ me.job = j /\ me.window \in Windows
<1>1. asked[j] \in 0 .. MaxDays /\ asked[j] \in Windows /\ j \in 0 .. MaxJobs
  BY BoundsAreNumbers DEF TypeInv, TypeOK, Windows
<1> QED BY <1>1, AtRestFacts DEF AtRest, Memories

LEMMA TakeType ==
  ASSUME TypeInv, NEW p \in Procs, NEW j \in Jobs, NEW n \in Tries, Take(p, j, n)
  PROVE  TypeInv' /\ Moved(p)
<1> DEFINE me == [AtRest EXCEPT !.job = j, !.message = TRUE, !.tries = n, !.window = asked[j]]
<1>1. asked[j] # 0 /\ broker[j][n] \in Nat /\ broker[j][n] > 0
  BY DEF Take, TypeInv, TypeOK
<1>2. me \in Memories /\ me.job = j /\ me.window \in Windows
  BY <1>1, TakenFacts
<1>3. /\ Begin(p, me) /\ broker' = [broker EXCEPT ![j][n] = @ - 1]
      /\ today' = today /\ connected' = connected /\ row' = row /\ asked' = asked /\ upsets' = upsets
      /\ known' = known
  BY DEF Take
<1> HIDE DEF me
<1>4. /\ Moved(p) /\ proc'[p] \in Memories /\ InOrder(proc'[p]) /\ proc'[p].job \in {0, j}
      /\ dropped' \subseteq Jobs
  BY <1>2, <1>3, BeginFacts
<1>5. broker' \in [Jobs -> [Tries -> Nat]]
  BY <1>1, <1>3 DEF TypeInv, TypeOK
<1>6. \A i \in Jobs, k \in Tries : asked'[i] = 0 => broker'[i][k] = 0
  BY <1>1, <1>3 DEF TypeInv, TypeOK
<1>7. /\ row' \in SyncRows /\ upsets' \in 0 .. MaxUpsets /\ known' \subseteq Windows
      /\ asked' \in [Jobs -> 0 .. MaxDays]
  BY <1>3 DEF TypeInv, TypeOK
<1>8. proc' = [proc EXCEPT ![p] = proc'[p]]
  BY <1>4 DEF Moved
<1>9. TypeInv'
  BY <1>1, <1>3, <1>4, <1>5, <1>6, <1>7, <1>8, TypeStep
<1> QED BY <1>4, <1>9

\* The steps of a task between its saves.
LEMMA FetchType ==
  ASSUME TypeInv, NEW p \in Procs, FetchAssets(p) \/ FetchInsights(p) \/ Break(p)
  PROVE  TypeInv' /\ Moved(p)
<1> DEFINE me == proc[p]
<1>0. /\ me \in Memories /\ me.pc \in {"fetch", "skip"} /\ InOrder(me) /\ row \in SyncRows
      /\ me.window \in Windows /\ me.phase \in {"assets", "insights", "extended"}
  BY DEF TypeInv, TypeOK, FetchAssets, FetchInsights, Break, At, InOrder
<1>1. /\ today' = today /\ connected' = connected /\ row' = row /\ asked' = asked /\ broker' = broker
      /\ upsets' \in 0 .. MaxUpsets /\ known' \subseteq Windows /\ dropped' \subseteq Jobs
  <2>1. dropped' = dropped \/ (proc[p].job # 0 /\ dropped' = dropped \cup {proc[p].job})
    BY DEF FetchAssets, FetchInsights, Break, history, Slice
  <2>2. dropped' \subseteq Jobs
    BY <2>1, DroppedFacts
  <2> QED BY <1>0, <2>2, UpsetFacts DEF TypeInv, TypeOK, FetchAssets, FetchInsights, Break, history
<1>2. ASSUME NEW phase \in Phases, NEW result \in Results,
             me.job = 0 => phase \in {"assets", "insights"},
             proc' = [proc EXCEPT ![p] = Touching(me, phase, result)],
             result = "rows" => phase = "assets" \/ (HasInsights(phase) /\ me.window \in known')
      PROVE  TypeInv' /\ Moved(p)
  <2> DEFINE m == Touching(me, phase, result)
  <2>1. Touched(m, me, phase, result)
    BY <1>0, TouchingFacts
  <2> HIDE DEF m
  <2>2. Moved(p)
    BY <1>0, <1>2, <2>1, LoadMoved DEF Loads, m
  <2>3. InOrder(m)
    BY <1>0, <1>2, <2>1 DEF Touched, InOrder
  <2>4. m \in Memories /\ m.job = proc[p].job /\ proc' = [proc EXCEPT ![p] = m]
    BY <1>2, <2>1 DEF Touched, m
  <2>5. row' \in SyncRows
    BY <1>0, <1>1
  <2> HIDE DEF me
  <2>6. TypeInv'
    BY <1>1, <2>3, <2>4, <2>5, QuietStep
  <2> QED BY <2>2, <2>6
<1>3. CASE FetchAssets(p)
  <2>1. me.phase = "assets" /\ me.phase \in Phases
    BY <1>0, <1>3, NamesOfPhases DEF FetchAssets, HasInsights
  <2>2. PICK result \in {"rows", "failed"} : proc' = [proc EXCEPT ![p] = Touching(me, me.phase, result)]
    BY <1>3 DEF FetchAssets, Go
  <2>3. result \in Results
    BY NamesOfPhases
  <2> QED BY <1>2, <2>1, <2>2, <2>3
<1>4. CASE FetchInsights(p)
  <2>1. HasInsights(me.phase) /\ me.phase \in Phases /\ (me.job = 0 => me.phase \in {"assets", "insights"})
    BY <1>0, <1>4, NamesOfPhases DEF FetchInsights, HasInsights, InOrder
  <2>2. PICK result \in {"rows", "none", "failed"} :
          /\ proc' = [proc EXCEPT ![p] = Touching(me, me.phase, result)]
          /\ known' = known \cup (IF result = "rows" THEN {me.window} ELSE {})
    BY <1>4 DEF FetchInsights, Go
  <2>3. result \in Results
    BY NamesOfPhases
  <2>4. result = "rows" => me.window \in known'
    BY <2>2
  <2> QED BY <1>2, <2>1, <2>2, <2>3, <2>4
<1>5. CASE Break(p)
  <2>1. proc' = [proc EXCEPT ![p] = OnError(p)]
    BY <1>5 DEF Break, Go
  <2>2. CASE InTry(p)
    <3>1. OnError(p) = Touching(me, "failing", "failed") /\ me.job # 0
      BY <2>2 DEF OnError, InTry, Slice
    <3>2. "failing" \in Phases /\ "failed" \in Results /\ "failed" # "rows"
      BY NamesOfPhases
    <3> QED BY <1>2, <2>1, <3>1, <3>2
  <2>3. CASE ~InTry(p)
    <3> DEFINE m == Over(p, "final")
    <3>1. OnError(p) = m
      BY <2>3 DEF OnError
    <3>2. Resting(m) /\ m.job \in {0, proc[p].job}
      BY <1>0, OverFacts, NamesOfPhases
    <3> HIDE DEF m
    <3>3. proc' = [proc EXCEPT ![p] = m] /\ row' \in SyncRows
      BY <1>0, <1>1, <2>1, <3>1
    <3>4. TypeInv'
      BY <1>1, <3>2, <3>3, QuietStep DEF Resting
    <3> QED BY <3>2, <3>3, <3>4, RestMoved DEF Resting
  <2> QED BY <2>2, <2>3
<1> QED BY <1>3, <1>4, <1>5

LEMMA SaveType ==
  ASSUME TypeInv, NEW p \in Procs, Save(p)
  PROVE  TypeInv' /\ proc' = [proc EXCEPT ![p] = Onward(p, proc[p].result)] /\ proc'[p] = Onward(p, proc[p].result)
<1>0. proc[p] \in Memories /\ proc[p].pc = "save" /\ InOrder(proc[p]) /\ row \in SyncRows
  BY DEF Save, At, TypeInv, TypeOK
<1>1. /\ today' = today /\ connected' = connected /\ row' = proc[p].copy /\ asked' = asked
      /\ broker' = broker /\ upsets' = upsets /\ dropped' = dropped
      /\ known' \subseteq known \cup {proc[p].window}
      /\ proc' = [proc EXCEPT ![p] = Onward(p, proc[p].result)]
  BY DEF Save, Go
<1>2. proc[p].copy \in SyncRows /\ proc[p].window \in Windows /\ proc[p].result \in Results
  BY <1>0 DEF InOrder, Memories
<1> DEFINE m == Onward(p, proc[p].result)
<1>3. m \in Memories /\ InOrder(m) /\ m.job \in {0, proc[p].job}
  BY <1>0, <1>2, OnwardFacts
<1> HIDE DEF m
<1>4. row' \in SyncRows /\ upsets' \in 0 .. MaxUpsets /\ known' \subseteq Windows /\ dropped' \subseteq Jobs
  BY <1>1, <1>2 DEF TypeInv, TypeOK
<1>5. proc' = [proc EXCEPT ![p] = m] /\ proc'[p] = m
  BY <1>1 DEF m, TypeInv, TypeOK
<1>6. TypeInv'
  BY <1>1, <1>3, <1>4, <1>5, QuietStep
<1> QED BY <1>5, <1>6 DEF m

\* A step without a credential loads the row at most to end a slice with no rows.
LEMMA SkipType ==
  ASSUME TypeInv, NEW p \in Procs, Skip(p)
  PROVE  TypeInv' /\ Moved(p) /\ proc'[p].job = proc[p].job /\ proc'[p].pc # "ending"
<1>0. proc[p] \in Memories /\ proc[p].pc = "skip" /\ InOrder(proc[p]) /\ row \in SyncRows /\ "none" \in Results
  BY NamesOfPhases DEF Skip, At, TypeInv, TypeOK
<1>1. /\ today' = today /\ connected' = connected /\ row' = row /\ asked' = asked
      /\ broker' = broker /\ upsets' = upsets /\ dropped' = dropped /\ known' = known
      /\ proc' = [proc EXCEPT ![p] = Onward(p, "none")]
  BY DEF Skip, Go, history
<1> DEFINE m == Onward(p, "none")
<1>2. /\ m \in Memories /\ InOrder(m) /\ m.job \in {0, proc[p].job}
      /\ m.pc = "save" => \E phase \in {"failing", "final"} : Loads(m, proc[p], phase, "none")
      /\ m.job = proc[p].job /\ m.pc # "ending"
  BY <1>0, OnwardFacts
<1> HIDE DEF m
<1>3. proc' = [proc EXCEPT ![p] = m]
  BY <1>1 DEF m
<1>4. row' \in SyncRows /\ upsets' \in 0 .. MaxUpsets /\ known' \subseteq Windows /\ dropped' \subseteq Jobs
  BY <1>1 DEF TypeInv, TypeOK
<1>5. TypeInv'
  BY <1>1, <1>2, <1>3, <1>4, QuietStep
<1>6. Moved(p) /\ proc'[p] = m
  <2>1. CASE m.pc # "save"
    BY <1>3, <2>1, RestMoved
  <2>2. CASE m.pc = "save"
    <3>1. PICK phase \in {"failing", "final"} : Loads(m, proc[p], phase, "none")
      BY <1>2, <2>2
    <3>2. phase \in Phases
      BY NamesOfPhases
    <3> QED BY <1>0, <1>3, <3>1, <3>2, LoadMoved
  <2> QED BY <2>1, <2>2
<1> QED BY <1>2, <1>5, <1>6

LEMMA RetryType ==
  ASSUME TypeInv, NEW p \in Procs, Retry(p)
  PROVE  TypeInv' /\ Moved(p) /\ proc[p].pc = "ending" /\ (\A i \in Jobs, k \in Tries : broker[i][k] > 0 => broker'[i][k] > 0)
<1> DEFINE me == proc[p]
           m == [me EXCEPT !.phase = "final"]
<1>0. me \in Memories /\ me.pc = "ending" /\ InOrder(me) /\ me.tries < MaxRetries
  BY DEF Retry, At, TypeInv, TypeOK
<1>1. me.job \in Jobs /\ asked[me.job] # 0
  BY <1>0 DEF TypeInv, AskedFor, InOrder
<1>2. me.tries + 1 \in Tries
  <2>1. me.tries \in Tries
    BY <1>0 DEF Memories
  <2> HIDE DEF me
  <2> QED BY <1>0, <2>1, BoundsAreNumbers DEF Tries
<1>3. /\ today' = today /\ connected' = connected /\ row' = row /\ asked' = asked /\ upsets' = upsets
      /\ known' = known /\ dropped' = dropped /\ Sent(me.job, me.tries + 1, 1)
      /\ proc' = [proc EXCEPT ![p] = m]
  BY DEF Retry, Go, history
<1>4. m \in Memories /\ m.pc = "ending" /\ m.job = me.job /\ (m.message <=> me.message)
  BY <1>0, NamesOfPhases DEF Memories
<1> HIDE DEF m
<1>5. InOrder(m)
  BY <1>0, <1>4 DEF InOrder
<1>6. /\ broker' \in [Jobs -> [Tries -> Nat]] /\ asked' \in [Jobs -> 0 .. MaxDays]
      /\ \A i \in Jobs, k \in Tries : asked'[i] = 0 => broker'[i][k] = 0
      /\ \A i \in Jobs, k \in Tries : broker[i][k] > 0 => broker'[i][k] > 0
  BY <1>1, <1>2, <1>3, SentStep
<1>7. row' \in SyncRows /\ upsets' \in 0 .. MaxUpsets /\ known' \subseteq Windows /\ dropped' \subseteq Jobs
  BY <1>3 DEF TypeInv, TypeOK
<1>8. TypeInv'
  BY <1>1, <1>3, <1>4, <1>5, <1>6, <1>7, TypeStep
<1> QED BY <1>0, <1>3, <1>4, <1>6, <1>8, RestMoved

LEMMA AcknowledgeType ==
  ASSUME TypeInv, NEW p \in Procs, Acknowledge(p) \/ SendRefused(p)
  PROVE  TypeInv' /\ Moved(p)
<1>1. /\ today' = today /\ connected' = connected /\ row' = row /\ asked' = asked /\ broker' = broker
      /\ known' = known /\ upsets' \in 0 .. MaxUpsets /\ proc' = [proc EXCEPT ![p] = AtRest]
  BY UpsetFacts DEF Acknowledge, SendRefused, End, Go, history, TypeInv, TypeOK
<1>2. dropped' \subseteq Jobs
  <2>1. dropped' = dropped \/ (proc[p].job # 0 /\ dropped' = dropped \cup {proc[p].job})
    BY DEF Acknowledge, SendRefused, history, At, TypeInv, InOrder
  <2> QED BY <2>1, DroppedFacts
<1>3. InOrder(AtRest) /\ row' \in SyncRows /\ known' \subseteq Windows
  BY <1>1, AtRestFacts DEF InOrder, TypeInv, TypeOK
<1> QED BY <1>1, <1>2, <1>3, QuietStep, RestMoved, AtRestFacts

LEMMA LoseType ==
  ASSUME TypeInv, NEW p \in Procs, LoseWorker(p)
  PROVE  /\ TypeInv' /\ Moved(p)
         /\ \A i \in Jobs, k \in Tries : broker[i][k] > 0 => broker'[i][k] > 0
         /\ proc[p].job \in dropped' \/ proc[p].job = 0
              \/ \E k \in Tries : broker'[proc[p].job][k] > 0
<1> DEFINE me == proc[p]
<1>0. me \in Memories /\ InOrder(me) /\ me.tries \in Tries /\ me.message \in BOOLEAN
  BY DEF TypeInv, TypeOK, Memories
<1>1. /\ today' = today /\ connected' = connected /\ row' = row /\ asked' = asked
      /\ known' = known /\ upsets' \in 0 .. MaxUpsets /\ proc' = [proc EXCEPT ![p] = AtRest]
      /\ broker' = IF me.message THEN [broker EXCEPT ![me.job][me.tries] = @ + 1] ELSE broker
      /\ dropped' = IF Slice(p) /\ ~me.message THEN dropped \cup {me.job} ELSE dropped
  BY UpsetFacts DEF LoseWorker, End, Go, TypeInv, TypeOK
<1>2. dropped' \subseteq Jobs
  <2>1. dropped' = dropped \/ (proc[p].job # 0 /\ dropped' = dropped \cup {proc[p].job})
    BY <1>1 DEF Slice
  <2> QED BY <2>1, DroppedFacts
<1>3. /\ broker' \in [Jobs -> [Tries -> Nat]] /\ asked' \in [Jobs -> 0 .. MaxDays]
      /\ \A i \in Jobs, k \in Tries : asked'[i] = 0 => broker'[i][k] = 0
      /\ \A i \in Jobs, k \in Tries : broker[i][k] > 0 => broker'[i][k] > 0
      /\ me.message => broker'[me.job][me.tries] > 0
  <2>1. CASE me.message
    <3>1. me.job \in Jobs /\ asked[me.job] # 0
      BY <1>0, <2>1 DEF TypeInv, AskedFor, InOrder
    <3>2. Sent(me.job, me.tries, 1)
      BY <1>1, <2>1 DEF Sent
    <3>3. broker'[me.job][me.tries] = broker[me.job][me.tries] + 1 /\ broker[me.job][me.tries] \in Nat
      BY <1>0, <3>1, <3>2, SentFacts DEF TypeInv, TypeOK
    <3>4. me.message => broker'[me.job][me.tries] > 0
      <4>1. ASSUME NEW k \in Nat, NEW i, i = k + 1 PROVE i > 0
        BY <4>1
      <4> QED BY <3>3, <4>1
    <3> HIDE DEF me
    <3>5. asked' = asked
      BY <1>1
    <3> QED BY <1>0, <3>1, <3>2, <3>4, <3>5, SentStep
  <2>2. CASE ~me.message
    BY <1>1, <2>2 DEF TypeInv, TypeOK
  <2> QED BY <2>1, <2>2
<1>4. InOrder(AtRest) /\ AtRest.job = 0 /\ row' \in SyncRows /\ known' \subseteq Windows
  BY <1>1, AtRestFacts DEF InOrder, TypeInv, TypeOK
<1>5. TypeInv'
  BY <1>1, <1>2, <1>3, <1>4, TypeStep, AtRestFacts
<1>6. me.job \in dropped' \/ me.job = 0 \/ \E k \in Tries : broker'[me.job][k] > 0
  <2>1. CASE me.message
    BY <1>0, <1>3, <2>1
  <2>2. CASE ~me.message
    BY <1>1, <2>2 DEF Slice
  <2> QED BY <2>1, <2>2
<1> QED BY <1>1, <1>3, <1>5, <1>6, RestMoved, AtRestFacts

LEMMA HourlyType ==
  ASSUME TypeInv, NEW p \in Procs, NEW phase \in {"assets", "insights"}, StartHourly(p, phase)
  PROVE  TypeInv' /\ Moved(p)
<1> DEFINE m == [AtRest EXCEPT !.pc = "fetch", !.phase = phase, !.window = today]
<1>1. /\ m \in Memories /\ m.pc = "fetch" /\ m.phase = phase /\ m.window = today
      /\ m.job = 0 /\ m.message = FALSE
  <2>1. phase \in Phases \cup {""} /\ today \in 0 .. MaxDays
    BY NamesOfPhases, BoundsAreNumbers DEF TypeInv, TypeOK
  <2> QED BY <2>1, AtRestFacts DEF AtRest, Memories
<1>2. proc' = [proc EXCEPT ![p] = m]
  BY DEF StartHourly, Go
<1> HIDE DEF m
<1>3. /\ today' = today /\ connected' = connected /\ row' = row /\ asked' = asked /\ broker' = broker
      /\ known' = known /\ dropped' = dropped /\ upsets' \in 0 .. MaxUpsets
  BY UpsetFacts DEF StartHourly, history, TypeInv, TypeOK
<1>4. InOrder(m)
  BY <1>1 DEF InOrder, TypeInv, TypeOK
<1>5. row' \in SyncRows /\ known' \subseteq Windows /\ dropped' \subseteq Jobs
  BY <1>3 DEF TypeInv, TypeOK
<1>6. TypeInv'
  BY <1>1, <1>2, <1>3, <1>4, <1>5, QuietStep
<1> QED BY <1>1, <1>2, <1>6, RestMoved

\* What anybody but a process does.
Outside == Midnight \/ Disconnect \/ Reconnect \/ Webhook \/ Provision
LEMMA OutsideType ==
  ASSUME TypeInv, Outside \/ UNCHANGED vars
  PROVE  /\ TypeInv' /\ proc' = proc /\ broker' = broker /\ dropped' = dropped /\ known \subseteq known'
         /\ row' = row \/ row' = NoRow \/ (row'.engine = "airbyte" /\ (row'.rows => row'.window \in known'))
<1> USE DEF Outside
<1>1. ASSUME proc' = proc, asked' = asked, TypeOK' PROVE TypeInv'
  BY <1>1 DEF TypeInv, InOrder, AskedFor
<1>2. CASE Midnight
  BY <1>1, <1>2 DEF Midnight, TypeInv, TypeOK, history
<1>3. CASE Disconnect
  <2>1. row' \in {row, NoRow} /\ row' \in SyncRows /\ upsets' \in 0 .. MaxUpsets
    BY <1>3, UpsetFacts, AtRestFacts DEF Disconnect, TypeInv, TypeOK
  <2> QED BY <1>1, <1>3, <2>1 DEF Disconnect, TypeInv, TypeOK, history
<1>4. CASE Reconnect
  BY <1>1, <1>4 DEF Reconnect, TypeInv, TypeOK, history
<1>5. CASE Webhook
  <2>1. PICK status \in {"running", "succeeded"}, rows \in BOOLEAN :
          /\ row' = [job |-> 0, status |-> status, rows |-> rows, window |-> today, engine |-> "airbyte"]
          /\ known' = known \cup (IF rows THEN {today} ELSE {})
    BY <1>5 DEF Webhook
  <2>2. today \in Windows /\ today \in 0 .. MaxDays /\ 0 \in 0 .. MaxJobs
    BY BoundsAreNumbers DEF TypeInv, TypeOK
  <2>3. row' \in SyncRows
    BY <2>1, <2>2 DEF SyncRows, Running
  <2>4. known' \subseteq Windows /\ known \subseteq known' /\ upsets' \in 0 .. MaxUpsets
    BY <1>5, <2>1, <2>2, UpsetFacts DEF Webhook, TypeInv, TypeOK
  <2>5. row'.engine = "airbyte" /\ (row'.rows => row'.window \in known')
    BY <2>1
  <2> QED BY <1>1, <1>5, <2>3, <2>4, <2>5 DEF Webhook, TypeInv, TypeOK
<1>6. CASE Provision
  <2>1. row' \in SyncRows /\ row'.engine = "airbyte" /\ row'.window = today
    BY <1>6, BoundsAreNumbers DEF Provision, TypeInv, TypeOK, SyncRows
  <2>2. known' \subseteq Windows /\ upsets' \in 0 .. MaxUpsets /\ today \in known'
    BY <1>6, UpsetFacts DEF Provision, TypeInv, TypeOK
  <2> QED BY <1>1, <1>6, <2>1, <2>2 DEF Provision, TypeInv, TypeOK
<1>7. CASE UNCHANGED vars
  BY <1>1, <1>7 DEF vars, history, TypeInv, TypeOK
<1> QED BY <1>2, <1>3, <1>4, <1>5, <1>6, <1>7

\* A step of a process that leaves the row alone.
Steps(p) ==
  \/ Send(p) \/ SendFails(p) \/ SendRefused(p) \/ LoseWorker(p)
  \/ FetchAssets(p) \/ FetchInsights(p) \/ Break(p) \/ Skip(p) \/ Retry(p) \/ Acknowledge(p)
  \/ \E j \in Jobs, n \in Tries : Take(p, j, n)
  \/ \E phase \in {"assets", "insights"} : StartHourly(p, phase)
LEMMA StepsType ==
  ASSUME TypeInv, NEW p \in Procs, Steps(p)
  PROVE  TypeInv' /\ Moved(p)
BY SendType, SendFailsType, TakeType, FetchType, SkipType, RetryType, AcknowledgeType, LoseType, HourlyType
   DEF Steps

LEMMA NextSteps ==
  ASSUME [Next]_vars
  PROVE  Outside \/ UNCHANGED vars \/ \E p \in Procs : Post(p) \/ Save(p) \/ Steps(p)
BY DEF Next, TaskStep, Outside, Steps

LEMMA TypeInvHolds == Spec => []TypeInv
<1>1. Init => TypeInv
  <2> SUFFICES ASSUME Init PROVE TypeInv
    OBVIOUS
  <2>1. TypeOK
    BY BoundsAreNumbers, AtRestFacts DEF Init, TypeOK
  <2>2. ASSUME NEW p \in Procs PROVE InOrder(proc[p]) /\ AskedFor(p)
    BY AtRestFacts DEF Init, InOrder, AskedFor
  <2> QED BY <2>1, <2>2 DEF TypeInv
<1>2. TypeInv /\ [Next]_vars => TypeInv'
  BY NextSteps, OutsideType, PostType, SaveType, StepsType
<1> QED BY <1>1, <1>2, PTL DEF Spec

\* Every variable of the model always has its type.
THEOREM TypeCorrect == Spec => []TypeOK
BY TypeInvHolds, PTL DEF TypeInv

(***************************************************************************)
(* The account shown active.  A row, or a copy of one, that counts rows is *)
(* of a window of which something is stored, but for a copy whose phase    *)
(* failed: that window becomes known to have failed as it is saved.        *)
(***************************************************************************)
Backed(p) ==
  LET me == proc[p] IN
  me.pc = "save" =>
    /\ me.copy.rows => \/ me.copy.window \in known
                       \/ HasInsights(me.phase) /\ ~Well(me.result) /\ me.copy.window = me.window
    /\ me.phase \in {"insights", "extended", "final"} /\ me.result = "rows" => me.window \in known
DataInv ==
  /\ row.rows => row.window \in known
  /\ \A p \in Procs : Backed(p)

LEMMA LoadsBacked ==
  ASSUME TypeInv, DataInv, NEW p \in Procs, known \subseteq known',
         NEW me \in Memories, NEW phase \in Phases, NEW result \in Results,
         Loads(proc'[p], me, phase, result),
         result = "rows" => phase = "assets" \/ me.window \in known'
  PROVE  Backed(p)'
<1> DEFINE c == Overlaid(me, phase, result)
<1>1. /\ phase = "assets" => (c.rows <=> row.rows) /\ c.window = row.window
      /\ phase # "assets" => c.window = me.window
      /\ phase # "assets" /\ Well(result) /\ c.rows => result = "rows"
      /\ phase \in {"start", "final", "failing"} /\ c.rows => result = "rows"
  BY OverlaidFacts DEF TypeInv, TypeOK
<1>2. /\ proc'[p].phase = phase /\ proc'[p].result = result /\ proc'[p].window = me.window
      /\ proc'[p].copy = c
  BY DEF Loads, Touched
<1> HIDE DEF c
<1>3. c.rows => c.window \in known' \/ (HasInsights(phase) /\ ~Well(result) /\ c.window = me.window)
  <2>1. CASE phase = "assets"
    BY <1>1, <2>1 DEF DataInv
  <2>2. CASE phase \in {"insights", "extended"}
    BY <1>1, <2>2 DEF HasInsights
  <2>3. CASE phase \in {"start", "final", "failing"}
    BY <1>1, <2>3
  <2> QED BY <2>1, <2>2, <2>3 DEF Phases
<1>4. phase \in {"insights", "extended", "final"} /\ result = "rows" => me.window \in known'
  OBVIOUS
<1> QED BY <1>2, <1>3, <1>4 DEF Backed

LEMMA OthersBacked ==
  ASSUME DataInv, known \subseteq known', NEW q \in Procs, proc'[q] = proc[q]
  PROVE  Backed(q)'
BY DEF DataInv, Backed

LEMMA SaveBacked ==
  ASSUME TypeInv, DataInv, NEW p \in Procs, Save(p)
  PROVE  DataInv'
<1> DEFINE me == proc[p]
           m == Onward(p, me.result)
<1>1. me \in Memories /\ me.pc = "save" /\ Backed(p) /\ InOrder(me) /\ row \in SyncRows /\ me.result \in Results
  BY DEF Save, At, TypeInv, TypeOK, DataInv, Memories
<1>2. /\ row' = me.copy /\ known \subseteq known' /\ proc' = [proc EXCEPT ![p] = m] /\ proc'[p] = m
      /\ HasInsights(me.phase) /\ ~Well(me.result) => me.window \in known'
  BY SaveType DEF Save
<1>3. row'.rows => row'.window \in known'
  BY <1>1, <1>2 DEF Backed
<1>4. m.pc = "save" =>
        \E phase \in {"failing", "final"} :
          Loads(m, me, phase, me.result) /\ (me.result = "rows" => phase = "final" /\ HasInsights(me.phase))
  BY <1>1, OnwardFacts
<1> HIDE DEF m
<1>5. Backed(p)'
  <2>1. CASE m.pc # "save"
    BY <1>2, <2>1 DEF Backed
  <2>2. CASE m.pc = "save"
    <3>1. PICK phase \in {"failing", "final"} :
            Loads(m, me, phase, me.result) /\ (me.result = "rows" => HasInsights(me.phase))
      BY <1>4, <2>2
    <3>2. me.result = "rows" => me.window \in known'
      BY <1>1, <1>2, <3>1 DEF Backed, HasInsights
    <3> QED BY <1>1, <1>2, <3>1, <3>2, LoadsBacked, NamesOfPhases
  <2> QED BY <2>1, <2>2
<1>6. ASSUME NEW q \in Procs, q # p PROVE Backed(q)'
  BY <1>2, <1>6, OthersBacked DEF TypeInv, TypeOK
<1> QED BY <1>3, <1>5, <1>6 DEF DataInv

\* Every other step of a process leaves the row alone or, if a request's, counts no rows.
LEMMA OtherBacked ==
  ASSUME TypeInv, DataInv, NEW p \in Procs, Moved(p), known \subseteq known',
         row'.rows => row'.window \in known'
  PROVE  DataInv'
<1>1. proc' = [proc EXCEPT ![p] = proc'[p]]
  BY DEF Moved
<1>2. ASSUME NEW q \in Procs, q # p PROVE Backed(q)'
  BY <1>1, <1>2, OthersBacked DEF TypeInv, TypeOK
<1>3. Backed(p)'
  <2>1. CASE proc'[p].pc # "save"
    BY <2>1 DEF Backed
  <2>2. CASE proc'[p].pc = "save"
    <3>1. PICK me \in Memories, phase \in Phases, result \in Results :
            /\ Loads(proc'[p], me, phase, result)
            /\ result = "rows" => phase = "assets" \/ me.window \in known'
      BY <2>2 DEF Moved
    <3> QED BY <3>1, LoadsBacked
  <2> QED BY <2>1, <2>2
<1> QED BY <1>2, <1>3 DEF DataInv

LEMMA StepsRow ==
  ASSUME NEW p \in Procs, Steps(p)
  PROVE  row' = row /\ known \subseteq known' /\ dropped \subseteq dropped'
<1>1. row' = row /\ known \subseteq known'
  BY DEF Steps, Send, SendFails, SendRefused, LoseWorker, FetchAssets, FetchInsights, Break, Skip, Retry,
         Acknowledge, Take, StartHourly, history
<1>2. dropped \subseteq dropped'
  BY DEF Steps, Send, SendFails, SendRefused, LoseWorker, FetchAssets, FetchInsights, Break, Skip, Retry,
         Acknowledge, Take, StartHourly, history, Begin
<1> QED BY <1>1, <1>2

LEMMA PostRow ==
  ASSUME TypeInv, NEW p \in Procs, Post(p)
  PROVE  /\ known' = known /\ dropped' = dropped /\ broker' = broker
         /\ \E j \in Jobs : row' = Pending(j) /\ proc'[p].job = j /\ proc'[p].pc = "sending"
         /\ ~row'.rows
<1> PICK j \in Jobs : row' = Pending(j) /\ Go(p, [AtRest EXCEPT !.pc = "sending", !.job = j, !.window = today])
  BY DEF Post
<1> DEFINE m == [AtRest EXCEPT !.pc = "sending", !.job = j, !.window = today]
<1>1. m.pc = "sending" /\ m.job = j
  BY DEF AtRest
<1>2. proc'[p] = m
  BY DEF Go, TypeInv, TypeOK
<1> HIDE DEF m
<1>3. today \in 0 .. MaxDays /\ j \in 0 .. MaxJobs /\ "pending" \in Running
  BY BoundsAreNumbers DEF TypeInv, TypeOK, Running
<1>4. ~row'.rows
  BY <1>3, DirectFacts DEF Pending
<1> QED BY <1>1, <1>2, <1>4 DEF Post, history

LEMMA DataInvHolds == Spec => []DataInv
<1>1. Init => DataInv
  <2> SUFFICES ASSUME Init PROVE DataInv
    OBVIOUS
  <2>1. row.rows = FALSE
    BY DEF Init, NoRow
  <2>2. ASSUME NEW p \in Procs PROVE proc[p].pc = "idle"
    BY AtRestFacts DEF Init
  <2> QED BY <2>1, <2>2 DEF DataInv, Backed
<1>2. TypeInv /\ DataInv /\ [Next]_vars => DataInv'
  <2> SUFFICES ASSUME TypeInv, DataInv, [Next]_vars PROVE DataInv'
    OBVIOUS
  <2>1. CASE Outside \/ UNCHANGED vars
    <3>1. /\ proc' = proc /\ known \subseteq known'
          /\ row' = row \/ row' = NoRow \/ (row'.rows => row'.window \in known')
      BY <2>1, OutsideType
    <3>2. row'.rows => row'.window \in known'
      <4>1. CASE row' = row
        BY <3>1, <4>1 DEF DataInv
      <4>2. CASE row' = NoRow
        BY <4>2, AtRestFacts
      <4> QED BY <3>1, <4>1, <4>2
    <3>3. ASSUME NEW q \in Procs PROVE Backed(q)'
      BY <3>1, OthersBacked
    <3> QED BY <3>2, <3>3 DEF DataInv
  <2>2. ASSUME NEW p \in Procs, Post(p) PROVE DataInv'
    BY <2>2, PostType, PostRow, OtherBacked
  <2>3. ASSUME NEW p \in Procs, Steps(p) PROVE DataInv'
    <3>1. row'.rows => row'.window \in known'
      BY <2>3, StepsRow DEF DataInv
    <3> QED BY <2>3, <3>1, StepsRow, StepsType, OtherBacked
  <2> QED BY <2>1, <2>2, <2>3, SaveBacked, NextSteps
<1> QED BY <1>1, <1>2, TypeInvHolds, PTL DEF Spec

\* An account is shown active only for a window whose insights are stored, unless the
\* window's sync failed or provisioning named it.
THEOREM ActiveIsBacked == Spec => []ActiveHasData
<1>1. DataInv => ActiveHasData
  BY DEF DataInv, ActiveHasData, Active
<1> QED BY <1>1, DataInvHolds, PTL

(***************************************************************************)
(* The row that says a slice runs.  Only the first save of a slice and the *)
(* request that asks for it say so, and then the slice has not made its    *)
(* last save: whoever lets go of it before leaves a message or drops it.   *)
(***************************************************************************)
Waits(j) == \E n \in Tries : broker[j][n] > 0
InHand(p, j) == proc[p].job = j /\ proc[p].pc # "ending"
StartsOnly(p) ==
  proc[p].pc = "save" /\ proc[p].copy.status \in Running =>
    proc[p].phase = "start" /\ proc[p].copy.job = proc[p].job
SaysRunning == row.status \in Running /\ row.engine = "direct"
SomeoneHas == Waits(row.job) \/ \E p \in Procs : InHand(p, row.job)
RunInv ==
  /\ SaysRunning => row.job \in Jobs
  /\ SaysRunning /\ row.job \notin dropped => SomeoneHas
  /\ \A p \in Procs : StartsOnly(p)

\* A process loads no copy that says running but the one that starts its slice.
LEMMA MovedStartsOnly ==
  ASSUME TypeInv, NEW p \in Procs, Moved(p)
  PROVE  StartsOnly(p)'
<1>1. CASE proc'[p].pc # "save"
  BY <1>1 DEF StartsOnly
<1>2. CASE proc'[p].pc = "save"
  <2>1. PICK me \in Memories, phase \in Phases, result \in Results : Loads(proc'[p], me, phase, result)
    BY <1>2 DEF Moved
  <2>2. /\ phase = "start" => Overlaid(me, phase, result).job = me.job
        /\ phase # "start" => Overlaid(me, phase, result).status \notin Running
    BY OverlaidFacts DEF TypeInv, TypeOK
  <2> QED BY <2>1, <2>2 DEF Loads, Touched, StartsOnly
<1> QED BY <1>1, <1>2

LEMMA StartsOnlyKept ==
  ASSUME TypeInv, RunInv, NEW p \in Procs, StartsOnly(p)', proc' = [proc EXCEPT ![p] = proc'[p]]
  PROVE  \A q \in Procs : StartsOnly(q)'
<1> SUFFICES ASSUME NEW q \in Procs, q # p PROVE StartsOnly(q)'
  OBVIOUS
<1>1. proc'[q] = proc[q]
  BY DEF TypeInv, TypeOK
<1> QED BY <1>1 DEF RunInv, StartsOnly

\* A step that leaves the row alone and hands on what it had in hand.
HandedOn(p, j) == Waits(j) \/ InHand(p, j) => j \in dropped' \/ Waits(j)' \/ InHand(p, j)'
LEMMA HandOn ==
  ASSUME TypeInv, RunInv, NEW p \in Procs, row' = row, dropped \subseteq dropped', Moved(p),
         \A j \in Jobs : HandedOn(p, j)
  PROVE  RunInv'
<1>1. proc' = [proc EXCEPT ![p] = proc'[p]] /\ \A q \in Procs : StartsOnly(q)'
  BY MovedStartsOnly, StartsOnlyKept DEF Moved
<1>2. ASSUME SaysRunning', row'.job \notin dropped' PROVE SomeoneHas'
  <2>0. SaysRunning /\ row.job \in Jobs /\ row.job \notin dropped'
    BY <1>2 DEF SaysRunning, RunInv
  <2> PICK j \in Jobs : j = row.job
    BY <2>0
  <2>1. j \notin dropped' /\ (Waits(j) \/ \E q \in Procs : InHand(q, j))
    BY <2>0 DEF RunInv, SomeoneHas
  <2>2. CASE Waits(j) \/ InHand(p, j)
    BY <2>1, <2>2 DEF HandedOn, SomeoneHas
  <2>3. ASSUME NEW q \in Procs, q # p, InHand(q, j) PROVE InHand(q, j)'
    BY <1>1, <2>3 DEF InHand, TypeInv, TypeOK
  <2> QED BY <2>1, <2>2, <2>3 DEF SomeoneHas
<1>3. SaysRunning' => row'.job \in Jobs
  BY DEF RunInv, SaysRunning
<1> QED BY <1>1, <1>2, <1>3 DEF RunInv

\* What each step does with the messages and with the slice in hand.
LEMMA FetchHands ==
  ASSUME TypeInv, NEW p \in Procs, FetchAssets(p) \/ FetchInsights(p) \/ Break(p), NEW j \in Jobs
  PROVE  HandedOn(p, j)
<1>0. proc[p] \in Memories /\ proc[p].phase \in {"assets", "insights", "extended"} /\ row \in SyncRows
  BY DEF TypeInv, TypeOK, FetchAssets, FetchInsights, Break, At, InOrder
<1>1. broker' = broker
  BY DEF FetchAssets, FetchInsights, Break
<1>2. ASSUME NEW phase \in Phases, NEW result \in Results,
             proc' = [proc EXCEPT ![p] = Touching(proc[p], phase, result)]
      PROVE  HandedOn(p, j)
  <2>1. Touched(Touching(proc[p], phase, result), proc[p], phase, result)
    BY <1>0, TouchingFacts
  <2>2. proc'[p] = Touching(proc[p], phase, result)
    BY <1>2 DEF TypeInv, TypeOK
  <2>3. proc'[p].pc = "save" /\ proc'[p].job = proc[p].job
    BY <2>1, <2>2 DEF Touched
  <2> QED BY <1>1, <2>3 DEF HandedOn, InHand, Waits
<1>3. CASE FetchAssets(p) \/ FetchInsights(p)
  BY <1>0, <1>2, <1>3, NamesOfPhases DEF FetchAssets, FetchInsights, Go
<1>4. CASE Break(p)
  <2>1. CASE InTry(p)
    BY <1>2, <1>4, <2>1, NamesOfPhases DEF Break, Go, OnError
  <2>2. CASE ~InTry(p) /\ Slice(p)
    BY <1>1, <1>4, <2>2 DEF Break, HandedOn, InHand, Waits
  <2>3. CASE ~Slice(p)
    BY <1>1, <2>3, BoundsAreNumbers DEF Slice, HandedOn, InHand, Waits
  <2> QED BY <2>1, <2>2, <2>3
<1> QED BY <1>3, <1>4

LEMMA SendHands ==
  ASSUME TypeInv, NEW p \in Procs, Send(p) \/ SendFails(p) \/ SendRefused(p), NEW j \in Jobs
  PROVE  HandedOn(p, j)
<1>1. /\ proc[p] \in Memories /\ proc[p].job \in Jobs /\ asked[proc[p].job] # 0 /\ proc[p].window \in Windows
  BY DEF Send, SendFails, SendRefused, At, TypeInv, TypeOK, InOrder, AskedFor
<1>2. CASE Send(p)
  <2>1. Sent(proc[p].job, 0, 1) /\ asked' = asked
    BY <1>2 DEF Send
  <2>2. /\ \A i \in Jobs, k \in Tries : broker[i][k] > 0 => broker'[i][k] > 0
        /\ broker'[proc[p].job][0] = broker[proc[p].job][0] + 1
    BY <1>1, <2>1, SentStep, SentFacts, BoundsAreNumbers DEF TypeInv, TypeOK
  <2>3. broker[proc[p].job][0] \in Nat
    <3>1. broker \in [Jobs -> [Tries -> Nat]] /\ 0 \in Tries
      BY BoundsAreNumbers DEF TypeInv, TypeOK
    <3>2. broker[proc[p].job] \in [Tries -> Nat]
      BY <1>1, <3>1
    <3> QED BY <3>1, <3>2
  <2>4. ASSUME NEW i \in Jobs, i = proc[p].job PROVE Waits(i)'
    <3>1. ASSUME NEW a \in Nat, NEW b, b = a + 1 PROVE b > 0
      BY <3>1
    <3>2. broker'[proc[p].job][0] > 0
      BY <2>2, <2>3, <3>1
    <3>3. proc[p].job \in Jobs /\ 0 \in Tries
      BY <1>1, BoundsAreNumbers
    <3>4. broker'[i][0] > 0
      BY <2>4, <3>2
    <3> QED BY <3>3, <3>4 DEF Waits
  <2>5. CASE j = proc[p].job
    BY <2>4, <2>5 DEF HandedOn
  <2>6. CASE j # proc[p].job
    BY <2>2, <2>6 DEF HandedOn, InHand, Waits
  <2> QED BY <2>5, <2>6
<1>3. CASE SendFails(p)
  <2>1. PICK count \in {0, 1} : Sent(proc[p].job, 0, count)
    BY <1>3 DEF SendFails
  <2>2. Begin(p, proc[p]) /\ asked' = asked
    BY <1>3 DEF SendFails
  <2>3. \A i \in Jobs, k \in Tries : broker[i][k] > 0 => broker'[i][k] > 0
    BY <1>1, <2>1, <2>2, SentStep, BoundsAreNumbers
  <2>4. proc[p].job \in dropped' \/ (proc'[p].job = proc[p].job /\ proc'[p].pc = "save")
    BY <1>1, <2>2, BeginFacts
  <2> QED BY <2>3, <2>4 DEF HandedOn, InHand, Waits
<1>4. CASE SendRefused(p)
  BY <1>4 DEF SendRefused, HandedOn, InHand, Waits
<1> QED BY <1>2, <1>3, <1>4

LEMMA TakeHands ==
  ASSUME TypeInv, NEW p \in Procs, NEW i \in Jobs, NEW n \in Tries, Take(p, i, n), NEW j \in Jobs
  PROVE  HandedOn(p, j)
<1> DEFINE me == [AtRest EXCEPT !.job = i, !.message = TRUE, !.tries = n, !.window = asked[i]]
<1>1. asked[i] # 0
  BY DEF Take, TypeInv, TypeOK
<1>2. me \in Memories /\ me.job = i /\ me.window \in Windows
  BY <1>1, TakenFacts
<1>3. Begin(p, me) /\ broker' = [broker EXCEPT ![i][n] = @ - 1] /\ proc[p].pc = "idle"
  BY DEF Take, At
<1> HIDE DEF me
<1>4. i \in dropped' \/ (proc'[p].job = i /\ proc'[p].pc = "save")
  BY <1>2, <1>3, BeginFacts
<1>5. CASE i = j
  BY <1>4, <1>5 DEF HandedOn, InHand
<1>6. CASE i # j
  <2>1. broker'[j] = broker[j]
    BY <1>3, <1>6 DEF TypeInv, TypeOK
  <2>2. proc[p].job # j
    BY <1>3, BoundsAreNumbers DEF TypeInv, InOrder
  <2> QED BY <2>1, <2>2 DEF HandedOn, InHand, Waits
<1> QED BY <1>5, <1>6

LEMMA StepsHand ==
  ASSUME TypeInv, NEW p \in Procs, Steps(p), NEW j \in Jobs
  PROVE  HandedOn(p, j)
<1>1. CASE Send(p) \/ SendFails(p) \/ SendRefused(p)
  BY <1>1, SendHands
<1>2. CASE FetchAssets(p) \/ FetchInsights(p) \/ Break(p)
  BY <1>2, FetchHands
<1>3. CASE LoseWorker(p)
  BY <1>3, LoseType, BoundsAreNumbers DEF HandedOn, InHand, Waits
<1>4. CASE Skip(p)
  <2>1. broker' = broker
    BY <1>4 DEF Skip
  <2> QED BY <1>4, <2>1, SkipType DEF HandedOn, InHand, Waits
<1>5. CASE Retry(p)
  BY <1>5, RetryType DEF HandedOn, InHand, Waits
<1>6. CASE Acknowledge(p)
  BY <1>6 DEF Acknowledge, At, HandedOn, InHand, Waits
<1>7. CASE \E i \in Jobs, n \in Tries : Take(p, i, n)
  BY <1>7, TakeHands
<1>8. CASE \E phase \in {"assets", "insights"} : StartHourly(p, phase)
  <2>1. broker' = broker /\ proc[p].job = 0
    BY <1>8 DEF StartHourly, At, TypeInv, InOrder
  <2> QED BY <2>1, BoundsAreNumbers DEF HandedOn, InHand, Waits
<1> QED BY <1>1, <1>2, <1>3, <1>4, <1>5, <1>6, <1>7, <1>8 DEF Steps

LEMMA PostRuns ==
  ASSUME TypeInv, RunInv, NEW p \in Procs, Post(p)
  PROVE  RunInv'
<1>1. PICK j \in Jobs : row' = Pending(j) /\ proc'[p].job = j /\ proc'[p].pc = "sending"
  BY PostRow
<1>2. today \in 0 .. MaxDays /\ j \in 0 .. MaxJobs /\ "pending" \in Running
  BY BoundsAreNumbers DEF TypeInv, TypeOK, Running
<1>3. ASSUME NEW rows \in BOOLEAN, ~rows, row' = Direct(j, "pending", rows, today) PROVE row'.job = j
  BY <1>2, <1>3, DirectFacts
<1>4. row'.job = j
  BY <1>1, <1>3 DEF Pending
<1>5. \A q \in Procs : StartsOnly(q)'
  BY PostType, MovedStartsOnly, StartsOnlyKept DEF Moved
<1> QED BY <1>1, <1>4, <1>5 DEF RunInv, InHand, SomeoneHas

LEMMA SaveRuns ==
  ASSUME TypeInv, RunInv, NEW p \in Procs, Save(p)
  PROVE  RunInv'
<1> DEFINE me == proc[p]
           m == Onward(p, me.result)
<1>1. /\ me.pc = "save" /\ InOrder(me) /\ me \in Memories /\ AskedFor(p) /\ row \in SyncRows
      /\ me.result \in Results /\ row' = me.copy
  BY DEF Save, At, TypeInv, TypeOK, Memories
<1>2. proc' = [proc EXCEPT ![p] = m] /\ proc'[p] = m
  BY SaveType
<1>3. /\ m.pc = "save" => \E phase \in {"failing", "final"} : Loads(m, me, phase, me.result)
      /\ me.phase = "start" => m.job = me.job /\ m.pc # "ending"
  BY <1>1, OnwardFacts
<1> HIDE DEF m
<1>4. \A q \in Procs : StartsOnly(q)'
  <2>1. StartsOnly(p)'
    <3>1. CASE m.pc # "save"
      BY <1>2, <3>1 DEF StartsOnly
    <3>2. CASE m.pc = "save"
      <4>1. PICK phase \in {"failing", "final"} : Loads(m, me, phase, me.result)
        BY <1>3, <3>2
      <4>2. ASSUME NEW x \in Phases, x # "start" PROVE Overlaid(me, x, me.result).status \notin Running
        BY <1>1, <4>2, OverlaidFacts
      <4>3. phase \in Phases /\ phase # "start"
        BY NamesOfPhases
      <4> QED BY <1>2, <4>1, <4>2, <4>3 DEF Loads, Touched, StartsOnly
    <3> QED BY <3>1, <3>2
  <2> QED BY <1>2, <2>1, StartsOnlyKept
<1>5. CASE row'.status \notin Running
  BY <1>4, <1>5 DEF RunInv, SaysRunning
<1>6. CASE row'.status \in Running
  <2>1. me.phase = "start" /\ row'.job = me.job
    BY <1>1, <1>6 DEF RunInv, StartsOnly
  <2>2. me.job \in Jobs
    BY <1>1, <2>1 DEF InOrder, AskedFor
  <2>3. SomeoneHas'
    BY <1>2, <1>3, <2>1 DEF InHand, SomeoneHas
  <2> QED BY <1>4, <2>1, <2>2, <2>3 DEF RunInv
<1> QED BY <1>5, <1>6

LEMMA RunInvHolds == Spec => []RunInv
<1>1. Init => RunInv
  <2> SUFFICES ASSUME Init PROVE RunInv
    OBVIOUS
  <2>1. row.status \notin Running
    BY DEF Init, NoRow, Running
  <2>2. ASSUME NEW p \in Procs PROVE proc[p].pc = "idle"
    BY AtRestFacts DEF Init
  <2> QED BY <2>1, <2>2 DEF RunInv, SaysRunning, StartsOnly
<1>2. TypeInv /\ RunInv /\ [Next]_vars => RunInv'
  <2> SUFFICES ASSUME TypeInv, RunInv, [Next]_vars PROVE RunInv'
    OBVIOUS
  <2>1. CASE Outside \/ UNCHANGED vars
    <3>1. /\ proc' = proc /\ broker' = broker /\ dropped' = dropped
          /\ row' = row \/ row' = NoRow \/ row'.engine = "airbyte"
      BY <2>1, OutsideType
    <3>2. SaysRunning' => row' = row
      BY <3>1, AtRestFacts DEF SaysRunning
    <3>3. \A q \in Procs : StartsOnly(q)'
      BY <3>1 DEF RunInv, StartsOnly
    <3> QED BY <3>1, <3>2, <3>3 DEF RunInv, SaysRunning, SomeoneHas, Waits, InHand
  <2>2. ASSUME NEW p \in Procs, Steps(p) PROVE RunInv'
    BY <2>2, StepsRow, StepsType, StepsHand, HandOn
  <2> QED BY <2>1, <2>2, PostRuns, SaveRuns, NextSteps
<1> QED BY <1>1, <1>2, TypeInvHolds, PTL DEF Spec

\* A row that says pending or running names a slice that waits on the broker or is with a
\* process, unless it was never sent, found no credential, or died or broke off with
\* nothing to run it again.
THEOREM RunningHasSlice == Spec => []RunningIsUnderWay
<1>1. TypeInv /\ RunInv => RunningIsUnderWay
  BY BoundsAreNumbers DEF RunInv, SaysRunning, SomeoneHas, InHand, Waits, RunningIsUnderWay, UnderWay
<1> QED BY <1>1, TypeInvHolds, RunInvHolds, PTL
=============================================================================
