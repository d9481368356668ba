-------------------------- MODULE ScheduleLifecycle --------------------------
(***************************************************************************)
(* What Content Operations promises of the schedules of a draft, without   *)
(* requests, reviews, scans, stale copies or workers: a schedule is made   *)
(* once, for one version, and vouched for only if a client endorsed that   *)
(* version; it is dispatched once; what is sent was dispatched and vouched *)
(* for; and a schedule that came to an end stays there.                    *)
(***************************************************************************)
EXTENDS Naturals

CONSTANTS Schedules, Versions

VARIABLES
  endorsed,  \* versions a client approved
  schedule,  \* each schedule's phase, its version, and whether a client's approval vouches for it
  sent       \* versions handed to the provider

vars == <<endorsed, schedule, sent>>

Init ==
  /\ endorsed = {} /\ sent = {}
  /\ schedule \in [Schedules ->
       [phase : {"none"}, version : Versions, vouched : {FALSE}]]

Endorse(v) ==
  /\ endorsed' = endorsed \cup {v}
  /\ UNCHANGED <<schedule, sent>>

Create(s) ==
  /\ schedule[s].phase = "none"
  /\ \E v \in Versions, ok \in BOOLEAN :
       /\ ok => v \in endorsed
       /\ schedule' = [schedule EXCEPT ![s] =
            [phase |-> "scheduled", version |-> v, vouched |-> ok]]
  /\ UNCHANGED <<endorsed, sent>>

Dispatch(s) ==
  /\ schedule[s].phase = "scheduled"
  /\ schedule' = [schedule EXCEPT ![s].phase = "queued"]
  /\ UNCHANGED <<endorsed, sent>>

\* A schedule may be sent again: the provider may fail after it was handed the post.
Send(s) ==
  /\ schedule[s].phase = "queued" /\ schedule[s].vouched
  /\ sent' = sent \cup {schedule[s].version}
  /\ schedule' \in {schedule, [schedule EXCEPT ![s].phase = "ended"]}
  /\ UNCHANGED endorsed

\* Cancelled, blocked or failed; one cancellation ends all that are scheduled.
End(ending) ==
  /\ \A s \in ending : schedule[s].phase \in {"scheduled", "queued"}
  /\ schedule' = [s \in Schedules |->
       IF s \in ending THEN [schedule[s] EXCEPT !.phase = "ended"] ELSE schedule[s]]
  /\ UNCHANGED <<endorsed, sent>>

Next ==
  \/ \E ending \in SUBSET Schedules : End(ending)
  \/ \E s \in Schedules : Create(s) \/ Dispatch(s) \/ Send(s)
  \/ \E v \in Versions : Endorse(v)

Spec == Init /\ [][Next]_vars
=============================================================================
