-------------------------- MODULE AttemptLifecycle --------------------------
(***************************************************************************)
(* What the publish-attempt processor promises of a Facebook Page attempt, *)
(* without workers, locks, reads or crashes: an attempt waits, is held by  *)
(* one caller who asks Meta once, and then is delivered, waits again while *)
(* it has tries left, or is closed.  A closed or delivered attempt is      *)
(* never tried again, and no try is made without being counted.            *)
(***************************************************************************)
EXTENDS Naturals

CONSTANTS Attempts, MaxTries

VARIABLES
  phase,   \* waiting, held, asked, delivered or closed
  tries,   \* calls made to publish the attempt
  posts    \* posts the calls made on Meta

lifecycle == <<phase, tries, posts>>

Init ==
  /\ phase \in [Attempts -> {"waiting", "closed"}]
  /\ tries = [a \in Attempts |-> 0]
  /\ posts = [a \in Attempts |-> 0]

Moves(a, from, to) == phase[a] = from /\ phase' = [phase EXCEPT ![a] = to]

Hold(a) == Moves(a, "waiting", "held") /\ UNCHANGED <<tries, posts>>

\* One call; it may make a post, whatever is answered.
Ask(a) ==
  /\ Moves(a, "held", "asked")
  /\ tries[a] < MaxTries /\ tries' = [tries EXCEPT ![a] = @ + 1]
  /\ \E made \in 0..1 : posts' = [posts EXCEPT ![a] = @ + made]

\* A post is recorded only if there is one.
Deliver(a) == posts[a] > 0 /\ Moves(a, "asked", "delivered") /\ UNCHANGED <<tries, posts>>

WaitAgain(a) == tries[a] < MaxTries /\ Moves(a, "asked", "waiting") /\ UNCHANGED <<tries, posts>>

\* Blocked, failed for good, or left behind by a worker that was lost.
Close(a) ==
  /\ \E from \in {"waiting", "held", "asked"} : Moves(a, from, "closed")
  /\ UNCHANGED <<tries, posts>>

Next == \E a \in Attempts : Hold(a) \/ Ask(a) \/ Deliver(a) \/ WaitAgain(a) \/ Close(a)

Spec == Init /\ [][Next]_lifecycle
=============================================================================
