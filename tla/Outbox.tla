------------------------------- MODULE Outbox -------------------------------
(***************************************************************************)
(* What the event path of the device promises to an application: an outbox *)
(* that survives restarts.  A submitted event whose submission succeeded   *)
(* is pending until the cloud has it; the cloud gets the pending events    *)
(* one at a time, in order, each once.  A submission that failed may leave *)
(* one tentative event behind, which a restart may turn into a pending one *)
(* and which otherwise disappears.                                         *)
(***************************************************************************)
EXTENDS Naturals, Sequences

CONSTANT Events        \* the events: naturals, in order of submission

VARIABLES pending,     \* submitted, not yet at the cloud
          tentative,   \* <<e>> for an event of uncertain fate, or <<>>
          delivered    \* what the cloud has, oldest first

outboxVars == <<pending, tentative, delivered>>

Init == pending = <<>> /\ tentative = <<>> /\ delivered = <<>>

(* Events are numbered in the order of submission. *)
Newer(e) ==
  \A s \in {pending, tentative, delivered} :
    \A i \in DOMAIN s : e > s[i]

Submit(e) ==
  /\ Newer(e)
  /\ pending' = Append(pending, e)
  /\ tentative' = <<>>
  /\ UNCHANGED delivered

SubmitFails(e) ==
  /\ Newer(e)
  /\ tentative' = <<e>>
  /\ UNCHANGED <<pending, delivered>>

Forget ==
  /\ tentative # <<>>
  /\ tentative' = <<>>
  /\ UNCHANGED <<pending, delivered>>

Recover ==
  /\ tentative # <<>>
  /\ pending' = pending \o tentative
  /\ tentative' = <<>>
  /\ UNCHANGED delivered

Deliver ==
  /\ pending # <<>>
  /\ delivered' = Append(delivered, Head(pending))
  /\ pending' = Tail(pending)
  /\ UNCHANGED tentative

Next ==
  \/ \E e \in Events : Submit(e) \/ SubmitFails(e)
  \/ Forget
  \/ Recover
  \/ Deliver

Spec == Init /\ [][Next]_outboxVars
=============================================================================
