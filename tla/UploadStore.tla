---------------------------- MODULE UploadStore ----------------------------
(***************************************************************************)
(* What uploading promises a client, without the mechanism: an upload that *)
(* is accepted takes effect at most once per attempt, each time replacing  *)
(* what its target held, and possibly after it was answered; it is         *)
(* answered with success only after it took effect; one that is rejected   *)
(* never takes effect.                                                     *)
(***************************************************************************)
EXTENDS Naturals

CONSTANTS Requests, Targets, MaxAttempts

VARIABLES
  target,   \* the object each upload writes
  status,   \* how far each upload is
  effects,  \* the <<upload, attempt>> pairs that took effect
  live      \* those no later effect on the same target has replaced

vars == <<target, status, effects, live>>

Statuses == {"idle", "open", "rejected", "ok", "failed", "dead"}
Pairs == Requests \X (1 .. MaxAttempts)

TypeOK ==
  /\ target \in [Requests -> Targets]
  /\ status \in [Requests -> Statuses]
  /\ effects \in SUBSET Pairs
  /\ live \in SUBSET effects

Init ==
  /\ target \in [Requests -> Targets]
  /\ status = [r \in Requests |-> "idle"]
  /\ effects = {}
  /\ live = {}

Move(r, from, to) ==
  /\ status[r] = from
  /\ status' = [status EXCEPT ![r] = to]
  /\ UNCHANGED <<target, effects, live>>

Accept(r) == Move(r, "idle", "open")
Reject(r) == Move(r, "idle", "rejected")
ReplyOk(r) == (\E p \in effects : p[1] = r) /\ Move(r, "open", "ok")
ReplyFailed(r) == Move(r, "open", "failed")

\* The process exits; the uploads it had open are never answered.
Die ==
  /\ status' = [r \in Requests |-> IF status[r] = "open" THEN "dead" ELSE status[r]]
  /\ UNCHANGED <<target, effects, live>>

Effect(r, n) ==
  /\ status[r] \in {"open", "ok", "failed", "dead"}
  /\ <<r, n>> \notin effects
  /\ effects' = effects \cup {<<r, n>>}
  /\ live' = {p \in live : target[p[1]] # target[r]} \cup {<<r, n>>}
  /\ UNCHANGED <<target, status>>

Next ==
  \/ \E r \in Requests :
       \/ Accept(r) \/ Reject(r) \/ ReplyOk(r) \/ ReplyFailed(r)
       \/ \E n \in 1 .. MaxAttempts : Effect(r, n)
  \/ Die

Spec == Init /\ [][Next]_vars

\* Each target that took an effect holds exactly one, and it is of an upload
\* that was accepted.
OneLivePerTarget ==
  /\ \A p \in effects : \E q \in live : target[q[1]] = target[p[1]]
  /\ \A p, q \in live : target[p[1]] = target[q[1]] => p = q
  /\ \A p \in live : status[p[1]] \notin {"idle", "rejected"}
===========================================================================
