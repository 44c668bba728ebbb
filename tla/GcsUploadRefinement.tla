------------------------- MODULE GcsUploadRefinement -------------------------
(***************************************************************************)
(* GcsUpload implements UploadStore: the mapping.                          *)
(***************************************************************************)
EXTENDS GcsUpload

answer(r) ==
  CASE pc[r] = "new" -> "idle"
    [] pc[r] \in Active -> "open"
    [] pc[r] = "crashed" -> "dead"
    [] pc[r] = "done" /\ response[r].err = "nil" -> "ok"
    [] pc[r] = "done" /\ response[r].err = "ErrUpload" -> "failed"
    [] OTHER -> "rejected"

pairs(W) == {<<w.req, w.attempt>> : w \in W}

Store == INSTANCE UploadStore WITH
  Targets <- Objects,
  target <- [r \in Requests |-> object(r)],
  status <- [r \in Requests |-> answer(r)],
  effects <- pairs(applied),
  live <- pairs(bucket)

\* Every behaviour of the calls and the bucket is one UploadStore allows: an
\* attempt takes effect once, a rejected upload never, and success is only
\* answered after an effect.
ImplementsStore == Store!Spec

\* Every object ever written exists and has one content, an accepted upload's.
OneVersionPerObject == Store!OneLivePerTarget
=============================================================================
