------------------------------ MODULE MCClient ------------------------------
(***************************************************************************)
(* Client for TLC, against any server: answers of every status, with       *)
(* bodies of either type, cut off, followed by more, or of another type.   *)
(***************************************************************************)
EXTENDS Client, TLC

CONSTANTS c1, c2

MCMoments == {"0001-01-01", "noon"}
MCSecond == [t \in MCMoments |-> t]

anError == encodeFields(ErrorType, [ErrorType.zero EXCEPT !.message = "m"])
anUploadResponse ==
  encodeFields(UploadResponseType, [UploadResponseType.zero EXCEPT !.uploadTime = "noon"])

Documents ==
  {anError, anUploadResponse, << >>, <<[key |-> "error_message", value |-> Str("m")]>>,
   SelectSeq(anUploadResponse, LAMBDA m : m.key # "gcspath"),
   anError \o anUploadResponse}

AnAnswer(status, contentType, members, trailing, whole) ==
  [status |-> status, contentType |-> contentType, members |-> members,
   trailing |-> trailing, whole |-> whole]

Statuses == {200, 400, 401, 500, 404}

MCAnswers ==
  {AnAnswer(s, "application/json", d, FALSE, TRUE) : s \in Statuses, d \in Documents}
  \cup {AnAnswer(s, ct, anError \o anUploadResponse, t, w) :
          s \in Statuses, ct \in {"", "text/plain", "application/json"}, t \in BOOLEAN,
          w \in BOOLEAN}

Symmetry == Permutations(Calls)
=============================================================================
