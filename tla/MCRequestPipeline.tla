------------------------- MODULE MCRequestPipeline -------------------------
(***************************************************************************)
(* RequestPipeline for TLC: every way a request can be routed, refused and *)
(* decoded.                                                                *)
(***************************************************************************)
EXTENDS RequestPipeline, TLC

CONSTANTS r1, r2

ARequest(path, method, authorization, form, spilled) ==
  [path |-> path, method |-> method, authorization |-> authorization,
   form |-> form, spilled |-> spilled]

Good == <<"right">>

MCHttpRequests ==
  {ARequest("/other", "POST", Good, "file", FALSE)}
  \cup {ARequest("/upload", m, Good, "file", FALSE) : m \in {"OPTIONS", "GET"}}
  \cup {ARequest("/upload", "POST", a, "file", TRUE) :
          a \in {<< >>, <<"Bearer">>, <<"wrong">>, <<"garbled">>, <<"Bearer", "right">>,
                 <<"right", "Bearer">>}}
  \cup {ARequest("/upload", "POST", Good, f, FALSE) : f \in Forms}
  \cup {ARequest("/upload", "POST", Good, f, TRUE) : f \in {"noFile", "file"}}

Symmetry == Permutations(Requests)
=============================================================================
