------------------------- MODULE FormDecodingProofs -------------------------
(***************************************************************************)
(* What FormDecoding promises of the files of a form, for forms of any     *)
(* length.                                                                 *)
(***************************************************************************)
EXTENDS FormDecoding, FiniteSetTheorems, TLAPS

\* A form has finitely many parts.
LEMMA PartsLength ==
  ASSUME body \in Bodies
  PROVE  Len(body.parts) \in Nat /\ DOMAIN body.parts = 1 .. Len(body.parts)
<1> DEFINE Part == [name : {"file", "other"}, spilled : BOOLEAN]
<1>1. body \in AllBodies
  BY BodiesAssumption
<1>2. body.parts \in Seq(Part)
  BY <1>1 DEF AllBodies
<1> HIDE DEF Part
<1> QED
  BY <1>2

\* A set of numbers that is not empty and has a bound has a least element: of
\* the sets of what is not greater than one of them, one has no proper subset.
LEMMA LeastElement ==
  ASSUME NEW n \in Nat, NEW S \in SUBSET (1 .. n), S # {}
  PROVE  \E i \in S : \A j \in S : i <= j
<1> DEFINE below(i) == {j \in S : j <= i}
           T == {below(i) : i \in S}
<1>0. S \subseteq Int
  OBVIOUS
<1>1. IsFiniteSet(S)
  <2>1. IsFiniteSet(1 .. n)
    BY FS_Interval
  <2> HIDE DEF T
  <2> QED
    BY <2>1, FS_Subset
<1>2. T \subseteq FiniteSubsetsOf(S) /\ T # {}
  <2>1. ASSUME NEW i \in S PROVE below(i) \in FiniteSubsetsOf(S)
    <3>1. below(i) \in SUBSET S
      OBVIOUS
    <3> HIDE DEF below, T
    <3> QED
      BY <1>1, <3>1, FS_Subset DEF FiniteSubsetsOf
  <2> HIDE DEF below
  <2> QED
    BY <2>1
<1> HIDE DEF T
<1>3. PICK x \in T : \A y \in T : ~ (<<y, x>> \in StrictSubsetOrdering(S))
  BY <1>2, FS_StrictSubsetOrderingWellFounded, WFMin
<1> USE DEF T
<1>4. PICK i \in S : x = below(i)
  BY <1>3
<1>5. ASSUME NEW j \in S, j < i PROVE FALSE
  <2>1. below(j) \subseteq below(i) /\ i \in below(i) /\ i \notin below(j)
    <3>1. i \in Int /\ j \in Int
      BY <1>0
    <3>2. ASSUME NEW k \in below(j) PROVE k \in below(i)
      BY <1>0, <1>5, <3>1
    <3>3. below(j) \subseteq below(i)
      BY <3>2
    <3>4. i \in below(i)
      BY <3>1
    <3>5. i \notin below(j)
      BY <1>5, <3>1
    <3> QED
      BY <3>3, <3>4, <3>5
  <2>2. below(j) \in T /\ below(j) \in SUBSET S /\ below(i) \in SUBSET S
    OBVIOUS
  <2>3. <<below(j), below(i)>> \in StrictSubsetOrdering(S)
    BY <2>1, <2>2 DEF StrictSubsetOrdering
  <2> QED
    BY <1>3, <1>4, <2>2, <2>3
<1> QED
  BY <1>5

\* If a part is named "file", one of them is the first.
LEMMA FileNamed ==
  ASSUME body \in Bodies, Named("file") # {}
  PROVE  file # 0 /\ file \in Named("file") /\ \A j \in Named("file") : file <= j
<1>1. Named("file") \in SUBSET (1 .. Len(body.parts))
  BY PartsLength DEF Named
<1>2. \E i \in Named("file") : \A j \in Named("file") : i <= j
  BY <1>1, PartsLength, LeastElement
<1>3. file \in Named("file") /\ \A j \in Named("file") : file <= j
  BY <1>2 DEF file
<1> QED
  BY <1>1, <1>3, PartsLength

\* What is not 0 is a part named "file".
LEMMA FileIsPart ==
  ASSUME body \in Bodies, file # 0
  PROVE  file \in DOMAIN body.parts /\ body.parts[file].name = "file"
<1>1. Named("file") # {}
  BY DEF file
<1>2. file \in Named("file")
  BY <1>1, FileNamed
<1> QED
  BY <1>2 DEF Named

\* A second closer after a first.
LEMMA AppendToOne ==
  ASSUME NEW a, NEW b
  PROVE  Append(<<a>>, b) = <<a, b>>
<1> DEFINE s == Append(<<a>>, b)
<1>1. Len(s) = 2 /\ s[1] = a /\ s[2] = b
  OBVIOUS
<1>2. s = [i \in 1 .. 2 |-> s[i]]
  OBVIOUS
<1>3. <<a, b>> = [i \in 1 .. 2 |-> <<a, b>>[i]]
  OBVIOUS
<1> HIDE DEF s
<1>4. s = <<a, b>>
  BY <1>1, <1>2, <1>3
<1> QED
  BY <1>4 DEF s

\* The lists of closers there can be, and what close() makes of them.
LEMMA Lists ==
  /\ Append(<< >>, "RemoveAll") = <<"RemoveAll">>
  /\ Append(<<"RemoveAll">>, "Close") = <<"RemoveAll", "Close">>
  /\ Append(<< >>, "Close") = <<"Close">>
  /\ Append(<<"Close">>, "RemoveAll") = <<"Close", "RemoveAll">>
  /\ Len(<< >>) = 0 /\ Len(<<"RemoveAll">>) = 1 /\ Len(<<"Close">>) = 1
  /\ Len(<<"RemoveAll", "Close">>) = 2 /\ Len(<<"Close", "RemoveAll">>) = 2
  /\ << >> # <<"RemoveAll">> /\ << >> # <<"Close">> /\ << >> # <<"RemoveAll", "Close">>
  /\ << >> # <<"Close", "RemoveAll">> /\ <<"RemoveAll">> # <<"RemoveAll", "Close">>
  /\ <<"RemoveAll">>[1] = "RemoveAll" /\ <<"RemoveAll", "Close">>[1] = "RemoveAll"
  /\ <<"RemoveAll", "Close">>[2] = "Close"
<1>1. /\ Append(<<"RemoveAll">>, "Close") = <<"RemoveAll", "Close">>
      /\ Append(<<"Close">>, "RemoveAll") = <<"Close", "RemoveAll">>
  BY AppendToOne
<1> QED
  BY <1>1

\* A request starts with nothing open and nothing on disk.
LEMMA InitIInv == Init => IInv
<1> SUFFICES ASSUME Init PROVE IInv
  OBVIOUS
<1>1. body \in Bodies /\ Len(body.parts) \in Nat
  BY PartsLength DEF Init
<1> QED
  BY <1>1 DEF Init, IInv, StageInv, DiskInv

\* Which part is the file, and which parts go to disk, depends on the body alone.
LEMMA BodyKept ==
  ASSUME body' = body
  PROVE  spilledParts' = spilledParts /\ file' = file
<1>1. spilledParts' = spilledParts
  BY DEF spilledParts
<1>2. file' = file
  BY SMT DEF file, Named
<1> QED
  BY <1>1, <1>2

\* Until the form has been read, nothing is open and nothing registered.
LEMMA ParseStep ==
  ASSUME IInv, CheckBody \/ ReadPart \/ ParseFails \/ Parse
  PROVE  IInv'
<1> USE DEF IInv
<1>1. Len(body.parts) \in Nat /\ DOMAIN body.parts = 1 .. Len(body.parts)
  BY PartsLength
<1>2. /\ body' = body /\ spilledParts' = spilledParts /\ file' = file
      /\ UNCHANGED <<handle, request, ran, merr>>
  BY BodyKept DEF CheckBody, ReadPart, ParseFails, Parse
<1>3. /\ stage \in {"begin", "parse"} /\ handle = {} /\ request = 0
      /\ closers = << >> /\ ran = << >>
  BY DEF CheckBody, ReadPart, ParseFails, Parse, StageInv
<1>4. CASE CheckBody
  <2>1. /\ stage' \in {"parse", "closing"} /\ UNCHANGED <<parsed, disk, closers>>
        /\ disk = {} /\ parsed = 0
    BY <1>4 DEF CheckBody, fail, DiskInv
  <2>2. rerr' = "field required" => file = 0
    BY <1>4 DEF CheckBody, fail, StageInv
  <2>3. StageInv'
    BY <1>2, <1>3, <2>1, <2>2, Lists DEF StageInv
  <2>4. DiskInv'
    BY <1>1, <1>2, <1>3, <2>1, Lists DEF DiskInv
  <2> QED
    BY <1>2, <2>3, <2>4
<1>5. CASE ReadPart
  <2>1. parsed' = parsed + 1 /\ parsed' \in 1 .. Len(body.parts)
        /\ stage = "parse" /\ UNCHANGED <<stage, closers, rerr>>
    BY <1>1, <1>5 DEF ReadPart, DiskInv
  <2>2. disk' = spilledParts \cap (1 .. parsed')
    BY <1>1, <1>5, <2>1 DEF ReadPart, DiskInv, spilledParts
  <2>3. StageInv'
    BY <1>2, <1>3, <2>1, Lists DEF StageInv
  <2>4. DiskInv'
    BY <1>1, <1>2, <1>3, <2>1, <2>2, Lists DEF DiskInv
  <2> QED
    BY <1>2, <2>3, <2>4
<1>6. CASE ParseFails
  <2>1. stage' = "closing" /\ rerr' = "parse multipart form" /\ UNCHANGED <<parsed, closers>>
    BY <1>6 DEF ParseFails, fail
  <2>2. StageInv'
    BY <1>2, <1>3, <2>1, Lists DEF StageInv
  <2>3. DiskInv'
    BY <1>1, <1>2, <1>3, <2>1, Lists DEF DiskInv
  <2> QED
    BY <1>2, <2>2, <2>3
<1>7. CASE Parse
  <2>1. stage' = "open" /\ closers' = <<"RemoveAll">> /\ UNCHANGED <<parsed, disk, rerr>>
    BY <1>3, <1>7, Lists DEF Parse
  <2>2. disk' = spilledParts
    BY <1>1, <1>7 DEF Parse, DiskInv, spilledParts
  <2>3. StageInv'
    BY <1>2, <1>3, <2>1, Lists DEF StageInv
  <2>4. DiskInv'
    BY <1>1, <1>2, <1>3, <2>1, <2>2, Lists DEF DiskInv
  <2> QED
    BY <1>2, <2>3, <2>4
<1> QED
  BY <1>4, <1>5, <1>6, <1>7

\* Opening registers the closer of what it opened.
LEMMA OpenStep ==
  ASSUME IInv, OpenFile
  PROVE  IInv'
<1> USE DEF IInv
<1>1. body' = body /\ spilledParts' = spilledParts /\ file' = file
  BY BodyKept DEF OpenFile
<1>2. /\ stage = "open" /\ closers = <<"RemoveAll">> /\ ran = << >> /\ request = 0 /\ handle = {}
      /\ disk = spilledParts /\ UNCHANGED <<parsed, disk, ran, merr>>
  BY DEF OpenFile, StageInv, DiskInv
<1>3. \/ /\ stage' = "upload" /\ file # 0 /\ handle' = {file} /\ request' = file
         /\ closers' = <<"RemoveAll", "Close">> /\ UNCHANGED rerr
      \/ /\ stage' = "closing" /\ UNCHANGED <<handle, closers, request>>
         /\ rerr' = "field required" => file = 0
  BY <1>2, Lists DEF OpenFile, fail
<1>4. StageInv'
  BY <1>1, <1>2, <1>3, Lists DEF StageInv
<1>5. DiskInv'
  BY <1>1, <1>2, <1>3, Lists DEF DiskInv
<1> QED
  BY <1>1, <1>4, <1>5

\* The upload leaves the files to close().
LEMMA UploadStep ==
  ASSUME IInv, UploadFile
  PROVE  IInv'
<1> USE DEF IInv
<1>1. body' = body /\ spilledParts' = spilledParts /\ file' = file
  BY BodyKept DEF UploadFile
<1>2. /\ stage = "upload" /\ stage' = "closing"
      /\ closers = <<"RemoveAll", "Close">> /\ ran = << >> /\ handle = {request}
      /\ request # 0 /\ disk = spilledParts
      /\ UNCHANGED <<parsed, disk, handle, request, closers, ran, rerr, merr>>
  BY DEF UploadFile, StageInv, DiskInv
<1>3. StageInv'
  BY <1>1, <1>2, Lists DEF StageInv
<1>4. DiskInv'
  BY <1>1, <1>2, Lists DEF DiskInv
<1> QED
  BY <1>1, <1>3, <1>4

\* close() runs what is registered, the last one first.
LEMMA CloseStep ==
  ASSUME IInv, Close
  PROVE  IInv'
<1> USE DEF IInv
<1>1. body' = body /\ spilledParts' = spilledParts /\ file' = file
  BY BodyKept DEF Close
<1>2. stage = "closing" /\ UNCHANGED <<stage, parsed, request, closers, rerr>>
  BY DEF Close
<1>3. \/ closers = <<"RemoveAll">> /\ ran = << >>
      \/ closers = <<"RemoveAll", "Close">> /\ ran = << >>
      \/ closers = <<"RemoveAll", "Close">> /\ ran = <<"Close">>
  <2>1. \/ closers = << >> /\ ran = << >>
        \/ closers = <<"RemoveAll">> /\ ran \in {<< >>, <<"RemoveAll">>}
        \/ /\ closers = <<"RemoveAll", "Close">>
           /\ ran \in {<< >>, <<"Close">>, <<"Close", "RemoveAll">>}
    BY <1>2 DEF StageInv
  <2>2. Len(ran) < Len(closers)
    BY DEF Close
  <2> QED
    BY <2>1, <2>2, Lists
<1>4. CASE closers = <<"RemoveAll", "Close">> /\ ran = << >>
  <2>1. next = "Close"
    BY <1>4, Lists DEF next
  <2>2. ran' = <<"Close">> /\ handle' = {} /\ merr' \in {merr, merr + 1} /\ UNCHANGED disk
    BY <1>4, <2>1, Lists DEF Close
  <2>3. StageInv'
    BY <1>1, <1>2, <1>4, <2>2, Lists DEF StageInv
  <2>4. DiskInv'
    BY <1>1, <1>2, <1>4, <2>2, Lists DEF DiskInv
  <2> QED
    BY <1>1, <2>3, <2>4
<1>5. CASE \/ closers = <<"RemoveAll">> /\ ran = << >>
           \/ closers = <<"RemoveAll", "Close">> /\ ran = <<"Close">>
  <2>1. next = "RemoveAll"
    <3>1. Len(closers) - Len(ran) = 1
      <4>1. CASE closers = <<"RemoveAll">> /\ ran = << >>
        BY <4>1
      <4>2. CASE closers = <<"RemoveAll", "Close">> /\ ran = <<"Close">>
        BY <4>2
      <4> QED
        BY <1>5, <4>1, <4>2
    <3>2. closers[1] = "RemoveAll"
      BY <1>5, Lists
    <3> QED
      BY <3>1, <3>2 DEF next
  <2>2. /\ ran' = Append(ran, "RemoveAll") /\ UNCHANGED handle
        /\ merr' = IF disk' = {} THEN merr ELSE merr + 1
    BY <2>1 DEF Close
  <2>3. \/ closers = <<"RemoveAll">> /\ ran' = <<"RemoveAll">>
        \/ closers = <<"RemoveAll", "Close">> /\ ran' = <<"Close", "RemoveAll">>
    BY <1>5, <2>2, Lists
  <2>4. handle = {} /\ merr \in Nat
    BY <1>2, <1>5, Lists DEF DiskInv
  <2>5. StageInv'
    BY <1>1, <1>2, <2>2, <2>3, Lists DEF StageInv
  <2>6. ran' # << >> /\ merr' \in Nat /\ (disk' # {} => merr' > 0)
    BY <2>2, <2>3, <2>4, Lists
  <2>7. DiskInv'
    BY <1>1, <1>2, <2>2, <2>4, <2>6 DEF DiskInv
  <2> QED
    BY <1>1, <2>5, <2>7
<1> QED
  BY <1>3, <1>4, <1>5

\* It is done when all of them have been run.
LEMMA ClosedStep ==
  ASSUME IInv, Closed
  PROVE  IInv'
<1> USE DEF IInv
<1>1. body' = body /\ spilledParts' = spilledParts /\ file' = file
  BY BodyKept DEF Closed
<1>2. /\ stage = "closing" /\ stage' = "over" /\ Len(ran) = Len(closers)
      /\ UNCHANGED <<parsed, disk, handle, request, closers, ran, rerr, merr>>
  BY DEF Closed
<1>3. StageInv'
  BY <1>1, <1>2, Lists DEF StageInv
<1>4. DiskInv'
  BY <1>1, <1>2, Lists DEF DiskInv
<1> QED
  BY <1>1, <1>3, <1>4

\* The invariant always holds.
THEOREM Invariance == Spec => []IInv
<1>1. IInv /\ [Next]_vars => IInv'
  <2> SUFFICES ASSUME IInv, [Next]_vars PROVE IInv'
    OBVIOUS
  <2>1. CASE UNCHANGED vars
    BY <2>1, BodyKept DEF vars, IInv, StageInv, DiskInv
  <2> QED
    BY <2>1, ParseStep, OpenStep, UploadStep, CloseStep, ClosedStep DEF Next
<1> QED
  BY <1>1, InitIInv, PTL DEF Spec

\* What is uploaded is a file of the form, open and in its place, whatever the
\* form holds and wherever decoding it fails.
THEOREM FileOfTheForm == Spec => []UploadReadsAFileOfTheForm
<1>1. IInv => UploadReadsAFileOfTheForm
  <2> SUFFICES ASSUME IInv PROVE UploadReadsAFileOfTheForm
    OBVIOUS
  <2>1. ASSUME stage = "upload"
        PROVE  /\ request \in Named("file") /\ handle = {request}
               /\ body.parts[request].spilled => request \in disk
    <3>1. request = file /\ file # 0 /\ handle = {request} /\ disk = spilledParts
      BY <2>1 DEF IInv, StageInv, DiskInv
    <3>2. file \in DOMAIN body.parts /\ body.parts[file].name = "file"
      BY <3>1, FileIsPart DEF IInv
    <3> QED
      BY <3>1, <3>2 DEF Named, spilledParts
  <2>2. ASSUME rerr = "field required" PROVE Named("file") = {}
    <3>1. file = 0
      BY <2>2 DEF IInv, StageInv
    <3> QED
      BY <3>1, FileNamed DEF IInv
  <2> QED
    BY <2>1, <2>2 DEF UploadReadsAFileOfTheForm
<1> QED
  BY <1>1, Invariance, PTL

\* No file is removed while it is open; in the end all is closed and gone, or
\* an error says that it is not.
THEOREM AllGivenBack == Spec => []GivenBack
<1>1. IInv => GivenBack
  <2> SUFFICES ASSUME IInv PROVE GivenBack
    OBVIOUS
  <2>1. ASSUME NEW i \in handle, body.parts[i].spilled PROVE i \in disk
    <3>1. i = file /\ file # 0 /\ disk = spilledParts
      BY DEF IInv, StageInv, DiskInv
    <3> QED
      BY <2>1, <3>1, FileIsPart DEF IInv, spilledParts
  <2>2. ASSUME stage = "over"
        PROVE  /\ handle = {} /\ ToSet(ran) = ToSet(closers)
               /\ disk # {} => rerr = "parse multipart form" \/ merr > 0
    <3>1. \/ ran = closers
          \/ closers = <<"RemoveAll", "Close">> /\ ran = <<"Close", "RemoveAll">>
      <4>1. Len(ran) = Len(closers)
        BY <2>2 DEF IInv, StageInv
      <4>2. \/ closers = << >> /\ ran = << >>
            \/ closers = <<"RemoveAll">> /\ ran \in {<< >>, <<"RemoveAll">>}
            \/ /\ closers = <<"RemoveAll", "Close">>
               /\ ran \in {<< >>, <<"Close">>, <<"Close", "RemoveAll">>}
        BY <2>2 DEF IInv, StageInv
      <4> QED
        BY <4>1, <4>2, Lists
    <3>2. ToSet(<<"RemoveAll", "Close">>) = {"RemoveAll", "Close"}
      BY DEF ToSet
    <3>3. ToSet(<<"Close", "RemoveAll">>) = {"RemoveAll", "Close"}
      BY DEF ToSet
    <3>4. ToSet(ran) = ToSet(closers)
      BY <3>1, <3>2, <3>3
    <3>5. handle = {}
      BY <2>2, <3>1, Lists DEF IInv, StageInv, DiskInv
    <3> QED
      BY <2>2, <3>4, <3>5 DEF IInv, StageInv, DiskInv
  <2> QED
    BY <2>1, <2>2 DEF GivenBack
<1> QED
  BY <1>1, Invariance, PTL
=============================================================================
