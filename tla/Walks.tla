-------------------------------- MODULE Walks --------------------------------
(***************************************************************************)
(* Whether a stored photo may be sent as it is (photos.checked_bytes): its *)
(* file is read part by part, from the signature to the last byte, and     *)
(* only parts that describe the pixels pass.  A part is a JPEG segment, a  *)
(* PNG chunk or a WebP chunk; what its bytes are is told by whether they   *)
(* are what its kind specifies, and no more ("fits").                      *)
(***************************************************************************)
EXTENDS Naturals, Sequences, FiniteSets

CONSTANTS MaxParts, MaxChunks   \* bounds: parts of a JPEG or PNG file, of a WebP file

ASSUME WalksAssumption == MaxParts \in Nat /\ MaxChunks \in Nat

VARIABLES
  format,    \* of the file
  parts,     \* what has been read of it, in order
  walk,      \* what the walk remembers
  verdict    \* "walking", "walked", "clean" or "refused"

walks == <<format, parts, walk, verdict>>

\* The JPEG walk's frame, scan, application segments and profile fragments;
\* the PNG walk's colour type and palette.
NothingWalked == [sof |-> "none", scanned |-> FALSE, seen |-> {}, icc |-> <<>>,
                  colour |-> 9, palette |-> 0]

WalksInit ==
  /\ format \in {"jpeg", "png", "webp"}
  /\ parts = <<>> /\ walk = NothingWalked /\ verdict = "walking"

GoesPast(p, w) == parts' = Append(parts, p) /\ walk' = w /\ UNCHANGED <<format, verdict>>
StopsAt(p, v) == parts' = Append(parts, p) /\ verdict' = v /\ UNCHANGED <<format, walk>>
Walking(f, bound) == format = f /\ verdict = "walking" /\ Len(parts) < bound

\* The file is over before its end was marked.
RunsOut ==
  /\ verdict = "walking" /\ format # "webp" /\ verdict' = "refused"
  /\ UNCHANGED <<format, parts, walk>>

-----------------------------------------------------------------------------
(* JPEG: the marker after each segment.  A scan's coded data is read with  *)
(* its SOS.                                                                *)

Frames == {"SOF", "SOFprogressive"}
Tables == {"DHT", "DRI", "DNL"}       \* DQT is as DHT

\* An ICC fragment has a number and says how many there are.
Segments ==
  [kind : Frames \union Tables \union {"SOS", "JFIF", "Adobe", "EOI", "other"}, fits : BOOLEAN,
   no : {0}, of : {0}]
  \union [kind : {"ICC"}, fits : BOOLEAN, no : 1..2, of : 1..2]

\* Mutant of Allowed: an application segment after the scan is let by.
AllowedLate(kind) ==
  \/ kind \in {"SOS", "DHT", "DRI", "DNL", "ICC"}
  \/ kind \in Frames /\ walk.sof = "none"
  \/ kind \in {"JFIF", "Adobe"} /\ kind \notin walk.seen

Allowed(kind) ==
  IF walk.scanned
    THEN kind \in Tables \/ (kind = "SOS" /\ walk.sof = "SOFprogressive")
  ELSE \/ kind \in {"SOS", "DHT", "DRI", "ICC"}
       \/ kind \in Frames /\ walk.sof = "none"
       \/ kind \in {"JFIF", "Adobe"} /\ kind \notin walk.seen

\* _jpeg_icc_ok: numbered 1 to n, with n in every one.
Numbered(icc) ==
  /\ \A j \in DOMAIN icc : icc[j].of = Len(icc)
  /\ {icc[j].no : j \in DOMAIN icc} = 1..Len(icc)

WalkSegment(p) ==
  /\ Walking("jpeg", MaxParts) /\ p.kind # "EOI"
  /\ IF ~Allowed(p.kind) \/ ~p.fits \/ (p.kind = "SOS" /\ walk.sof = "none")
       THEN StopsAt(p, "refused")
     ELSE GoesPast(p, [walk EXCEPT
            !.sof = IF p.kind \in Frames THEN p.kind ELSE @,
            !.scanned = @ \/ p.kind = "SOS",
            !.seen = IF p.kind \in {"JFIF", "Adobe", "ICC"} THEN @ \union {p.kind} ELSE @,
            !.icc = IF p.kind = "ICC" THEN Append(@, p) ELSE @])

\* EOI fits where no byte follows it; the fragments may not make a profile.
WalkEnd(p, profile) ==
  /\ Walking("jpeg", MaxParts) /\ p.kind = "EOI"
  /\ StopsAt(p, IF walk.scanned /\ p.fits /\ (walk.icc = <<>> \/ (Numbered(walk.icc) /\ profile))
                  THEN "walked" ELSE "refused")

-----------------------------------------------------------------------------
(* PNG: a chunk fits the file, its CRC and, where there is one, the length *)
(* that is fixed for its kind; a profile is named as Cabinet names it.     *)

Colours == {0, 2, 3, 4, 6}

\* Of the kinds whose length follows from the colour type, and a palette's
\* entries.
BackgroundOf == [c \in Colours |-> CASE c \in {0, 4} -> 2 [] c \in {2, 6} -> 6 [] c = 3 -> 1]
TransparentOf == [c \in {0, 2} |-> IF c = 0 THEN 2 ELSE 6]

Chunks ==
  [kind : {"IHDR"}, fits : BOOLEAN, size : Colours]
  \union [kind : {"PLTE"}, fits : BOOLEAN, size : 1..2]
  \union [kind : {"tRNS", "bKGD"}, fits : BOOLEAN, size : {1, 2, 6}]
  \union [kind : {"IDAT", "iCCP", "pHYs", "IEND", "other"}, fits : BOOLEAN, size : {0}]

RightLength(p) ==
  /\ p.kind = "bKGD" => p.size = BackgroundOf[walk.colour]
  /\ p.kind = "tRNS" =>
       IF walk.colour = 3 THEN p.size <= walk.palette
       ELSE walk.colour \in DOMAIN TransparentOf /\ p.size = TransparentOf[walk.colour]

WalkChunk(p) ==
  /\ Walking("png", MaxParts)
  /\ IF \/ p.kind = "other" \/ ~p.fits
        \/ (walk.colour = NothingWalked.colour) # (p.kind = "IHDR")
        \/ ~RightLength(p)
       THEN StopsAt(p, "refused")
     ELSE IF p.kind = "IEND" THEN StopsAt(p, "walked")     \* it fits: no byte follows it
     ELSE GoesPast(p, [walk EXCEPT !.colour = IF p.kind = "IHDR" THEN p.size ELSE @,
                                 !.palette = IF p.kind = "PLTE" THEN p.size ELSE @])

-----------------------------------------------------------------------------
(* WebP: the chunks up to exactly the file's end, then their order.        *)

Bitstreams == {"VP8", "VP8L"}
InFrame == Bitstreams \union {"ALPH"}

\* A VP8X chunk whose flags are clear, an ICCP chunk with a profile, and a frame
\* whose own chunks add up are those that fit as a kind; "runs" past the file.
RiffChunks ==
  [kind : InFrame \union {"ANIM", "other"}, runs : BOOLEAN, fits : {TRUE}, inside : {{}}]
  \union [kind : {"VP8X", "ICCP"}, runs : BOOLEAN, fits : BOOLEAN, inside : {{}}]
  \union [kind : {"ANMF"}, runs : BOOLEAN, fits : BOOLEAN,
          inside : SUBSET {"VP8", "ALPH", "other"}]

WalkRiff(p) ==
  /\ Walking("webp", MaxChunks)
  /\ IF p.runs THEN StopsAt(p, "refused") ELSE GoesPast(p, walk)

\* _webp_walk, on all of the chunks: WebP is judged by them alone.
JudgesRiff ==
  LET kinds == {parts[j].kind : j \in DOMAIN parts}
      frames == {j \in DOMAIN parts : parts[j].kind = "ANMF"}
      once == \A i, j \in DOMAIN parts \ frames : parts[i].kind = parts[j].kind => i = j
      extended == /\ parts[1].kind = "VP8X" /\ parts[1].fits
                  /\ \A j \in DOMAIN parts :
                       /\ parts[j].kind = "ICCP" => parts[j].fits
                       /\ parts[j].kind = "ANMF" => /\ parts[j].fits /\ parts[j].inside # {}
                                                    /\ parts[j].inside \subseteq InFrame
      single == Len(parts) = 1 /\ parts[1].kind \in Bitstreams
  IN /\ format = "webp" /\ verdict = "walking"
     /\ verdict' = IF parts # <<>> /\ "other" \notin kinds /\ once /\ (extended \/ single)
                     THEN "clean" ELSE "refused"
     /\ UNCHANGED <<format, parts, walk>>

-----------------------------------------------------------------------------
\* A JPEG's application segments are as many as Pillow read, and carries_metadata
\* finds nothing in what Pillow tells of the file.
PillowReads(agrees) ==
  /\ verdict = "walked" /\ verdict' = IF agrees THEN "clean" ELSE "refused"
  /\ UNCHANGED <<format, parts, walk>>

WalksNext ==
  \/ \E p \in Segments : WalkSegment(p) \/ \E b \in BOOLEAN : WalkEnd(p, b)
  \/ \E p \in Chunks : WalkChunk(p)
  \/ \E p \in RiffChunks : WalkRiff(p)
  \/ \E b \in BOOLEAN : PillowReads(b)
  \/ RunsOut \/ JudgesRiff

WalksSpec == WalksInit /\ [][WalksNext]_walks

-----------------------------------------------------------------------------
(* Properties.                                                             *)

PartsOf(k) == {j \in DOMAIN parts : parts[j].kind \in k}

\* One frame, one end, the application segments before the first scan and at
\* most once, the profile's fragments all of one profile, a second scan only in a
\* progressive one.
JpegPure ==
  /\ Cardinality(PartsOf(Frames)) = 1 /\ PartsOf({"EOI"}) = {Len(parts)}
  /\ PartsOf({"SOS"}) # {} /\ Cardinality(PartsOf({"JFIF"})) <= 1 /\ Cardinality(PartsOf({"Adobe"})) <= 1
  /\ \A j \in PartsOf(Frames \union {"JFIF", "Adobe", "ICC"}), s \in PartsOf({"SOS"}) : j < s
  /\ Cardinality(PartsOf({"SOS"})) > 1 => PartsOf({"SOF"}) = {}
  /\ \A j \in PartsOf({"ICC"}) :
       {parts[i].no : i \in PartsOf({"ICC"})} = 1..parts[j].of
         /\ Cardinality(PartsOf({"ICC"})) = parts[j].of

\* The one header first, the one end last, a palette's transparency no longer
\* than a palette before it.
PngPure ==
  /\ PartsOf({"IHDR"}) = {1} /\ PartsOf({"IEND"}) = {Len(parts)}
  /\ parts[1].size = 3 => \A t \in PartsOf({"tRNS"}) :
       \E j \in PartsOf({"PLTE"}) : j < t /\ parts[t].size <= parts[j].size

\* Beyond a single bitstream one header, first, and frames of bitstreams only.
WebpPure ==
  /\ Len(parts) > 1 => PartsOf({"VP8X"}) = {1}
  /\ \A j \in PartsOf({"ANMF"}) : parts[j].inside # {} /\ "other" \notin parts[j].inside
  /\ \A k \in {"ICCP", "VP8", "VP8L"} : Cardinality(PartsOf({k})) <= 1

Pure ==
  /\ \A j \in DOMAIN parts : parts[j].kind # "other" /\ parts[j].fits
  /\ (format = "jpeg" => JpegPure) /\ (format = "png" => PngPure) /\ (format = "webp" => WebpPure)

\* A file that is sent as it is holds nothing beside its picture, in any order
\* of its parts (photos.checked_bytes).
NothingBeside == verdict = "clean" => Pure
=============================================================================
