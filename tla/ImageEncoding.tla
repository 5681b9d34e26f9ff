--------------------------- MODULE ImageEncoding ---------------------------
(* The quality loop of compressImageBlob and what its callers make of the     *)
(* result: JPEG is encoded again at ever lower quality until the output is    *)
(* small enough or the floor is reached.  Qualities are percentages.  No      *)
(* quality is encoded twice, so that a size chosen at each encoding stands    *)
(* for any encoder, one whose output grows when the quality falls included.   *)
EXTENDS Integers, Sequences

CONSTANTS
  Options,   \* the [start, floor] pairs of DEFAULT_COMPRESS_OPTIONS, PNG and the presets
  Sizes,     \* sizes a file or an encoding can have
  Target     \* targetBytes

Percent == 0..100
QualityStep == 10

ASSUME EncodingAssumption ==
  /\ Options \subseteq [start : Percent, floor : Percent] /\ \A o \in Options : o.floor <= o.start
  /\ Sizes \subseteq Nat /\ Target \in Nat

VARIABLES
  options,
  source,    \* the size of the file that was chosen
  quality,
  output,    \* the size of the last encoding
  tried,     \* history: the encodings, in their order
  state,     \* "encode", "returned" or "handed"
  handed     \* the size of what is uploaded or offered for download

encodingVars == <<options, source, quality, output, tried, state, handed>>

EncodingInit ==
  /\ options \in Options /\ source \in Sizes
  /\ quality = options.start /\ output \in Sizes
  /\ tried = <<[quality |-> quality, size |-> output]>>
  /\ state = "encode" /\ handed = source

\* No image is being encoded.
EncodingIdle ==
  /\ options = [start |-> 100, floor |-> 100] /\ source = 0
  /\ quality = 100 /\ output = 0 /\ tried = <<[quality |-> 100, size |-> 0]>>
  /\ state = "handed" /\ handed = 0

NextQualityUnfloored == quality - QualityStep
NextQuality == IF quality - QualityStep < options.floor THEN options.floor ELSE quality - QualityStep

TooLarge == output > Target /\ quality > options.floor

EncodeAgain ==
  /\ state = "encode" /\ TooLarge
  /\ quality' = NextQuality /\ output' \in Sizes
  /\ tried' = Append(tried, [quality |-> quality', size |-> output'])
  /\ UNCHANGED <<options, source, state, handed>>

ReturnEncoded ==
  /\ state = "encode" /\ ~TooLarge
  /\ state' = "returned"
  /\ UNCHANGED <<options, source, quality, output, tried, handed>>

\* compressImageForUpload keeps the original unless a tenth is saved, and
\* optimizeImage unless anything is.
HandUpload == handed' = IF 10 * output > 9 * source THEN source ELSE output
HandOptimized == handed' = IF output >= source THEN source ELSE output

HandOn ==
  /\ state = "returned" /\ (HandUpload \/ HandOptimized)
  /\ state' = "handed"
  /\ UNCHANGED <<options, source, quality, output, tried>>

EncodingNext == EncodeAgain \/ ReturnEncoded \/ HandOn

-----------------------------------------------------------------------------
\* The encodings are those from the start to the present quality, in steps of at
\* most ten, and all but the last were too large.
StepsTried ==
  /\ tried[1].quality = options.start /\ tried[Len(tried)] = [quality |-> quality, size |-> output]
  /\ \A n \in 1..(Len(tried) - 1) :
       tried[n].size > Target /\ tried[n].quality - tried[n + 1].quality \in 1..QualityStep

(* Whatever the encoder does, the quality never leaves the range between the  *)
(* floor ("never below minQuality") and the start; what is returned is the    *)
(* first encoding that fits the target, no step on the way down left out, or  *)
(* the one at the floor when none fitted; and no file grows by compression,   *)
(* also when a lower quality gave a larger output.                            *)
FirstFitOrFloor ==
  /\ quality \in options.floor..options.start
  /\ StepsTried
  /\ state # "encode" => output <= Target \/ quality = options.floor
  /\ handed <= source
=============================================================================
