-------------------------------- MODULE Inference ------------------------------
(***************************************************************************)
(* What a worker does with one image: BackgroundRemovalModel._inference    *)
(* with the transforms and save_output of u2net/transform.py.  An array is *)
(* its shape and the entry at one position of the image, any one; the      *)
(* network is a function nothing is known of.  The mask at the position is *)
(* a multiple of 1/Depth, or NaN.  Images are 8 bits deep.                 *)
(***************************************************************************)
EXTENDS Integers, Sequences

CONSTANTS
    Heights, Widths,    \* of the images users upload
    Frames,             \* the numbers of frames a GIF may have
    Values,             \* entries of an image
    Side,               \* the network takes and gives squares of this side
    Depth,              \* the mask is in {0, 1/Depth, ..., 1}
    NaN

ASSUME InferenceAssumption ==
    /\ Heights \subseteq Nat \ {0} /\ Widths \subseteq Nat \ {0}
    /\ Frames \subseteq Nat \ {0}
    /\ Values \subseteq 0 .. 255
    /\ Side \in Nat /\ Side > 1
    /\ Depth \in Nat \ {0}
    /\ NaN \notin Int

VARIABLES
    image,      \* the upload: its shape, an entry, and whether all are zero
    stage,      \* how far _inference has got with it
    sample,     \* the shape of the array the transforms have made of it
    mask,       \* the mask: its shape and its entry
    result      \* the result: its shape and its entry

vars == <<image, stage, sample, mask, result>>

Gray   == {<<h, w>> : h \in Heights, w \in Widths}
Colour == {<<h, w, c>> : h \in Heights, w \in Widths, c \in {3, 4}}

\* What imread may make of a file with an allowed extension: gray, gray with
\* alpha, colour with or without alpha, and the stacked frames of a GIF.  (Gray
\* with alpha, 3 or 4 high, it takes for colour and turns over.)
Shapes ==
    Gray \union Colour
      \union {<<h, w, 2>> : h \in Heights \ {3, 4}, w \in Widths}
      \union {<<f, h, w, 3>> : f \in Frames, h \in Heights, w \in Widths}

Nothing == [shape |-> <<>>, at |-> 0]

Init ==
    /\ image \in [shape : Shapes, at : Values, black : BOOLEAN]
    /\ image.black => image.at = 0
    /\ stage = "read"
    /\ sample = image.shape
    /\ mask = Nothing
    /\ result = Nothing

From(s, t) == stage = s /\ stage' = t

\* RescaleT: a square of the network's side, whatever the aspect ratio; the
\* channels stay.
Rescale ==
    /\ From("read", "rescaled")
    /\ Len(sample) <= 3
    /\ sample' = <<Side, Side>> \o SubSeq(sample, 3, Len(sample))
    /\ UNCHANGED <<image, mask, result>>

\* skimage's resize can leave out the channels of a shape, and no more.
RescaleRaises ==
    /\ From("read", "raised")
    /\ Len(sample) > 3
    /\ UNCHANGED <<image, sample, mask, result>>

\* Mutant of HasChannels: three channels are asked for.
HasChannelsOnlyRGB(shape) == Len(shape) = 3 /\ shape[3] = 3

\* The shapes ToTensorLab, with flag 0, finds all channels in that it reads.
HasChannels(shape) == Len(shape) = 3 /\ shape[3] # 2

\* ToTensorLab: three channels, and those first.
ToTensor ==
    /\ From("rescaled", "tensor")
    /\ HasChannels(sample)
    /\ sample' = <<3, sample[1], sample[2]>>
    /\ UNCHANGED <<image, mask, result>>

\* image.shape[2] of a gray image, or image[:, :, 2] of two channels.
ToTensorRaises ==
    /\ From("rescaled", "raised")
    /\ ~HasChannels(sample)
    /\ UNCHANGED <<image, sample, mask, result>>

\* The network, and normPRED.  An image of zeros only was divided by its
\* maximum, 0, and the network hands NaN on; a prediction that is the same
\* everywhere has no range to divide by either.
Predict ==
    /\ From("tensor", "predicted")
    /\ sample' = <<1, sample[2], sample[3]>>
    /\ \E m \in (0 .. Depth) \union {NaN} :
          /\ image.black => m = NaN
          /\ mask' = [shape |-> <<sample[2], sample[3]>>, at |-> m]
    /\ UNCHANGED <<image, result>>

\* PIL takes and keeps sizes as (width, height), and numpy shapes the other
\* way round.
ShapeOfSize(size) == <<size[2], size[1]>>

\* Mutant of MaskSize: the shape is passed for the size.
MaskSizeSwapped == <<image.shape[1], image.shape[2]>>

\* The size save_output gives the mask.
MaskSize == <<image.shape[2], image.shape[1]>>

\* Mixing neighbours, an entry of the mask may become any other.
ResizeMask ==
    /\ From("predicted", "resized")
    /\ \E m \in IF mask.at = NaN THEN {NaN} ELSE 0 .. Depth :
          mask' = [shape |-> ShapeOfSize(MaskSize), at |-> m]
    /\ UNCHANGED <<image, sample, result>>

\* Numpy's broadcasting of two shapes of one length.
Broadcastable(a, b) == \A i \in DOMAIN a : a[i] = b[i] \/ a[i] = 1 \/ b[i] = 1
Broadcast(a, b) == [i \in DOMAIN a |-> IF a[i] = 1 THEN b[i] ELSE a[i]]

\* The mask with as many dimensions as the image.
MaskShape ==
    IF Len(image.shape) = 2 THEN mask.shape ELSE Append(mask.shape, 1)

\* Mutant of Blended: white is added whatever the mask says.
BlendedTwice(o, m) == {((o * m) \div Depth + 255) % 256}

\* What astype(uint8) may make of o * m + (1 - m) * 255: between the ends
\* the sum is rounded before it is cut off, so that 255 may become 254.
Blended(o, m) ==
    LET sum == o * m + (Depth - m) * 255
        cut == (sum \div Depth) % 256
    IN  IF sum % Depth = 0 /\ m \notin {0, Depth} THEN {cut - 1, cut} ELSE {cut}

\* The same for a gray image, whose background becomes black.
BlendedGray(o, m) == {(o * m) \div Depth}

\* save_output(); what the cast makes of NaN is undefined.
Entries(o, m) ==
    IF m = NaN THEN 0 .. 255
    ELSE IF image.shape \in Gray THEN BlendedGray(o, m) ELSE Blended(o, m)

Compose ==
    /\ stage = "resized"
    /\ IF Broadcastable(image.shape, MaskShape)
       THEN /\ stage' = "saved"
            /\ \E r \in Entries(image.at, mask.at) :
                  result' = [shape |-> Broadcast(image.shape, MaskShape), at |-> r]
       ELSE stage' = "raised" /\ UNCHANGED result
    /\ UNCHANGED <<image, sample, mask>>

Next ==
    \/ Rescale \/ RescaleRaises \/ ToTensor \/ ToTensorRaises
    \/ Predict \/ ResizeMask \/ Compose

Spec == Init /\ [][Next]_vars

----------------------------------------------------------------------------
\* The result has the size of the upload, and nothing that was predicted is
\* lost again, although the mask passes through a square, through sizes that
\* are written the other way round, and through broadcasting, which makes do
\* with many a wrong shape.
SizeKept ==
    /\ stage = "saved" => result.shape = image.shape
    /\ stage = "raised" => mask = Nothing

\* Every colour image is served, with or without alpha, of any aspect ratio:
\* none of those is retried for ever.
ColourServed == image.shape \in Colour => stage # "raised"

\* Unless the mask is undefined, the background becomes white - and, with
\* alpha, opaque - what is not background is kept, and nothing is darkened but
\* by the one that rounding may take: no entry wraps around.
Whitened ==
    stage = "saved" /\ mask.at # NaN =>
       /\ mask.at = 0 => result.at = 255
       /\ mask.at = Depth => result.at = image.at
       /\ result.at \in image.at - 1 .. 255

\* "gray image" (save_output): the transforms give the branch for gray images
\* something to do.
GrayIsServed == image.shape \in Gray => stage # "raised"
================================================================================
