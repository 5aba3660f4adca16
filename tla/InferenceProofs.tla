----------------------------- MODULE InferenceProofs ---------------------------
(***************************************************************************)
(* Inference for images of any size, a network of any side and a mask of   *)
(* any fineness.                                                           *)
(***************************************************************************)
EXTENDS Inference, SequenceTheorems, TLAPS

----------------------------------------------------------------------------
(***************************************************************************)
(* Shapes.                                                                 *)
(***************************************************************************)

\* Colour images have three dimensions, and a third one of 3 or 4.
LEMMA ColourShape ==
    ASSUME NEW s \in Colour
    PROVE  \E h \in Heights, w \in Widths, c \in {3, 4} : s = <<h, w, c>>
  BY DEF Colour

\* Rescaling a colour image leaves its channels where they are.
LEMMA ChannelsStay ==
    ASSUME NEW h, NEW w, NEW c
    PROVE  <<Side, Side>> \o SubSeq(<<h, w, c>>, 3, Len(<<h, w, c>>)) = <<Side, Side, c>>
  <1> DEFINE s == <<h, w, c>>
             S == {Side, c}
             last == SubSeq(s, 3, 3)
             front == <<Side, Side>>
             all == <<Side, Side, c>>
  <1>1. Len(s) = 3 /\ s[3] = c
    OBVIOUS
  <1>2. last \in Seq(S) /\ Len(last) = 1 /\ last[1] = c
    <2>1. \A i \in 3 .. 3 : s[i] \in S
      BY <1>1
    <2> HIDE DEF s, S
    <2> QED  BY <1>1, <2>1, SubSeqProperties
  <1>3. /\ front \in Seq(S) /\ Len(front) = 2 /\ front[1] = Side /\ front[2] = Side
        /\ all \in Seq(S) /\ Len(all) = 3
        /\ all[1] = Side /\ all[2] = Side /\ all[3] = c
    <2>1. Side \in S /\ c \in S
      OBVIOUS
    <2>2. front \in Seq(S) /\ all \in Seq(S)
      <3> HIDE DEF S
      <3> QED  BY <2>1
    <2> QED  BY <2>2
  <1> HIDE DEF S, last, front, all
  <1>4. /\ front \o last \in Seq(S)
        /\ Len(front \o last) = 3
        /\ \A i \in 1 .. 3 :
              (front \o last)[i] = IF i <= 2 THEN front[i] ELSE last[i - 2]
    <2>1. front \in Seq(S) /\ last \in Seq(S)
      BY <1>2, <1>3
    <2>2. /\ front \o last \in Seq(S)
          /\ Len(front \o last) = Len(front) + Len(last)
          /\ \A i \in 1 .. Len(front) + Len(last) :
                (front \o last)[i] =
                   IF i <= Len(front) THEN front[i] ELSE last[i - Len(front)]
      BY <2>1, ConcatProperties, Zenon
    <2>3. Len(front) = 2 /\ Len(last) = 1
      BY <1>2, <1>3
    <2> QED  BY <2>2, <2>3
  <1>5. \A i \in 1 .. 3 : (front \o last)[i] = all[i]
    BY <1>2, <1>3, <1>4
  <1>6. front \o last = all
    BY <1>3, <1>4, <1>5, SeqEqual
  <1> QED  BY <1>1, <1>6 DEF last, front, all

\* Without colour, nothing that ToTensorLab could take for channels appears.
LEMMA NoChannelsAppear ==
    ASSUME NEW s \in Shapes \ Colour, Len(s) <= 3
    PROVE  ~HasChannels(<<Side, Side>> \o SubSeq(s, 3, Len(s)))
  <1>1. ASSUME NEW h \in Heights, NEW w \in Widths, s = <<h, w>>
        PROVE  ~HasChannels(<<Side, Side>> \o SubSeq(s, 3, Len(s)))
    <2>1. SubSeq(s, 3, 2) = <<>>
      BY SubSeqEmpty
    <2>2. Len(s) = 2
      BY <1>1
    <2>3. <<Side, Side>> \in Seq({Side})
      OBVIOUS
    <2>4. <<Side, Side>> \o <<>> = <<Side, Side>>
      BY <2>3, ConcatEmptySeq
    <2>5. ~HasChannels(<<Side, Side>>)
      BY DEF HasChannels
    <2> QED  BY <2>1, <2>2, <2>4, <2>5
  <1>2. ASSUME NEW h \in Heights, NEW w \in Widths, s = <<h, w, 2>>
        PROVE  ~HasChannels(<<Side, Side>> \o SubSeq(s, 3, Len(s)))
    <2>1. ~HasChannels(<<Side, Side, 2>>)
      BY DEF HasChannels
    <2> QED  BY <1>2, <2>1, ChannelsStay
  <1>3. ASSUME NEW h \in Heights, NEW w \in Widths, NEW f \in Frames
        PROVE  s # <<f, h, w, 3>>
    <2>1. Len(<<f, h, w, 3>>) = 4 /\ ~(4 <= 3)
      OBVIOUS
    <2> QED  BY <2>1, Zenon
  <1>4. \E h \in Heights, w \in Widths : s = <<h, w>> \/ s = <<h, w, 2>>
    BY <1>3 DEF Shapes, Gray
  <1> QED  BY <1>1, <1>2, <1>4

LEMMA PlaneAppended ==
    ASSUME NEW h \in Heights, NEW w \in Widths
    PROVE  Append(<<h, w>>, 1) = <<h, w, 1>>
  <1>1. <<h, w>> \in Seq(Nat) /\ <<h, w, 1>> \in Seq(Nat)
    BY InferenceAssumption
  <1>2. /\ Append(<<h, w>>, 1) \in Seq(Nat)
        /\ Len(Append(<<h, w>>, 1)) = 3
        /\ \A i \in 1 .. 2 : Append(<<h, w>>, 1)[i] = <<h, w>>[i]
        /\ Append(<<h, w>>, 1)[3] = 1
    BY <1>1, AppendProperties
  <1>3. \A i \in 1 .. 3 : Append(<<h, w>>, 1)[i] = <<h, w, 1>>[i]
    BY <1>2
  <1> QED  BY <1>1, <1>2, <1>3, SeqEqual

\* A mask of the image's height and width meets it in the image's own shape.
LEMMA MaskFits ==
    ASSUME NEW h \in Heights, NEW w \in Widths, NEW c \in {3, 4}
    PROVE  /\ Broadcastable(<<h, w, c>>, <<h, w, 1>>)
           /\ Broadcast(<<h, w, c>>, <<h, w, 1>>) = <<h, w, c>>
  <1>1. DOMAIN <<h, w, c>> = 1 .. 3
    OBVIOUS
  <1>2. Broadcastable(<<h, w, c>>, <<h, w, 1>>)
    BY <1>1 DEF Broadcastable
  <1>3. \A i \in 1 .. 3 :
           (IF <<h, w, c>>[i] = 1 THEN <<h, w, 1>>[i] ELSE <<h, w, c>>[i]) = <<h, w, c>>[i]
    OBVIOUS
  <1>4. Broadcast(<<h, w, c>>, <<h, w, 1>>) = [i \in 1 .. 3 |-> <<h, w, c>>[i]]
    BY <1>1, <1>3 DEF Broadcast
  <1>5. [i \in 1 .. 3 |-> <<h, w, c>>[i]] = <<h, w, c>>
    OBVIOUS
  <1> QED  BY <1>2, <1>4, <1>5

----------------------------------------------------------------------------
(***************************************************************************)
(* The stages.                                                             *)
(***************************************************************************)

\* How far each shape gets, and what the shapes are there.
ShapesInv ==
    /\ image.shape \in Shapes
    /\ stage = "read" => sample = image.shape
    /\ stage = "rescaled" => (HasChannels(sample) => image.shape \in Colour)
    /\ stage = "rescaled" => (image.shape \in Colour => HasChannels(sample))
    /\ stage \in {"read", "rescaled", "tensor", "raised"} => mask = Nothing
    /\ stage \in {"tensor", "predicted", "resized", "saved"} => image.shape \in Colour
    /\ stage = "resized" => mask.shape = <<image.shape[1], image.shape[2]>>
    /\ stage = "saved" => result.shape = image.shape
    /\ stage = "raised" => image.shape \notin Colour

LEMMA ShapesInit == Init => ShapesInv
  BY DEF Init, ShapesInv

\* Each stage prepares the shapes the next one needs.
LEMMA ShapesStep == ShapesInv /\ [Next]_vars => ShapesInv'
  <1> SUFFICES ASSUME ShapesInv, [Next]_vars PROVE ShapesInv'
    OBVIOUS
  <1>1. CASE Rescale
    <2>1. /\ sample' = <<Side, Side>> \o SubSeq(image.shape, 3, Len(image.shape))
          /\ Len(image.shape) <= 3
          /\ stage' = "rescaled" /\ UNCHANGED <<image, mask, result>> /\ stage = "read"
      BY <1>1 DEF Rescale, From, ShapesInv
    <2>2. CASE image.shape \in Colour
      <3>1. PICK h \in Heights, w \in Widths, c \in {3, 4} : image.shape = <<h, w, c>>
        BY <2>2, ColourShape
      <3>2. sample' = <<Side, Side, c>>
        BY <2>1, <3>1, ChannelsStay
      <3>3. HasChannels(<<Side, Side, c>>)
        BY DEF HasChannels
      <3> QED  BY <2>1, <2>2, <3>2, <3>3 DEF ShapesInv
    <2>3. CASE image.shape \notin Colour
      <3>1. ~HasChannels(sample')
        BY <2>1, <2>3, NoChannelsAppear DEF ShapesInv
      <3> QED  BY <2>1, <2>3, <3>1 DEF ShapesInv
    <2> QED  BY <2>2, <2>3
  <1>2. CASE RescaleRaises
    <2>1. Len(image.shape) > 3
      BY <1>2 DEF RescaleRaises, From, ShapesInv
    <2>2. ASSUME image.shape \in Colour PROVE FALSE
      <3>1. PICK h \in Heights, w \in Widths, c \in {3, 4} : image.shape = <<h, w, c>>
        BY <2>2, ColourShape
      <3>2. Len(<<h, w, c>>) = 3
        OBVIOUS
      <3> QED  BY <2>1, <3>1, <3>2
    <2> QED  BY <1>2, <2>2 DEF RescaleRaises, From, ShapesInv
  <1>3. CASE ToTensor
    BY <1>3 DEF ToTensor, From, ShapesInv
  <1>4. CASE ToTensorRaises
    BY <1>4 DEF ToTensorRaises, From, ShapesInv
  <1>5. CASE Predict
    BY <1>5 DEF Predict, From, ShapesInv
  <1>6. CASE ResizeMask
    <2>1. mask'.shape = ShapeOfSize(MaskSize)
      BY <1>6 DEF ResizeMask
    <2>2. ShapeOfSize(MaskSize) = <<image.shape[1], image.shape[2]>>
      BY DEF ShapeOfSize, MaskSize
    <2> QED  BY <1>6, <2>1, <2>2 DEF ResizeMask, From, ShapesInv
  <1>7. CASE Compose
    <2>1. image.shape \in Colour /\ mask.shape = <<image.shape[1], image.shape[2]>>
      BY <1>7 DEF Compose, ShapesInv
    <2>2. PICK h \in Heights, w \in Widths, c \in {3, 4} : image.shape = <<h, w, c>>
      BY <2>1, ColourShape
    <2>3. mask.shape = <<h, w>> /\ Len(image.shape) = 3
      BY <2>1, <2>2
    <2>4. MaskShape = <<h, w, 1>>
      BY <2>3, PlaneAppended DEF MaskShape
    <2>5. /\ Broadcastable(image.shape, MaskShape)
          /\ Broadcast(image.shape, MaskShape) = image.shape
      BY <2>2, <2>4, MaskFits
    <2>6. stage' = "saved" /\ result'.shape = image.shape /\ UNCHANGED image
      BY <1>7, <2>5 DEF Compose
    <2> QED  BY <2>1, <2>6 DEF ShapesInv
  <1>8. CASE UNCHANGED vars
    BY <1>8 DEF vars, ShapesInv
  <1> QED  BY <1>1, <1>2, <1>3, <1>4, <1>5, <1>6, <1>7, <1>8 DEF Next

LEMMA ShapesAlways == Spec => []ShapesInv
  <1> QED  BY ShapesInit, ShapesStep, PTL DEF Spec

\* The result has the size of the upload, whatever that and the network's are.
THEOREM SizesKept == Spec => []SizeKept
  <1>1. ShapesInv => SizeKept
    BY DEF ShapesInv, SizeKept
  <1> QED  BY <1>1, ShapesAlways, PTL

\* No colour image is refused, whatever its height, width and alpha.
THEOREM ColoursServed == Spec => []ColourServed
  <1>1. ShapesInv => ColourServed
    BY DEF ShapesInv, ColourServed
  <1> QED  BY <1>1, ShapesAlways, PTL

----------------------------------------------------------------------------
(***************************************************************************)
(* The entries.                                                            *)
(***************************************************************************)

\* A quotient is between two bounds if its dividend is between their multiples.
LEMMA Quotient ==
    ASSUME NEW d \in Nat \ {0}, NEW s \in Nat, NEW lo \in Int, NEW hi \in Int,
           lo * d <= s, s <= hi * d
    PROVE  s \div d \in lo .. hi
  BY SMT

\* What is blended lies between the entry of the image and white, and at the
\* ends of the mask is one of them.
LEMMA BlendBounds ==
    ASSUME NEW o \in 0 .. 255, NEW m \in 0 .. Depth, NEW r, r \in Blended(o, m)
    PROVE  /\ m = Depth => r = o
           /\ r \in (IF m = 0 THEN 255 ELSE o - 1) .. 255
  <1> DEFINE sum == o * m + (Depth - m) * 255
             q == sum \div Depth
  <1>0. Depth \in Nat \ {0} /\ o \in Nat /\ m \in Nat
    BY InferenceAssumption
  <1>1. o * Depth <= sum /\ sum <= 255 * Depth /\ sum \in Nat
    <2>1. sum = o * Depth + (255 - o) * (Depth - m)
      BY <1>0
    <2>2. sum = 255 * Depth - (255 - o) * m
      BY <1>0
    <2>3. (255 - o) * (Depth - m) \in Nat /\ (255 - o) * m \in Nat /\ o * Depth \in Nat
      BY <1>0
    <2> HIDE DEF sum
    <2> QED  BY <1>0, <2>1, <2>2, <2>3
  <1>2. q \in o .. 255
    <2> HIDE DEF sum
    <2> QED  BY <1>0, <1>1, Quotient
  <1>3. m = 0 => q \in 255 .. 255
    <2>1. m = 0 => sum = 255 * Depth
      BY <1>0
    <2> HIDE DEF sum
    <2> QED  BY <1>0, <1>1, <2>1, Quotient
  <1>4. m = Depth => q \in o .. o
    <2>1. m = Depth => sum = o * Depth
      BY <1>0
    <2> HIDE DEF sum
    <2> QED  BY <1>0, <1>1, <2>1, Quotient
  <1>5. r = q % 256 \/ (r = (q % 256) - 1 /\ m # 0 /\ m # Depth)
    <2>1. r \in IF sum % Depth = 0 /\ m \notin {0, Depth} THEN {(q % 256) - 1, q % 256}
                                                        ELSE {q % 256}
      BY DEF Blended
    <2> HIDE DEF sum, q
    <2> QED  BY <2>1
  <1> HIDE DEF q
  <1>6. q % 256 = q
    BY <1>2
  <1> QED  BY <1>2, <1>3, <1>4, <1>5, <1>6

\* Masks stay masks, and only colour images are blended.
EntriesInv ==
    /\ ShapesInv
    /\ image.at \in Values
    /\ stage \in {"predicted", "resized", "saved"} => mask.at \in (0 .. Depth) \union {NaN}
    /\ Whitened

LEMMA EntriesInit == Init => EntriesInv
  BY ShapesInit DEF Init, EntriesInv, Whitened

LEMMA EntriesStep == EntriesInv /\ [Next]_vars => EntriesInv'
  <1> SUFFICES ASSUME EntriesInv, [Next]_vars PROVE EntriesInv'
    OBVIOUS
  <1>0. ShapesInv'
    BY ShapesStep DEF EntriesInv
  <1>1. CASE Rescale \/ RescaleRaises \/ ToTensor \/ ToTensorRaises
    BY <1>0, <1>1 DEF Rescale, RescaleRaises, ToTensor, ToTensorRaises, From, EntriesInv, Whitened
  <1>2. CASE Predict
    <2>1. PICK m \in (0 .. Depth) \union {NaN} :
            mask' = [shape |-> <<sample[2], sample[3]>>, at |-> m]
      BY <1>2 DEF Predict
    <2>2. mask'.at = m
      BY <2>1
    <2> QED  BY <1>0, <1>2, <2>2 DEF Predict, From, EntriesInv, Whitened
  <1>3. CASE ResizeMask
    <2>1. PICK m \in IF mask.at = NaN THEN {NaN} ELSE 0 .. Depth :
            mask' = [shape |-> ShapeOfSize(MaskSize), at |-> m]
      BY <1>3 DEF ResizeMask
    <2>2. mask'.at = m
      BY <2>1
    <2> QED  BY <1>0, <1>3, <2>1, <2>2 DEF ResizeMask, From, EntriesInv, Whitened
  <1>4. CASE Compose
    <2>1. stage = "resized" /\ UNCHANGED <<image, mask>>
      BY <1>4 DEF Compose
    <2>2. image.at \in 0 .. 255 /\ mask.at \in (0 .. Depth) \union {NaN}
      BY <2>1, InferenceAssumption DEF EntriesInv
    <2>3. image.shape \notin Gray
      <3>1. PICK h \in Heights, w \in Widths, c \in {3, 4} : image.shape = <<h, w, c>>
        BY <2>1, ColourShape DEF EntriesInv, ShapesInv
      <3>2. Len(image.shape) = 3
        BY <3>1
      <3>3. \A s \in Gray : Len(s) = 2
        BY DEF Gray
      <3> QED  BY <3>2, <3>3
    <2>4. CASE stage' = "raised"
      BY <1>0, <2>1, <2>4 DEF EntriesInv, Whitened
    <2>5. CASE stage' = "saved"
      <3>1. PICK r \in Entries(image.at, mask.at) :
              result' = [shape |-> Broadcast(image.shape, MaskShape), at |-> r]
        BY <1>4, <2>5 DEF Compose
      <3>2. result'.at = r
        BY <3>1
      <3>3. Whitened'
        <4>1. CASE mask.at = NaN
          BY <2>1, <4>1 DEF Whitened
        <4>2. CASE mask.at # NaN
          <5>1. r \in Blended(image.at, mask.at) /\ mask.at \in 0 .. Depth
            BY <2>2, <2>3, <4>2 DEF Entries
          <5>2. PICK o \in 0 .. 255, m \in 0 .. Depth : o = image.at /\ m = mask.at
            BY <2>2, <5>1
          <5>3. r \in Blended(o, m)
            BY <5>1, <5>2
          <5>4. r \in (IF m = 0 THEN 255 ELSE o - 1) .. 255
            BY <5>3, BlendBounds
          <5>5. m = Depth => r = o
            BY <5>3, BlendBounds, Zenon
          <5>6. (m = 0 => r = 255) /\ r \in o - 1 .. 255
            BY <5>4
          <5> QED  BY <2>1, <3>2, <5>2, <5>5, <5>6 DEF Whitened
        <4> QED  BY <4>1, <4>2
      <3> QED  BY <1>0, <2>1, <2>2, <3>3 DEF EntriesInv
    <2> QED  BY <1>4, <2>4, <2>5 DEF Compose
  <1>5. CASE UNCHANGED vars
    BY <1>0, <1>5 DEF vars, EntriesInv, Whitened
  <1> QED  BY <1>1, <1>2, <1>3, <1>4, <1>5 DEF Next

\* The background becomes white and no entry wraps around, whatever the image
\* and however fine the mask.
THEOREM BackgroundWhitened == Spec => []Whitened
  <1>1. EntriesInv => Whitened
    BY DEF EntriesInv
  <1> QED  BY <1>1, EntriesInit, EntriesStep, PTL DEF Spec
================================================================================
