--------------------------- MODULE PanelImageProofs ---------------------------
(***************************************************************************)
(* The panel shows a whole picture, for every panel size: the geometry of  *)
(* write_contiguous(), and then PanelPainted from the engine's invariant.  *)
(***************************************************************************)
EXTENDS PanelImage, TransferEngineProofs

------------------------------------------------------------------------------
(* Division by a stride that is not a number but a parameter. *)

LEMMA Quotient ==
    ASSUME NEW x \in Nat, NEW s \in Nat \ {0}
    PROVE  x \div s \in Nat /\ x % s \in 0 .. s - 1 /\ x = s * (x \div s) + (x % s)
  OBVIOUS

LEMMA QuotientOf ==
    ASSUME NEW s \in Nat \ {0}, NEW q \in Nat, NEW r \in 0 .. s - 1
    PROVE  (s * q + r) \div s = q /\ (s * q + r) % s = r
  OBVIOUS

LEMMA RowBelow ==
    ASSUME NEW s \in Nat \ {0}, NEW h \in Nat, NEW q \in Nat, NEW r \in Nat, s * q + r < s * h
    PROVE  q < h
  OBVIOUS

LEMMA ByteBelow ==
    ASSUME NEW s \in Nat \ {0}, NEW h \in Nat, NEW q \in 0 .. h - 1, NEW r \in 0 .. s - 1
    PROVE  s * q + r \in 0 .. s * h - 1
  OBVIOUS

------------------------------------------------------------------------------
(* A row of `width' pixels takes Stride(width) bytes: enough, and none to spare. *)
LEMMA StrideCovers ==
    ASSUME NEW width \in Nat \ {0}
    PROVE  /\ Stride(width) \in Nat \ {0}
           /\ width <= 8 * Stride(width)
           /\ 8 * (Stride(width) - 1) < width
  BY DEF Stride

LEMMA FrameBytesNat ==
    ASSUME NEW width \in Nat \ {0}, NEW height \in Nat \ {0}
    PROVE  FrameBytes(width, height) \in Nat
  BY StrideCovers DEF FrameBytes

(* write_contiguous never draws outside of the panel, whatever byte it is given *)
(* that its bounds test admits.                                                 *)
LEMMA PaintedInside ==
    ASSUME NEW width \in Nat \ {0}, NEW height \in Nat \ {0},
           NEW byte \in 0 .. FrameBytes(width, height) - 1
    PROVE  PixelsOfByte(byte, width) \subseteq Pixels(width, height)
  <1> DEFINE s == Stride(width)
             q == byte \div s
             r == byte % s
  <1>1. s \in Nat \ {0}
    BY StrideCovers
  <1>2. byte \in Nat /\ byte < s * height
    BY FrameBytesNat DEF FrameBytes
  <1>3. q \in Nat /\ r \in 0 .. s - 1 /\ byte = s * q + r
    BY <1>1, <1>2, Quotient
  <1>4. q < height
    <2> HIDE DEF s, q, r
    <2>1. r \in Nat
      BY <1>1, <1>3
    <2>2. QED
      BY <1>1, <1>2, <1>3, <2>1, RowBelow
  <1>5. FirstColumn(byte, width) = 8 * r /\ Row(byte, width) = q
    BY DEF FirstColumn, Row
  <1> SUFFICES ASSUME NEW b \in 0 .. 7, 8 * r + b < width
               PROVE  <<8 * r + b, q>> \in Pixels(width, height)
    BY <1>5 DEF PixelsOfByte
  <1> HIDE DEF s, q, r
  <1>6. 8 * r + b \in 0 .. width - 1 /\ q \in 0 .. height - 1
    BY <1>1, <1>3, <1>4
  <1>7. QED
    BY <1>6 DEF Pixels

(* Every pixel belongs to one byte of the frame and to no other: rows share no  *)
(* byte, and no byte of the frame but a padding bit is lost (write_contiguous). *)
THEOREM PixelInOneByte ==
    ASSUME NEW width \in Nat \ {0}, NEW height \in Nat \ {0},
           NEW x \in 0 .. width - 1, NEW y \in 0 .. height - 1
    PROVE  \E byte \in 0 .. FrameBytes(width, height) - 1 :
              /\ <<x, y>> \in PixelsOfByte(byte, width)
              /\ \A other \in 0 .. FrameBytes(width, height) - 1 :
                    <<x, y>> \in PixelsOfByte(other, width) => other = byte
  <1> DEFINE s == Stride(width)
             r == x \div 8
             byte == s * y + r
  <1>1. s \in Nat \ {0} /\ width <= 8 * s
    BY StrideCovers
  <1>2. r \in 0 .. s - 1 /\ x % 8 \in 0 .. 7 /\ x = 8 * r + (x % 8)
    <2> HIDE DEF s
    <2>1. QED
      BY <1>1
  <1>3. byte \in 0 .. FrameBytes(width, height) - 1
    <2> HIDE DEF s, r
    <2>1. s * y + r \in 0 .. s * height - 1
      BY <1>1, <1>2, ByteBelow
    <2>2. QED
      BY <2>1 DEF FrameBytes, s
  <1>4. byte \div s = y /\ byte % s = r
    <2> HIDE DEF s, r
    <2>1. y \in Nat
      OBVIOUS
    <2>2. QED
      BY <1>1, <1>2, <2>1, QuotientOf
  <1>5. <<x, y>> \in PixelsOfByte(byte, width)
    <2>1. FirstColumn(byte, width) = 8 * r /\ Row(byte, width) = y
      BY <1>4 DEF FirstColumn, Row
    <2>2. 8 * r + (x % 8) < width
      BY <1>2
    <2>3. <<8 * r + (x % 8), y>> \in PixelsOfByte(byte, width)
      BY <1>2, <2>1, <2>2 DEF PixelsOfByte
    <2>4. QED
      BY <1>2, <2>3
  <1>6. ASSUME NEW other \in 0 .. FrameBytes(width, height) - 1,
               <<x, y>> \in PixelsOfByte(other, width)
        PROVE  other = byte
    <2> DEFINE q2 == other \div s
               r2 == other % s
    <2>1. other \in Nat
      BY FrameBytesNat
    <2>2. q2 \in Nat /\ r2 \in 0 .. s - 1 /\ other = s * q2 + r2
      BY <1>1, <2>1, Quotient
    <2>3. PICK b \in 0 .. 7 : x = 8 * r2 + b /\ y = q2
      BY <1>6 DEF PixelsOfByte, FirstColumn, Row
    <2>4. r2 = r
      <3> HIDE DEF s, r2, r
      <3>1. QED
        BY <1>1, <1>2, <2>2, <2>3
    <2>5. QED
      BY <2>2, <2>3, <2>4
  <1>7. QED
    BY <1>3, <1>5, <1>6

(* A whole frame paints the whole panel. *)
LEMMA WholeFramePaints ==
    ASSUME NEW width \in Nat \ {0}, NEW height \in Nat \ {0}
    PROVE  Painted(0 .. FrameBytes(width, height) - 1, width) = Pixels(width, height)
  <1>1. Painted(0 .. FrameBytes(width, height) - 1, width) \subseteq Pixels(width, height)
    BY PaintedInside DEF Painted
  <1>2. ASSUME NEW x \in 0 .. width - 1, NEW y \in 0 .. height - 1
        PROVE  <<x, y>> \in Painted(0 .. FrameBytes(width, height) - 1, width)
    <2>1. PICK byte \in 0 .. FrameBytes(width, height) - 1 : <<x, y>> \in PixelsOfByte(byte, width)
      BY PixelInOneByte
    <2>2. QED
      BY <2>1 DEF Painted
  <1>3. Pixels(width, height) \subseteq Painted(0 .. FrameBytes(width, height) - 1, width)
    BY <1>2 DEF Pixels
  <1>4. QED
    BY <1>1, <1>3

------------------------------------------------------------------------------
(* PanelPainted for every panel, driver behaviour and client (begin_refresh     *)
(* with write_contiguous).                                                      *)
THEOREM PanelPaintedHolds == Spec => []PanelPainted
  <1>1. PanelHeld => PanelPainted
    <2> SUFFICES ASSUME PanelHeld, ObservesCompletion, driver = "ours"
                 PROVE  Painted(loaded, Width) = Pixels(Width, Height)
      BY DEF PanelPainted
    <2>1. loaded = 0 .. FrameBytes(Width, Height) - 1
      BY PanelAssumption DEF PanelHeld, FrameOffsets
    <2>2. QED
      BY <2>1, WholeFramePaints, PanelAssumption
  <1>2. QED
    BY <1>1, PanelHeldHolds, PTL

==============================================================================
