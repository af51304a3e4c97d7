----------------------------- MODULE Framebuffer -----------------------------
(***************************************************************************)
(* What init() of either backend makes of the panel's geometry, and which  *)
(* pixels write_contiguous() draws for a byte of the frame                 *)
(* (backend_epaper_spi.cpp, backend_it8951.cpp).  Operators only.          *)
(***************************************************************************)
EXTENDS Integers

(* 1 bit per pixel, each row padded to a byte. *)
Stride(width) == (width + 7) \div 8
FrameBytes(width, height) == Stride(width) * height

(* init() refuses a failed or rotated driver, an empty panel, any other scheme. *)
Usable(display) ==
    /\ ~display.failed
    /\ display.rotation = 0
    /\ display.native_width # 0 /\ display.native_height # 0
    /\ display.color_scheme = "MONO"

(* The capabilities() of a backend whose init() returned true. *)
Capabilities(display) ==
    [width |-> display.native_width, height |-> display.native_height,
     full_frame_bytes |-> FrameBytes(display.native_width, display.native_height),
     supports_direct_write |-> TRUE, supports_pipe_write |-> TRUE]

Pixels(width, height) == (0 .. width - 1) \X (0 .. height - 1)

(* Mutant: the row is not taken off the byte's index. *)
PixelsOfByteInOneRow(byte, width) ==
    {<<8 * byte + b, byte \div Stride(width)>> : b \in {b \in 0 .. 7 : 8 * byte + b < width}}

(* The pixels of a byte, bit 7 first; padding bits draw nothing. *)
FirstColumn(byte, width) == 8 * (byte % Stride(width))
Row(byte, width) == byte \div Stride(width)
PixelsOfByte(byte, width) ==
    {<<FirstColumn(byte, width) + b, Row(byte, width)>> :
        b \in {b \in 0 .. 7 : FirstColumn(byte, width) + b < width}}

Painted(offsets, width) == UNION {PixelsOfByte(byte, width) : byte \in offsets}

==============================================================================
