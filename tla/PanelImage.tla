------------------------------ MODULE PanelImage ------------------------------
(***************************************************************************)
(* The engine's promise about bytes, carried over to the pixels that       *)
(* write_contiguous() draws: what the panel shows is a whole picture.      *)
(***************************************************************************)
EXTENDS TransferEngine, Framebuffer

CONSTANTS Width, Height     \* native_width_, native_height_

ASSUME PanelAssumption ==
    /\ Width \in Nat \ {0} /\ Height \in Nat \ {0}
    /\ FullFrameBytes = FrameBytes(Width, Height)

(* While the driver carries out our refresh every pixel of the panel has been   *)
(* drawn from the frame begun last, and nothing outside of it: rows padded to a *)
(* byte lose no pixel and draw none of the next row (write_contiguous).         *)
PanelPainted ==
    ObservesCompletion /\ driver = "ours" =>
        Painted(loaded, Width) = Pixels(Width, Height)

==============================================================================
