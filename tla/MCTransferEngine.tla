-------------------------- MODULE MCTransferEngine --------------------------
(* TransferEngine on a frame of four bytes: a panel of twelve by two pixels, *)
(* each row padded to two bytes.                                              *)
EXTENDS PanelImage

MCDataLengths == {0, 1, 2, 5}

Request(wf, compressed, total, window, ack_every) ==
    [well_formed |-> wf, compressed |-> compressed, total_size |-> total,
     req_window |-> window, req_ack_every |-> ack_every]

(* A request that fails to parse, a compressed one, one of the wrong size, and  *)
(* two good ones, the second above both maxima.                                 *)
MCPipeRequests ==
    { Request(FALSE, FALSE, 0, 1, 1), Request(TRUE, TRUE, 4, 1, 1),
      Request(TRUE, FALSE, 2, 1, 1), Request(TRUE, FALSE, 4, 1, 1),
      Request(TRUE, FALSE, 4, 4, 4) }

==============================================================================
