--------------------------- MODULE MCAccelerators ---------------------------
(***************************************************************************)
(* The programs of module Accelerators with the request of                 *)
(* streaming_accelerator_zipline.c.                                        *)
(***************************************************************************)
EXTENDS Accelerators

\* rqe, cmd, frmd, data and cqe, one behind the other in tlv_headers
ZiplineRequest ==
  << [data_ptr |-> 0,  length |-> 2, type |-> 0],
     [data_ptr |-> 2,  length |-> 3, type |-> 1],
     [data_ptr |-> 5,  length |-> 1, type |-> 2],
     [data_ptr |-> 6,  length |-> 6, type |-> 3],
     [data_ptr |-> 12, length |-> 2, type |-> 4] >>
=============================================================================
