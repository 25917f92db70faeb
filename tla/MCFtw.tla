-------------------------------- MODULE MCFtw -------------------------------
(***************************************************************************)
(* Small instances of Ftw: two cells to a block, writes of one cell or of  *)
(* both, and the device errors each run admits.                            *)
(***************************************************************************)
EXTENDS Ftw

CONSTANTS v1, v2

Request(lba, cells, value, private) ==
  [lba |-> lba, cells |-> cells, value |-> value, private |-> private]

OneBlock   == {{1}}
TwoBlocks  == {{1}, {2}}
OneBit     == {1}
TwoBits    == {1, 2}
TwoCells   == {1, 2}

PlainRequests   == { Request({1}, {1}, v1, FALSE), Request({1}, {1, 2}, v2, FALSE) }
PrivateRequests == { Request({1}, {1}, v1, TRUE), Request({2}, {1, 2}, v2, TRUE) }

\* Device errors of the flash operations of a service outside the reclaim, except the
\* one that writes a header.
NoSteps       == {}
WriteFaults   == {"write_record", "erase_spare", "write_spare", "spare_complete",
                  "erase_target", "write_target", "dest_complete", "writes_complete",
                  "restore_spare", "abort", "writes_allocated"}
=============================================================================
