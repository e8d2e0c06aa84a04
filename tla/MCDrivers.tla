------------------------------ MODULE MCDrivers ------------------------------
(***************************************************************************)
(* The sets the drivers of Drivers are checked on; numbers are in the      *)
(* configuration.                                                          *)
(***************************************************************************)
EXTENDS Drivers

\* The sizes of shared buffers, below, at and above one page and two; the block
\* driver and the GPU map none.
BufferSizes == [block |-> {2}, net |-> 0 .. 5, gpu |-> {2}, uart |-> 0 .. 5, ramdisk |-> 0 .. 5]

OfferedSets == SUBSET {"BLK_SIZE", "MRG_RXBUF", "EVENT_IDX", "VERSION_1", "RING_PACKED"}

Boards    == INSTANCE PciMachines
AllBoards == Boards!Machines

Tables    == INSTANCE AcpiFirmwares
AllTables == Tables!Firmwares

Trees     == INSTANCE DtbBlobs
AllTrees  == Trees!Blobs
=============================================================================
