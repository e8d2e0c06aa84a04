------------------------------- MODULE MCUart -------------------------------
(***************************************************************************)
(* The UART on instances small enough to be explored completely, with      *)
(* every limit so small that it is met.                                    *)
(***************************************************************************)
EXTENDS Uart
=============================================================================
