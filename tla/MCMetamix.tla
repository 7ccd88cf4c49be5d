------------------------------ MODULE MCMetamix ------------------------------
(***************************************************************************)
(* Model-checking instance of Metamix: the values given to its record and *)
(* set constants.  The numeric bounds are set in each .cfg.                *)
(***************************************************************************)
EXTENDS Metamix

(* A 1/1000 input time base (FLV, MP4 in ms) and the 90 kHz output base   *)
(* of MPEG-TS; 40 ms and 3600 ticks are one frame at 25 fps.              *)
MCInTimeBase == [num |-> 1, den |-> 1000]
MCOutTimeBase == [num |-> 1, den |-> 90000]

(* SeiInjector's first prev_pts is std::numeric_limits<int64_t>::min();  *)
(* TLC's integers are 32-bit, and the value only has to lie below every   *)
(* pts, so the 32-bit minimum stands in for it.                           *)
MCMinTS == -2147483647 - 1

=============================================================================
