-------------------------------- MODULE Clock --------------------------------
(***************************************************************************)
(* The time model of src/src/clock.h, clock.cpp and clock_types.h as       *)
(* operators: the clock's increment, TSTicker's delta and TSRescaler's     *)
(* affine map from a stream's pts to clock ticks.  Their state (the clock  *)
(* value, a ticker's last timestamp, a rescaler's base and ts_zero) is     *)
(* held by the module of the thread that owns it.                          *)
(*                                                                         *)
(* An optional value (std::optional) is a set with at most one element.    *)
(***************************************************************************)
EXTENDS Integers

(* SYS_CLOCK_RATE, clock_types.h:15: the clock's time base is 1/90000.    *)
SYS_CLOCK_RATE == 90000
ClockTimeBase == [num |-> 1, den |-> SYS_CLOCK_RATE]

TheOne(opt) == CHOOSE x \in opt : TRUE

(***************************************************************************)
(* rescale_ts = av_rescale_q(a, in, out): a * in / out rounded to nearest  *)
(* with halves away from zero (AV_ROUND_NEAR_INF), computed by             *)
(* av_rescale_rnd as (a*b + c/2) / c on the magnitude.                     *)
(***************************************************************************)
RescaleTs(a, in, out) ==
  LET b == in.num * out.den
      c == in.den * out.num
      mag(x) == (x * b + c \div 2) \div c
  IN  IF a < 0 THEN -mag(-a) ELSE mag(a)

(* Clock::increment: a negative delta is ignored.                          *)
Increment(now, delta) == IF delta >= 0 THEN now + delta ELSE now

(* TSTicker::tick(ts): the first tick adds ts itself, later ticks add the *)
(* difference from the previous tick's ts; m_last_ts always becomes ts.   *)
TickDelta(last, ts) == IF last = {} THEN ts ELSE ts - TheOne(last)

Tick(now, last, ts) == Increment(now, TickDelta(last, ts))

(* TSRescaler::rescale_to_clock(ts): the first sample fixes m_ts_zero.    *)
RescalerZero(zero, ts) == IF zero = {} THEN {ts} ELSE zero

RescaleToClock(base, zero, ts, tb) ==
  base + RescaleTs(ts - TheOne(RescalerZero(zero, ts)), tb, ClockTimeBase)

=============================================================================
