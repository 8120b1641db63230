------------------------------- MODULE Vegas -------------------------------
(***************************************************************************)
(* The sending half of congestion control for one circuit, src/tor/cc.rs:  *)
(* Tor Vegas over a window of cells sent and not yet acknowledged.  One    *)
(* action per method of struct Vegas; the far end sends SENDMEs whenever   *)
(* it likes, earned or not, and the clock gives any round trip of Rtts,    *)
(* zero (a stalled clock) or Backwards.                                    *)
(*                                                                         *)
(* Instants are abstracted: marks counts the send times that are kept, and *)
(* the age of the oldest is chosen when it is popped.  The code's          *)
(* saturation at 2^32 - 1 and 2^64 - 1 is beyond any window a consensus    *)
(* can set (cc_cwnd_max is at most 2^31 - 1) and is left out; subtraction  *)
(* that saturates at zero is kept (Less).                                  *)
(***************************************************************************)
EXTENDS Integers

CONSTANTS
    Inc,                                 \* the negotiated sendme_inc
    CwndInit, CwndMin, CwndMax, CwndInc, CwndIncRate, CwndIncPctSs,
    EwmaCwndPct, EwmaMax, EwmaSs, RttResetPct,
    Alpha, Beta, Gamma, Delta, SsCap, SsMax,
    CwndFullGap, CwndFullMinPct, CwndFullPerCwnd,
    ClockJumpRatio,
    Rtts,                                \* round trips the clock measures, above zero
    MaxSent                              \* bound: cells sent

\* The ranges CcParams::parse keeps to, as far as the algorithm depends on them.
ASSUME VegasAssumption ==
    /\ Inc \in Nat \ {0}
    /\ {CwndInit, CwndMin, CwndMax, CwndIncPctSs} \subseteq Nat
    /\ {EwmaCwndPct, EwmaMax, EwmaSs, RttResetPct} \subseteq Nat /\ RttResetPct <= 100
    /\ {Alpha, Beta, Gamma, Delta, SsMax, CwndFullGap, CwndFullMinPct} \subseteq Nat
    /\ {CwndInc, CwndIncRate, SsCap, ClockJumpRatio} \subseteq Nat \ {0}
    /\ CwndFullPerCwnd \in BOOLEAN
    /\ Rtts \subseteq Nat \ {0}
    /\ MaxSent \in Nat

VARIABLES
    sent, acked, cwnd, inSlowStart, cwndFull,
    nextCc,       \* next_cc_event
    nextCwnd,     \* next_cwnd_event
    marks,        \* how many send times are kept
    ewma,         \* ewma_rtt_us, zero before the first sample
    minRtt,       \* min_rtt_us, likewise
    bdp,
    clockBroken,
    failed        \* on_sendme returned an error and the circuit was closed

clock      == <<ewma, minRtt, bdp, clockBroken>>
vegas_vars == <<sent, acked, cwnd, inSlowStart, cwndFull, nextCc, nextCwnd, marks, clock, failed>>

-----------------------------------------------------------------------------
(* Arithmetic.                                                             *)

\* checked_duration_since found the send time after the arrival.
Backwards == -1

AtLeast(a, b) == IF a >= b THEN a ELSE b
AtMost(a, b)  == IF a <= b THEN a ELSE b
Less(a, b)    == IF a >= b THEN a - b ELSE 0
Rounded(a, b) == (a + b \div 2) \div b

ClampCwnd(w) == AtMost(AtLeast(AtLeast(w, CwndMin), 1), AtLeast(CwndMax, 1))

SendmePerCwnd(w) == AtLeast(Rounded(w, Inc), 1)

CwndUpdateRate(slow, w) ==
    IF slow THEN 1 ELSE AtLeast(Rounded(w, CwndIncRate * Inc), 1)

EwmaN ==
    IF inSlowStart THEN AtLeast(EwmaSs, 2)
    ELSE AtLeast(AtMost((CwndUpdateRate(FALSE, cwnd) * EwmaCwndPct) \div 100, EwmaMax), 2)

Rfc3742SsInc ==
    IF cwnd <= SsCap THEN (CwndIncPctSs * Inc + 50) \div 100
    ELSE AtLeast(Rounded(Inc * SsCap, 2 * cwnd), 1)

Inflight == Less(sent, acked)

\* Mutant of CanSend: keeps an increment in reserve.
CanSendReserved == Inflight + Inc < cwnd

CanSend  == Inflight < cwnd

CwndIsFull    == Inflight + CwndFullGap * Inc >= cwnd
CwndIsNonfull == 100 * Inflight < CwndFullMinPct * cwnd

-----------------------------------------------------------------------------

VegasInit ==
    /\ sent = 0 /\ acked = 0
    /\ cwnd = ClampCwnd(CwndInit)
    /\ inSlowStart = TRUE /\ cwndFull = FALSE
    /\ nextCc = CwndUpdateRate(TRUE, ClampCwnd(CwndInit))
    /\ nextCwnd = SendmePerCwnd(ClampCwnd(CwndInit))
    /\ marks = 0
    /\ ewma = 0 /\ minRtt = 0 /\ bdp = 0 /\ clockBroken = FALSE
    /\ failed = FALSE

\* Mutants of OnSend: the mark is left before the cell is counted; the window is
\* not asked.
OnSendMarksFirst ==
    /\ ~failed /\ CanSend /\ sent < MaxSent
    /\ sent' = sent + 1
    /\ marks' = IF sent % Inc = 0 THEN marks + 1 ELSE marks
    /\ UNCHANGED <<acked, cwnd, inSlowStart, cwndFull, nextCc, nextCwnd, clock, failed>>

OnSendUnchecked ==
    /\ ~failed /\ sent < MaxSent
    /\ sent' = sent + 1
    /\ marks' = IF sent' % Inc = 0 THEN marks + 1 ELSE marks
    /\ UNCHANGED <<acked, cwnd, inSlowStart, cwndFull, nextCc, nextCwnd, clock, failed>>

\* on_send: the cell that completes an increment leaves a mark.  A writer asks
\* may_send first.
OnSend ==
    /\ ~failed /\ CanSend /\ sent < MaxSent
    /\ sent' = sent + 1
    /\ marks' = IF sent' % Inc = 0 THEN marks + 1 ELSE marks
    /\ UNCHANGED <<acked, cwnd, inSlowStart, cwndFull, nextCc, nextCwnd, clock, failed>>

\* on_sendme: fewer cells outstanding than one SENDME acknowledges.
OnSendmeRefused ==
    /\ ~failed /\ Inflight < Inc
    /\ failed' = TRUE
    /\ UNCHANGED <<sent, acked, cwnd, inSlowStart, cwndFull, nextCc, nextCwnd, marks, clock>>

\* update_rtt: whether the sample measures the network, and not a clock that
\* stalled or jumped.
Jumped(rtt) == rtt > ewma * ClockJumpRatio
Tiny(rtt)   == rtt * ClockJumpRatio < ewma
Usable(rtt) ==
    /\ marks > 0 /\ rtt \notin {0, Backwards}
    /\ ewma # 0 /\ ~inSlowStart => ~Jumped(rtt) /\ ~(Tiny(rtt) /\ clockBroken)

\* The clock is remembered as broken after a stall and trusted again after a
\* sample in range.
StillBroken(rtt) ==
    CASE marks = 0 -> clockBroken
      [] marks > 0 /\ rtt \in {0, Backwards} -> TRUE
      [] OTHER -> IF ewma # 0 /\ ~inSlowStart /\ ~Jumped(rtt) /\ ~Tiny(rtt)
                  THEN FALSE ELSE clockBroken

\* on_sendme with a sample that is thrown away: only the counters move.
OnSendmeSkipped(rtt) ==
    /\ ~failed /\ Inflight >= Inc
    /\ ~Usable(rtt)
    /\ acked' = acked + Inc
    /\ marks' = Less(marks, 1)
    /\ nextCc' = Less(nextCc, 1) /\ nextCwnd' = Less(nextCwnd, 1)
    /\ clockBroken' = StillBroken(rtt)
    /\ UNCHANGED <<sent, cwnd, inSlowStart, cwndFull, ewma, minRtt, bdp, failed>>

\* update_rtt on a usable sample: the smoothed round trip, the smallest one,
\* and the bandwidth-delay product that follows from them.
Smoothed(rtt) ==
    IF ewma = 0 THEN rtt ELSE (2 * rtt + ewma * (EwmaN - 1)) \div (EwmaN + 1)

Smallest(e) == IF minRtt = 0 \/ e < minRtt THEN e ELSE minRtt

Bdp(e)      == (cwnd * Smallest(e)) \div e

\* vegas_update: is the window full, after this period's evidence so far?
FullNow == (cwndFull \/ CwndIsFull) /\ (CwndIsFull \/ ~CwndIsNonfull)

\* Mutant of Grown: a full window grows however long the queue is.
GrownUnchecked(b) == IF FullNow THEN ClampCwnd(cwnd + Rfc3742SsInc) ELSE cwnd

\* Slow start below gamma grows a full window; above it the window drops onto
\* the BDP.  The ceiling applies to whatever came of it.
Grown(b) ==
    CASE Less(cwnd, b) >= Gamma -> ClampCwnd(b + Gamma)
      [] Less(cwnd, b) < Gamma /\ FullNow -> ClampCwnd(cwnd + Rfc3742SsInc)
      [] OTHER -> cwnd
SlowCwnd(b) == IF Grown(b) >= SsMax THEN ClampCwnd(SsMax) ELSE Grown(b)
StaysSlow(b) ==
    /\ Grown(b) < SsMax
    /\ Less(cwnd, b) < Gamma
    /\ FullNow => Rfc3742SsInc * SendmePerCwnd(Grown(b)) > CwndInc * CwndIncRate

\* In steady state the rules run once per period, by the length of the queue.
SteadyCwnd(b) ==
    LET queue == Less(cwnd, b) IN
    CASE queue > Delta -> Less(b + Delta, CwndInc)
      [] queue <= Delta /\ queue > Beta -> Less(cwnd, CwndInc)
      [] queue <= Delta /\ queue <= Beta /\ FullNow /\ queue < Alpha -> cwnd + CwndInc
      [] OTHER -> cwnd

\* A window pinned at the floor resets the smallest round trip.
Reset(m, e) ==
    AtLeast((m \div 100) * (100 - RttResetPct) + (e \div 100) * RttResetPct, 1)

\* The last part of vegas_update: reset, re-arm the counters, start a period.
Settle(w, slow, m, e) ==
    LET cc == IF Less(nextCc, 1) = 0 THEN CwndUpdateRate(slow, w) ELSE nextCc - 1
        cw == IF Less(nextCwnd, 1) = 0 THEN SendmePerCwnd(w) ELSE nextCwnd - 1
        over == IF CwndFullPerCwnd THEN cw = SendmePerCwnd(w) ELSE cc = CwndUpdateRate(slow, w)
    IN  /\ cwnd' = w /\ inSlowStart' = slow
        /\ minRtt' = IF ~slow /\ w = ClampCwnd(CwndMin) THEN Reset(m, e) ELSE m
        /\ nextCc' = cc /\ nextCwnd' = cw
        /\ cwndFull' = (FullNow /\ ~over)

\* on_sendme with a usable sample: update_rtt, then vegas_update.
OnSendmeUsed(rtt) ==
    LET e == Smoothed(rtt)
        b == Bdp(e)
    IN  /\ ~failed /\ Inflight >= Inc
        /\ Usable(rtt)
        /\ acked' = acked + Inc
        /\ marks' = marks - 1
        /\ clockBroken' = StillBroken(rtt)
        /\ ewma' = e /\ bdp' = b
        /\ IF inSlowStart THEN Settle(ClampCwnd(SlowCwnd(b)), StaysSlow(b), Smallest(e), e)
           ELSE IF nextCc <= 1 THEN Settle(ClampCwnd(SteadyCwnd(b)), FALSE, Smallest(e), e)
           ELSE Settle(ClampCwnd(cwnd), FALSE, Smallest(e), e)
        /\ UNCHANGED <<sent, failed>>

OnSendme == \E rtt \in Rtts \cup {0, Backwards} : OnSendmeSkipped(rtt) \/ OnSendmeUsed(rtt)

VegasNext == OnSend \/ OnSendme \/ OnSendmeRefused

VegasSpec == VegasInit /\ [][VegasNext]_vegas_vars

-----------------------------------------------------------------------------

Floor   == ClampCwnd(0)
Ceiling == AtLeast(CwndMax, 1)

CountersOK ==
    /\ sent \in Nat /\ acked \in Nat /\ marks \in Nat
    /\ nextCc \in Nat /\ nextCwnd \in Nat
    /\ failed \in BOOLEAN

EstimatesOK ==
    /\ ewma \in Nat /\ minRtt \in Nat /\ bdp \in Nat
    /\ inSlowStart \in BOOLEAN /\ cwndFull \in BOOLEAN /\ clockBroken \in BOOLEAN

CwndOK == cwnd \in Floor..Ceiling

VegasTypeOK == CountersOK /\ EstimatesOK /\ CwndOK

\* SENDMEs never acknowledge more than was sent, and always in whole increments,
\* so a mark is kept for exactly each increment still outstanding: on_sendme
\* never finds the queue of marks empty.
MarksMatch ==
    /\ acked <= sent
    /\ acked % Inc = 0
    /\ marks = sent \div Inc - acked \div Inc

\* The smallest round trip is never above the smoothed one, through resets too.
RttOrder ==
    \/ ewma = 0 /\ minRtt = 0 /\ bdp = 0
    \/ 1 <= minRtt /\ minRtt <= ewma

\* The inductive invariant.
VegasInv == VegasTypeOK /\ MarksMatch /\ RttOrder

\* A new BDP estimate never exceeds the window it was measured over, so the
\* queue estimate never saturates.
BdpWithinWindow == [][bdp' # bdp => bdp' <= cwnd]_vegas_vars

\* A queue that is too long never makes the window grow: not in slow start at
\* gamma, nor in steady state above beta.
WindowYields ==
    [][Less(cwnd, bdp') >= (IF inSlowStart THEN Gamma ELSE Beta + 1) => cwnd' <= cwnd]_vegas_vars

\* If the window cannot fall below one increment, a circuit that may not send
\* has a whole increment outstanding, for which the far end owes a SENDME.
NeverStuck == Floor >= Inc => CanSend \/ Inflight >= Inc

\* Vegas is a send window for every far end and every clock.
Window == INSTANCE SendWindow WITH inflight <- sent - acked, window <- cwnd,
                                   Windows <- Floor..Ceiling
IsSendWindow == Window!Spec
=============================================================================
