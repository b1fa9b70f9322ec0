---------------------------- MODULE SdmmcTuning ----------------------------
(***************************************************************************)
(* The choice of the sampling tap for DDR200 SD cards:                     *)
(* _sdmmc_manual_tuning_set_tap of bdk/storage/sdmmc_driver.c.  For each   *)
(* tap the tuning recorded whether sampling was stable; the scan looks for *)
(* the widest run of stable taps and takes its middle.  One step is one    *)
(* turn of the loop.                                                       *)
(***************************************************************************)
EXTENDS Integers, FiniteSets

CONSTANTS
    NumIter,     \* 128 tuning iterations
    MinWindow    \* SDMMC_SAMPLE_WIN_SIZE_MIN

ASSUME TuningSizes == NumIter \in Nat \ {0} /\ MinWindow \in Nat \ {0}

INVALID_TAP == -1
Taps == 0 .. NumIter - 1

VARIABLES result, i, tap_start, win_size, best_tap, best_size, ret

tapVars == <<result, i, tap_start, win_size, best_tap, best_size, ret>>

TapInit ==
    /\ result \in [Taps -> BOOLEAN]
    /\ i = 0 /\ tap_start = INVALID_TAP /\ win_size = 0
    /\ best_tap = 0 /\ best_size = 0
    /\ ret = "running"

iter_end == IF i = NumIter - 1 THEN 1 ELSE 0

\* A stable tap, not the last: the window grows.
Grow ==
    /\ i < NumIter /\ result[i] /\ iter_end = 0
    /\ tap_start' = IF tap_start = INVALID_TAP THEN i ELSE tap_start
    /\ win_size' = win_size + 1
    /\ i' = i + 1
    /\ UNCHANGED <<result, best_tap, best_size, ret>>

tap_end == IF iter_end = 0 THEN i - 1 ELSE i

WindowReset_KeepsStart == UNCHANGED tap_start /\ win_size' = 0

WindowReset == tap_start' = INVALID_TAP /\ win_size' = 0

\* An unstable tap, or the last one: the window, if there is one, ends.
Close ==
    /\ i < NumIter /\ (~result[i] \/ iter_end = 1)
    /\ IF tap_start # INVALID_TAP
         THEN /\ IF win_size > best_size
                   THEN /\ best_tap' = (tap_start + tap_end) \div 2
                        /\ best_size' = win_size + iter_end
                   ELSE UNCHANGED <<best_tap, best_size>>
              /\ WindowReset
         ELSE UNCHANGED <<best_tap, best_size, tap_start, win_size>>
    /\ i' = i + 1
    /\ UNCHANGED <<result, ret>>

Finish_AnySize ==
    /\ i = NumIter /\ ret = "running"
    /\ ret' = IF best_tap = 0 THEN "fail" ELSE "ok"
    /\ UNCHANGED <<result, i, tap_start, win_size, best_tap, best_size>>

\* After the loop: fail when there is no window or it is too small.
Finish ==
    /\ i = NumIter /\ ret = "running"
    /\ ret' = IF best_tap = 0 \/ best_size < MinWindow THEN "fail" ELSE "ok"
    /\ UNCHANGED <<result, i, tap_start, win_size, best_tap, best_size>>

TapNext == Grow \/ Close \/ Finish

TapSpec == TapInit /\ [][TapNext]_tapVars

----------------------------------------------------------------------------
(* Properties.                                                             *)

\* All taps from lo to hi were stable.
Stable(lo, hi) == \A v \in lo .. hi : result[v]

\* A run of stable taps around best_tap, at most one short of n.
RunAround(n) ==
    \E lo, hi \in Taps : /\ lo <= best_tap /\ best_tap <= hi
                         /\ hi - lo + 1 >= n - 1
                         /\ Stable(lo, hi)

\* The tap that is programmed was stable and lies in a run of stable taps at
\* most one short of the required size (the last, possibly unstable, tap is
\* counted in).
TapIsStable == ret = "ok" => RunAround(MinWindow)

ScanTypes ==
    /\ result \in [Taps -> BOOLEAN]
    /\ i \in 0 .. NumIter
    /\ best_tap \in Taps /\ best_size \in 0 .. NumIter
    /\ tap_start \in Taps \cup {INVALID_TAP} /\ win_size \in 0 .. NumIter

\* The open window is the run of stable taps just before i.
OpenWindow ==
    /\ i = NumIter => tap_start = INVALID_TAP
    /\ tap_start = INVALID_TAP => win_size = 0
    /\ tap_start # INVALID_TAP =>
          /\ tap_start < i /\ win_size = i - tap_start
          /\ Stable(tap_start, i - 1)

BestWindow == best_size # 0 => RunAround(best_size)

\* The loop invariant of the scan of _sdmmc_manual_tuning_set_tap: the open
\* window is the run of stable taps before i, and the best one so far is a run
\* around best_tap.
ScanInvariant ==
    /\ ScanTypes
    /\ OpenWindow
    /\ BestWindow

=============================================================================
