------------------------------ MODULE Counters ------------------------------
(***************************************************************************)
(* The transport counter of wg-core (crates/wg-core/src/transport.rs and   *)
(* replay.rs): the constants that bound it and the rule by which a         *)
(* received counter is fresh.  The specification of the replay window, its *)
(* implementation and the device all use this one rule.                    *)
(***************************************************************************)
EXTENDS Integers

CONSTANTS
    WINDOW,                 \* REPLAY_WINDOW_BITS (1024 in the code)
    REJECT_AFTER_MESSAGES   \* first counter a session may not use (2^64-2^13-1)

ASSUME WindowAssumption == WINDOW \in Nat \ {0}
ASSUME RejectAssumption == REJECT_AFTER_MESSAGES \in Nat \ {0}

(* The counters a session may carry.                                       *)
Counter == 0 .. REJECT_AFTER_MESSAGES - 1

(* Counter c has fallen out of the window that ends at some accepted one.  *)
TooOld(accepted, c) == \E h \in accepted : h - c >= WINDOW

(* What `accept` promises to say yes to: a usable counter that was not     *)
(* accepted before and is still inside the window.                         *)
Fresh(accepted, c) == c \in Counter \ accepted /\ ~TooOld(accepted, c)

=============================================================================
