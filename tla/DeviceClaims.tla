---------------------------- MODULE DeviceClaims ----------------------------
(***************************************************************************)
(* What a comment in wg-core says about rekeying, as a property of Device. *)
(* A run refutes it; the README tells the schedule.                        *)
(***************************************************************************)
EXTENDS Device, TLC

Indices == Permutations(Index)

(* No session can have reached REJECT_AFTER_TIME anywhere yet.             *)
NothingExpired == now < REJECT_AFTER_TIME

(* start_handshake: "Existing sessions are left alone: they stay usable    *)
(* until the new handshake completes, so a rekey does not interrupt        *)
(* traffic."  While a rekey is in flight the peer can still read what the  *)
(* initiator sends under its current session.                              *)
RekeyKeepsTraffic ==
    NothingExpired =>
        \A d, q \in Devices :
            pending[d][q] # {} =>
                \A s \in Usable(current[d][q]) :
                    s.confirmed =>
                        \E t \in Sessions(q, d) :
                            t.key = s.key /\ t.role # s.role

=============================================================================
