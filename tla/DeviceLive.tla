----------------------------- MODULE DeviceLive -----------------------------
(***************************************************************************)
(* Device under a driver that keeps polling and a network that eventually  *)
(* delivers: the loops of harness/src/wg.rs and control.rs call            *)
(* poll_handshakes and poll_timers every 250 ms, and hand every datagram   *)
(* that arrives to handle_udp.                                             *)
(***************************************************************************)
EXTENDS Device

Fairness ==
    /\ WF_vars(Tick)
    /\ \A d \in Devices :
        /\ WF_vars(PollHandshakes(d))
        /\ WF_vars(PollTimers(d))
        /\ WF_vars(\E m \in initiations : RespondToInitiation(d, m))
        /\ WF_vars(\E m \in responses : CompleteHandshake(d, m))
        /\ WF_vars(\E m \in datagrams : OpenData(d, m))

LiveSpec == Spec /\ Fairness

(* Device::is_connected.                                                   *)
IsConnected(d, q) == \E s \in Usable(current[d][q]) : s.confirmed

(* A device that initiates and one that answers get a tunnel that carries  *)
(* traffic both ways, although initiations are retried, answered late and  *)
(* answered twice: the initiator's keepalive confirms the responder, which *)
(* "for an idle peer" nothing else would (handle_udp).  The only excuse is *)
(* a session that ran out of messages.                                     *)
Connects ==
    <>(\/ \A d, q \in Devices : d # q => IsConnected(d, q)
       \/ \E d, q \in Devices : \E s \in Sessions(d, q) :
             s.send_counter = REJECT_AFTER_MESSAGES)

(* "Having received a data packet, send something back within this long"   *)
(* (KEEPALIVE_TIMEOUT_MS): an armed keepalive is sent, superseded by other *)
(* traffic, or its session ends.                                           *)
KeepaliveSent ==
    \A d, q \in Devices :
        keepalive_armed_since[d][q] # {} /\ now + KEEPALIVE_TIMEOUT <= MaxTime
            ~> keepalive_armed_since[d][q] = {} \/ ~IsConnected(d, q)

=============================================================================
