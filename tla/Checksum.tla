------------------------------- MODULE Checksum -------------------------------
(***************************************************************************)
(* What firmware/src/nat.rs does to a packet: the address and port of a    *)
(* TCP segment it replaces, the segment size it lowers, the checksum it    *)
(* adjusts for each, and the UDP datagram it builds anew.  A word is two   *)
(* bytes; BYTE is the number of values of a byte, 256 on the wire and less *)
(* for model checking.                                                     *)
(***************************************************************************)
EXTENDS Integers, Sequences

CONSTANTS BYTE, MAX_MSS

WORD == BYTE * BYTE
Words == 0..WORD - 1
Not(word) == WORD - 1 - word

\* while sum >> 16 != 0 { sum = (sum & 0xffff) + (sum >> 16) }
Folded(sum) ==
  LET once(n) == (n % WORD) + (n \div WORD)
  IN  once(once(once(sum)))

\* checksum and checksum_with_carry, over words: ~ of their folded sum.
Total(words) ==
  LET upto[i \in 0..Len(words)] == IF i = 0 THEN 0 ELSE upto[i - 1] + words[i]
  IN  upto[Len(words)]
checksum(words) == Not(Folded(Total(words)))

\* RFC 1624: HC' = ~(~HC + ~m + m').
adjust_checksum(old_sum, old, new) == Not(Folded(Not(old_sum) + Not(old) + new))

OPTION_END == 0
OPTION_NOP == 1
OPTION_MSS == 2

\* A segment, as far as the gateway changes it: the addresses of the pseudo
\* header, the ports, whether it is a SYN, its options byte by byte, a word
\* that stands for all the rest, and the checksum.
Segment(from, to, syn, options, rest) ==
  [src |-> from[1], sport |-> from[2], dst |-> to[1], dport |-> to[2], syn |-> syn,
   options |-> options, rest |-> rest, check |-> 0]

\* Options start on a word boundary and fill whole words.
OptionWords(options) ==
  [i \in 1..(Len(options) \div 2) |-> BYTE * options[2 * i - 1] + options[2 * i]]
Covered(seg) == <<seg.src, seg.dst, seg.sport, seg.dport, seg.rest>> \o OptionWords(seg.options)

WithChecksum(seg) == [seg EXCEPT !.check = checksum(Covered(seg))]

\* build_udp4: all-zero means "no checksum", so a genuine zero is sent as ~0.
build_udp4(from, to, payload) ==
  LET datagram == WithChecksum(Segment(from, to, FALSE, <<>>, payload))
  IN  IF datagram.check = 0 THEN [datagram EXCEPT !.check = WORD - 1] ELSE datagram

\* What the receiver does: the sum of everything, checksum included, is ~0.
Verifies(seg) == Folded(Total(Covered(seg)) + seg.check) = WORD - 1

\* Where clamp_mss finds the option, or 0: it stops at the end of the list
\* and at a length that cannot be right.
MssAt(options) ==
  LET end == Len(options)
      from[i \in 1..end + 1] ==
        IF i > end THEN 0
        ELSE IF options[i] = OPTION_END THEN 0
        ELSE IF options[i] = OPTION_NOP THEN from[i + 1]
        ELSE IF i + 1 > end THEN 0
        ELSE IF options[i + 1] < 2 \/ i + options[i + 1] > end + 1 THEN 0
        ELSE IF options[i] = OPTION_MSS /\ options[i + 1] = 4 THEN i
        ELSE from[i + options[i + 1]]
  IN  from[1]

mss(options, at) == BYTE * options[at + 2] + options[at + 3]

clamp_mss(seg) ==
  LET at == MssAt(seg.options)
  IN  IF ~seg.syn \/ at = 0 \/ (at # 0 /\ mss(seg.options, at) <= MAX_MSS) THEN seg
      ELSE [seg EXCEPT !.check = adjust_checksum(@, mss(seg.options, at), MAX_MSS),
                       !.options = [@ EXCEPT ![at + 2] = MAX_MSS \div BYTE,
                                             ![at + 3] = MAX_MSS % BYTE]]

rewrite_tcp_outbound(seg, new_src_ip, new_src_port) ==
  LET sum == adjust_checksum(seg.check, seg.src, new_src_ip)
  IN  [seg EXCEPT !.check = adjust_checksum(sum, seg.sport, new_src_port),
                  !.src = new_src_ip, !.sport = new_src_port]

\* Mutant: forget that the checksum covers the address.
RewritePortOnly(seg, new_dst_ip, new_dst_port) ==
  [seg EXCEPT !.check = adjust_checksum(@, seg.dport, new_dst_port),
              !.dst = new_dst_ip, !.dport = new_dst_port]

rewrite_tcp_inbound(seg, new_dst_ip, new_dst_port) ==
  LET sum == adjust_checksum(seg.check, seg.dst, new_dst_ip)
  IN  [seg EXCEPT !.check = adjust_checksum(sum, seg.dport, new_dst_port),
                  !.dst = new_dst_ip, !.dport = new_dst_port]

\* The size option straddles two words when it starts at an odd offset.
Straddles(options) == MssAt(options) # 0 /\ MssAt(options) % 2 = 0
================================================================================
