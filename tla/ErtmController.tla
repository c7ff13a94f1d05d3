--------------------------- MODULE ErtmController ---------------------------
(***************************************************************************)
(* Enhanced retransmission mode of L2CAP                                   *)
(* (system/gd/l2cap/internal/                                              *)
(* enhanced_retransmission_mode_channel_data_controller.cc): two devices   *)
(* that run this controller, joined by a link that keeps the order of      *)
(* frames and may lose some of them.                                       *)
(*                                                                         *)
(* A controller runs on one handler, so each event of it is one step.  Its *)
(* functions are operators that take the state of a controller and return  *)
(* the state they leave behind; `out' collects the frames they send, which *)
(* the step then puts on the link.                                         *)
(***************************************************************************)
EXTENDS Integers, Sequences, FiniteSets, SequencesExt, FiniteSetsExt, Functions, TLC

CONSTANTS
  kMaxTxWin,        \* the modulus of sequence numbers, 64
  LocalTxWindow,    \* local_tx_window_
  RemoteTxWindow,   \* remote_tx_window_
  MaxTransmit,      \* local_max_transmit_
  BusyThreshold,    \* kEnqueueBufferBusyThreshold, 3
  Loads,            \* bound: the SDUs the devices may send, by segment count
  MaxLosses,        \* bound: frames the link loses
  MaxEarly          \* bound: timers that expire while frames are under way

Device == {"A", "B"}
Peer(d) == IF d = "A" THEN "B" ELSE "A"

ASSUME WindowAssumption ==
  /\ kMaxTxWin \in 2..64
  /\ LocalTxWindow \in 1..(kMaxTxWin - 1)
  /\ RemoteTxWindow \in 1..(kMaxTxWin - 1)
ASSUME BoundsAssumption ==
  /\ MaxTransmit \in Nat \ {0} /\ BusyThreshold \in Nat \ {0}
  /\ Loads \subseteq [Device -> Seq(Nat \ {0})]
  /\ MaxLosses \in Nat /\ MaxEarly \in Nat

VARIABLES
  controller,       \* the state of each device's controller
  link,             \* the frames on their way to each device
  load,             \* the SDUs still to be given to each device
  sent,             \* the SDUs each device was given by its upper layer
  received,         \* the SDUs each device put in its enqueue_buffer_
  losses, early     \* how many there were

vars == <<controller, link, load, sent, received, losses, early>>

-----------------------------------------------------------------------------
(* Segments and frames.  An SDU is the sequence of its segments' payloads; *)
(* a segment has size 1.                                                   *)

SduOf(n, count) == [i \in 1..count |-> <<n, i>>]
Segment(sdu, i) ==
  [sar |-> CASE Len(sdu) = 1 -> "UNSEGMENTED"
             [] i = 1 /\ Len(sdu) > 1 -> "START"
             [] i = Len(sdu) /\ Len(sdu) > 1 -> "END"
             [] OTHER -> "CONTINUATION",
   size |-> IF i = 1 THEN Len(sdu) ELSE 0,
   payload |-> sdu[i]]
Segments(sdu) == [i \in DOMAIN sdu |-> Segment(sdu, i)]
NoSegment == [sar |-> "NONE", size |-> 0, payload |-> <<0, 0>>]

IFrame(tx_seq, req_seq, f, segment) ==
  [type |-> "I", tx_seq |-> tx_seq, req_seq |-> req_seq, p |-> 0, f |-> f,
   segment |-> segment]
SFrame(type, req_seq, p, f) ==
  [type |-> type, tx_seq |-> 0, req_seq |-> req_seq, p |-> p, f |-> f,
   segment |-> NoSegment]

NewController ==
  [tx_state |-> "XMIT", rx_state |-> "RECV",
   next_tx_seq |-> 0, expected_ack_seq |-> 0,
   expected_tx_seq |-> 0, buffer_seq |-> 0,
   remote_busy |-> FALSE, local_busy |-> FALSE, rnr_sent |-> FALSE,
   rej_actioned |-> FALSE,
   unacked_frames |-> 0, unacked_list |-> <<>>, retry_i_frames |-> <<>>,
   pending_frames |-> <<>>, retry_count |-> 0,
   retrans_timer |-> FALSE, monitor_timer |-> FALSE,
   sar_state |-> "END", reassembly_stage |-> <<>>, remaining |-> 0,
   enqueue_buffer |-> 0, on_empty |-> FALSE,
   fatal |-> FALSE, closing |-> FALSE, out |-> <<>>, indicated |-> <<>>]

Init ==
  /\ controller = [d \in Device |-> NewController]
  /\ link = [d \in Device |-> <<>>]
  /\ load \in Loads
  /\ sent = [d \in Device |-> <<>>]
  /\ received = [d \in Device |-> <<>>]
  /\ losses = 0 /\ early = 0

-----------------------------------------------------------------------------
(* Conditions.  The differences are int; the sum and the difference with   *)
(* the window are passed on as uint8_t.                                    *)

sequence_less_than(x, y) == x < y \/ kMaxTxWin - (x - y) < LocalTxWindow
sequence_less_than_or_equal(x, y) ==
  x <= y \/ kMaxTxWin - (x - y) <= LocalTxWindow

window_end(c) == (c.expected_tx_seq + LocalTxWindow) % 256
window_start(c) == (c.expected_tx_seq - LocalTxWindow) % 256

with_valid_req_seq(c, req_seq) ==
  /\ sequence_less_than_or_equal(c.expected_ack_seq, req_seq)
  /\ sequence_less_than_or_equal(req_seq, c.next_tx_seq)
(* Mutant: the acknowledgement expected next counts as invalid.            *)
with_invalid_req_seq_M(c, req_seq) ==
  \/ sequence_less_than_or_equal(req_seq, c.expected_ack_seq)
  \/ sequence_less_than(c.next_tx_seq, req_seq)
with_invalid_req_seq(c, req_seq) ==
  \/ sequence_less_than(req_seq, c.expected_ack_seq)
  \/ sequence_less_than(c.next_tx_seq, req_seq)
with_valid_f_bit(c, f) == (f = 0) # (c.tx_state = "WAIT_F")
(* Mutant: a gap before the frame goes unnoticed.                          *)
with_expected_tx_seq_M(c, tx_seq) ==
  sequence_less_than_or_equal(c.expected_tx_seq, tx_seq)
with_expected_tx_seq(c, tx_seq) == tx_seq = c.expected_tx_seq
with_unexpected_tx_seq(c, tx_seq) ==
  /\ sequence_less_than(c.expected_tx_seq, tx_seq)
  /\ sequence_less_than_or_equal(tx_seq, window_end(c))
with_duplicate_tx_seq(c, tx_seq) ==
  /\ sequence_less_than(tx_seq, c.expected_tx_seq)
  /\ sequence_less_than_or_equal(window_start(c), tx_seq)
with_invalid_tx_seq(c, tx_seq) ==
  \/ sequence_less_than(tx_seq, window_start(c))
  \/ sequence_less_than(window_end(c), tx_seq)

rem_window_not_full(c) == c.unacked_frames < RemoteTxWindow
p_bit_outstanding(c) == c.tx_state = "WAIT_F"
Retries(c, i) == IF i \in DOMAIN c.retry_i_frames THEN c.retry_i_frames[i] ELSE 0

-----------------------------------------------------------------------------
(* Actions of the sender.                                                  *)

CloseChannel(c) == [c EXCEPT !.closing = TRUE]
StartRetransTimerIf(c, condition) ==
  [c EXCEPT !.retrans_timer = @ \/ condition]

(* Sends the segments one after the other.  map::emplace keeps the entry   *)
(* that a sequence number already has, and it is the payload of the entry  *)
(* that goes out.                                                          *)
send_data(c, segments, f) ==
  LET seq(k) == (c.next_tx_seq + k - 1) % kMaxTxWin
      index(i) == 1 + ((i - c.next_tx_seq) % kMaxTxWin)
      used == {seq(k) : k \in DOMAIN segments}
      list == c.unacked_list @@ [i \in used |-> segments[index(i)]]
      frame(k) == IFrame(seq(k), c.buffer_seq, IF k = 1 THEN f ELSE 0,
                    [segments[k] EXCEPT !.payload = list[seq(k)].payload])
  IN  [c EXCEPT !.unacked_list = list,
                !.out = @ \o [k \in DOMAIN segments |-> frame(k)],
                !.unacked_frames = @ + Len(segments),
                !.retry_i_frames = [i \in used |-> 1] @@ @,
                !.next_tx_seq = seq(Len(segments) + 1),
                !.retrans_timer = @ \/ segments # <<>>]

Room(c) == Max({0, RemoteTxWindow - c.unacked_frames})

(* The segments of an SDU, in turn: those the window has room for go out,  *)
(* the others wait.  (More unacknowledged frames than the window: the code *)
(* has no branch for it.)                                                  *)
data_request(c, segments) ==
  LET open == c.tx_state = "XMIT" /\ ~c.remote_busy
      fit == IF open THEN Min({Room(c), Len(segments)}) ELSE 0
      after == send_data(c, SubSeq(segments, 1, fit), 0)
      dropped == open /\ after.unacked_frames > RemoteTxWindow
  IN  IF dropped THEN after
      ELSE [after EXCEPT !.pending_frames =
                           @ \o SubSeq(segments, fit + 1, Len(segments))]

send_pending_i_frames(c, f) ==
  LET fit == Min({Room(c), Len(c.pending_frames)})
      after == send_data(c, SubSeq(c.pending_frames, 1, fit), f)
  IN  IF p_bit_outstanding(c) THEN c
      ELSE [after EXCEPT !.pending_frames = SubSeq(@, fit + 1, Len(@))]

(* Mutant: the frame before req_seq is kept.                               *)
process_req_seq_M(c, req_seq) ==
  LET acked == c.expected_ack_seq..(req_seq - 2)
      unacked == c.unacked_frames - ((req_seq - c.expected_ack_seq) % kMaxTxWin)
  IN  [c EXCEPT !.unacked_list = RestrictDomain(@, LAMBDA i : i \notin acked),
                !.unacked_frames = unacked,
                !.expected_ack_seq = req_seq,
                !.retrans_timer = @ /\ unacked # 0]

(* The loop runs from expected_ack_seq_ up to req_seq and does not wrap.   *)
process_req_seq(c, req_seq) ==
  LET acked == c.expected_ack_seq..(req_seq - 1)
      count == ((req_seq - c.expected_ack_seq) + kMaxTxWin) % kMaxTxWin
      unacked == c.unacked_frames - count
  IN  [c EXCEPT !.unacked_list = RestrictDomain(@, LAMBDA i : i \notin acked),
                !.retry_i_frames = RestrictDomain(@, LAMBDA i : i \notin acked),
                !.unacked_frames = unacked,
                !.expected_ack_seq = req_seq,
                !.retrans_timer = @ /\ unacked # 0]

(* Mutant: the answer to a poll does not start the retransmission timer.   *)
pass_to_tx_M(c, req_seq, f) ==
  LET acked == process_req_seq(c, req_seq)
  IN  IF c.tx_state = "WAIT_F" /\ f = 1
      THEN [acked EXCEPT !.monitor_timer = FALSE, !.tx_state = "XMIT"]
      ELSE acked

(* recv_req_seq_and_f_bit                                                  *)
pass_to_tx(c, req_seq, f) ==
  LET acked == process_req_seq(c, req_seq)
  IN  IF c.tx_state = "WAIT_F" /\ f = 1
      THEN [acked EXCEPT !.monitor_timer = FALSE,
                         !.retrans_timer = @ \/ acked.unacked_frames > 0,
                         !.tx_state = "XMIT"]
      ELSE acked

(* The frames sent again are those from req_seq up to the first number     *)
(* that is not in unacked_list_; i++ does not wrap.                        *)
retransmit_i_frames(c, req_seq, p) ==
  LET run == {i \in req_seq..(kMaxTxWin - 1) :
                 \A j \in req_seq..i : j \in DOMAIN c.unacked_list}
      spent == {i \in run : Retries(c, i) = MaxTransmit}
      again == {i \in run : \A j \in spent : i < j}
      frame(i) == IFrame(i, c.buffer_seq, IF i = req_seq THEN p ELSE 0,
                         c.unacked_list[i])
  IN  [c EXCEPT !.out = @ \o [k \in 1..Cardinality(again) |-> frame(req_seq + k - 1)],
                !.retry_i_frames = [i \in again |-> Retries(c, i) + 1] @@ @,
                !.retrans_timer = @ \/ (spent = {} /\ run # {}),
                !.closing = @ \/ spent # {}]

(* What the receipt of F = 1 does, unless a REJ already did it.            *)
RetransmitUnlessActioned(c, req_seq, p) ==
  IF c.rej_actioned THEN [c EXCEPT !.rej_actioned = FALSE]
  ELSE retransmit_i_frames(c, req_seq, p)

-----------------------------------------------------------------------------
(* Actions of the receiver.                                                *)

send_s_frame(c, type, req_seq, p, f) ==
  [c EXCEPT !.out = Append(@, SFrame(type, req_seq, p, f))]
send_rr(c, p, f) == send_s_frame(c, "RR", c.expected_tx_seq, p, f)
send_rnr(c, f) ==
  [send_s_frame(c, "RNR", c.expected_tx_seq, 0, f) EXCEPT !.rnr_sent = TRUE]
send_rr_or_rnr(c, p, f) ==
  send_s_frame(c, IF c.local_busy THEN "RNR" ELSE "RR", c.buffer_seq, p, f)
send_rej(c) == send_s_frame(c, "REJ", c.expected_tx_seq, 0, 0)

send_ack(c) ==
  CASE c.local_busy -> send_rnr(c, 0)
    [] /\ ~c.local_busy /\ ~c.remote_busy
       /\ c.pending_frames # <<>> /\ rem_window_not_full(c) ->
         send_pending_i_frames(c, 0)
    [] OTHER -> send_rr(c, 0, 0)

RemoteReady(c) ==
  [StartRetransTimerIf(c, c.remote_busy /\ c.unacked_frames > 0)
     EXCEPT !.remote_busy = FALSE]

send_i_or_rr_or_rnr(c) ==
  LET busy == IF c.local_busy THEN send_rnr(c, 1) ELSE c
      pending == send_pending_i_frames(RemoteReady(busy), 1)
  IN  IF c.local_busy THEN pending ELSE send_rr(pending, 0, 1)

-----------------------------------------------------------------------------
(* Reassembly.  NotifyOnEmpty asserts that no callback is waiting.         *)

Enqueue(c, sdu) ==
  LET busy == c.enqueue_buffer + 1 = BusyThreshold
  IN  [c EXCEPT !.enqueue_buffer = @ + 1,
                !.indicated = sdu,
                !.local_busy = @ \/ busy,
                !.fatal = @ \/ (busy /\ c.on_empty),
                !.on_empty = @ \/ busy]

stage_for_reassembly(c, segment) ==
  LET payload == <<segment.payload>>
      staged == [c EXCEPT !.reassembly_stage = @ \o payload,
                          !.remaining = @ - 1]
      outside == c.sar_state = "END"
      first == segment.sar \in {"UNSEGMENTED", "START"}
  IN  CASE first # outside -> CloseChannel(c)
        [] outside /\ segment.sar = "UNSEGMENTED" -> Enqueue(c, payload)
        [] outside /\ segment.sar = "START" ->
             [c EXCEPT !.sar_state = "START", !.reassembly_stage = payload,
                       !.remaining = segment.size - 1]
        [] ~outside /\ segment.sar = "CONTINUATION" -> staged
        [] ~outside /\ segment.sar = "END" /\ staged.remaining = 0 ->
             Enqueue([staged EXCEPT !.sar_state = "END"], staged.reassembly_stage)
        [] OTHER ->
             CloseChannel([c EXCEPT !.sar_state = "END",
                                    !.reassembly_stage = <<>>, !.remaining = 0])

data_indication(c, segment) ==
  [stage_for_reassembly(c, segment) EXCEPT !.buffer_seq = (@ + 1) % kMaxTxWin]

(* A frame in sequence: taken, acknowledged, and RECV is the state again.  *)
AcceptIFrame(c, frame) ==
  LET next == [c EXCEPT !.expected_tx_seq = (@ + 1) % kMaxTxWin]
      passed == pass_to_tx(next, frame.req_seq, frame.f)
      indicated == data_indication(passed, frame.segment)
      answered ==
        CASE frame.f = 0 -> indicated
          [] frame.f = 1 /\ indicated.rej_actioned ->
               [indicated EXCEPT !.rej_actioned = FALSE]
          [] OTHER ->
               send_pending_i_frames(
                 retransmit_i_frames(indicated, frame.req_seq, 0), 0)
  IN  [send_ack(answered) EXCEPT !.rx_state = "RECV"]

-----------------------------------------------------------------------------
(* Events: the frames.                                                     *)

(* Mutant: a frame in sequence is taken even while the device is busy.     *)
recv_i_frame_M(c, frame) ==
  IF /\ with_valid_req_seq(c, frame.req_seq) /\ with_valid_f_bit(c, frame.f)
     /\ with_expected_tx_seq(c, frame.tx_seq)
  THEN AcceptIFrame(c, frame) ELSE c

recv_i_frame(c, frame) ==
  LET tx_seq == frame.tx_seq
      valid == with_valid_req_seq(c, frame.req_seq) /\ with_valid_f_bit(c, frame.f)
      passed == pass_to_tx(c, frame.req_seq, frame.f)
      recv == c.rx_state = "RECV"
  IN  CASE valid /\ with_expected_tx_seq(c, tx_seq) /\ (recv => ~c.local_busy) ->
             AcceptIFrame(c, frame)
        [] /\ recv /\ valid /\ ~c.local_busy
           /\ ~with_expected_tx_seq(c, tx_seq)
           /\ with_duplicate_tx_seq(c, tx_seq) -> passed
        [] /\ recv /\ valid /\ ~c.local_busy
           /\ ~with_expected_tx_seq(c, tx_seq)
           /\ ~with_duplicate_tx_seq(c, tx_seq)
           /\ with_unexpected_tx_seq(c, tx_seq) ->
             [send_rej(passed) EXCEPT !.rx_state = "REJ_SENT"]
        [] /\ recv /\ valid /\ c.local_busy
           /\ \/ with_expected_tx_seq(c, tx_seq)
              \/ ~with_invalid_tx_seq(c, tx_seq) -> passed
        [] /\ ~recv /\ valid /\ ~with_expected_tx_seq(c, tx_seq)
           /\ with_unexpected_tx_seq(c, tx_seq) -> passed
        [] OTHER ->
             IF recv /\ \/ /\ with_invalid_tx_seq(c, tx_seq)
                           /\ 2 * LocalTxWindow > kMaxTxWin
                        \/ with_invalid_req_seq(c, frame.req_seq)
             THEN CloseChannel(c) ELSE c

recv_rr(c, frame) ==
  LET req_seq == frame.req_seq
      valid == with_valid_req_seq(c, req_seq) /\ with_valid_f_bit(c, frame.f)
      passed == pass_to_tx(c, req_seq, frame.f)
      recv == c.rx_state = "RECV"
  IN  CASE valid /\ frame.f = 1 ->
             send_pending_i_frames(
               RetransmitUnlessActioned([passed EXCEPT !.remote_busy = FALSE],
                                        req_seq, frame.p), 0)
        [] valid /\ frame.f = 0 /\ frame.p = 0 ->
             IF recv THEN send_pending_i_frames(RemoteReady(passed), 0)
             ELSE send_ack(RemoteReady(passed))
        [] ~valid -> IF with_invalid_req_seq(c, req_seq)
                     THEN CloseChannel(c) ELSE c
        [] OTHER ->
             IF recv THEN send_i_or_rr_or_rnr(passed)
             ELSE send_rr(RemoteReady(passed), 0, 1)

recv_rej(c, frame) ==
  LET req_seq == frame.req_seq
      valid == with_valid_req_seq(c, req_seq)
      exhausted == Retries(c, req_seq) >= MaxTransmit
      passed == [pass_to_tx(c, req_seq, frame.f) EXCEPT !.remote_busy = FALSE]
      actioned == send_pending_i_frames(
                    retransmit_i_frames(passed, req_seq, frame.p), 0)
  IN  CASE valid /\ ~exhausted /\ with_valid_f_bit(c, frame.f) ->
             IF frame.f = 1
             THEN send_pending_i_frames(
                    RetransmitUnlessActioned(passed, req_seq, frame.p), 0)
             ELSE [actioned EXCEPT !.rej_actioned = @ \/ p_bit_outstanding(actioned)]
        [] valid /\ exhausted -> CloseChannel(c)
        [] OTHER -> IF with_invalid_req_seq(c, req_seq)
                    THEN CloseChannel(c) ELSE c

recv_rnr(c, frame) ==
  LET req_seq == frame.req_seq
      valid == with_valid_req_seq(c, req_seq) /\ with_valid_f_bit(c, frame.f)
      passed == [pass_to_tx(c, req_seq, frame.f) EXCEPT !.remote_busy = TRUE]
      stopped == [passed EXCEPT !.retrans_timer = FALSE]
      recv == c.rx_state = "RECV"
  IN  CASE valid /\ frame.p = 0 ->
             IF recv THEN stopped ELSE send_rr(passed, 0, 1)
        [] ~valid -> IF with_invalid_req_seq(c, req_seq)
                     THEN CloseChannel(c) ELSE c
        [] OTHER ->
             IF recv THEN send_rr_or_rnr(stopped, 0, 1) ELSE send_rr(passed, 0, 0)

OnFrame(c, frame) ==
  CASE frame.type = "I" -> recv_i_frame(c, frame)
    [] frame.type = "RR" -> recv_rr(c, frame)
    [] frame.type = "REJ" -> recv_rej(c, frame)
    [] OTHER -> recv_rnr(c, frame)

-----------------------------------------------------------------------------
(* Events: the upper layer, the buffer and the timers.                     *)

local_busy_clear(c) ==
  LET clear == [c EXCEPT !.local_busy = FALSE, !.rnr_sent = FALSE]
  IN  CASE c.tx_state = "XMIT" /\ c.rnr_sent ->
             [send_rr(clear, 1, 0) EXCEPT !.retry_count = 1,
                                          !.retrans_timer = FALSE,
                                          !.monitor_timer = TRUE]
        [] c.tx_state = "XMIT" /\ ~c.rnr_sent -> clear
        [] c.tx_state # "XMIT" -> c

retrans_timer_expires(c) ==
  IF c.tx_state # "XMIT" THEN c
  ELSE [send_rr_or_rnr(c, 1, 0) EXCEPT !.retry_count = 1,
                                       !.monitor_timer = TRUE,
                                       !.tx_state = "WAIT_F"]

monitor_timer_expires(c) ==
  CASE c.tx_state = "WAIT_F" /\ c.retry_count < MaxTransmit ->
         [send_rr_or_rnr(c, 1, 0) EXCEPT !.retry_count = @ + 1,
                                         !.monitor_timer = TRUE]
    [] c.tx_state # "WAIT_F" -> c
    [] OTHER -> CloseChannel(c)

-----------------------------------------------------------------------------
(* The steps.  Once a controller has asked for the disconnection the       *)
(* channel promises nothing more, and the model stops there.               *)

Open == \A d \in Device : ~controller[d].closing /\ ~controller[d].fatal

(* Device d is left in state c, having taken the frames before `rest' off  *)
(* its link; what it sent goes to the other device.                        *)
Become(d, c, rest) ==
  /\ controller' = [controller EXCEPT
       ![d] = [c EXCEPT !.out = <<>>, !.indicated = <<>>]]
  /\ link' = [link EXCEPT ![d] = rest, ![Peer(d)] = @ \o c.out]
  /\ received' = [received EXCEPT
       ![d] = IF c.indicated = <<>> THEN @ ELSE Append(@, c.indicated)]

OnSdu(d) ==
  /\ Open /\ load[d] # <<>>
  /\ LET sdu == SduOf(Len(sent[d]) + 1, Head(load[d]))
     IN  /\ Become(d, data_request(controller[d], Segments(sdu)), link[d])
         /\ sent' = [sent EXCEPT ![d] = Append(@, sdu)]
  /\ load' = [load EXCEPT ![d] = Tail(@)]
  /\ UNCHANGED <<losses, early>>

OnPdu(d) ==
  /\ Open /\ link[d] # <<>>
  /\ Become(d, OnFrame(controller[d], Head(link[d])), Tail(link[d]))
  /\ UNCHANGED <<load, sent, losses, early>>

(* enqueue_callback of the buffer: the upper layer takes an SDU; when none *)
(* is left the callback given to NotifyOnEmpty runs.                       *)
EnqueueCallback(d) ==
  LET taken == [controller[d] EXCEPT !.enqueue_buffer = @ - 1]
      notified == taken.enqueue_buffer = 0 /\ taken.on_empty
  IN  /\ Open /\ controller[d].enqueue_buffer > 0
      /\ Become(d, IF notified THEN local_busy_clear([taken EXCEPT !.on_empty = FALSE])
                   ELSE taken, link[d])
      /\ UNCHANGED <<load, sent, losses, early>>

(* The timeouts are longer than a round trip, except MaxEarly times.       *)
Expiry ==
  LET quiet == \A d \in Device : link[d] = <<>>
  IN  /\ Open
      /\ quiet \/ early < MaxEarly
      /\ early' = IF quiet THEN early ELSE early + 1

RetransTimer(d) ==
  /\ Expiry /\ controller[d].retrans_timer
  /\ Become(d, retrans_timer_expires([controller[d] EXCEPT !.retrans_timer = FALSE]),
            link[d])
  /\ UNCHANGED <<load, sent, losses>>

MonitorTimer(d) ==
  /\ Expiry /\ controller[d].monitor_timer
  /\ Become(d, monitor_timer_expires([controller[d] EXCEPT !.monitor_timer = FALSE]),
            link[d])
  /\ UNCHANGED <<load, sent, losses>>

(* The link loses a frame, or the check sequence rejects it.               *)
Lose(d) ==
  /\ Open /\ losses < MaxLosses
  /\ \E i \in DOMAIN link[d] : link' = [link EXCEPT ![d] = RemoveAt(@, i)]
  /\ losses' = losses + 1
  /\ UNCHANGED <<controller, load, sent, received, early>>

Next ==
  \E d \in Device :
    \/ OnSdu(d) \/ OnPdu(d) \/ EnqueueCallback(d)
    \/ RetransTimer(d) \/ MonitorTimer(d) \/ Lose(d)

Spec == Init /\ [][Next]_vars

-----------------------------------------------------------------------------
(* Properties.                                                             *)

Sdus == UNION {{SduOf(n, l[d][n]) : n \in DOMAIN l[d]} : l \in Loads, d \in Device}
FromA == INSTANCE FifoChannel WITH
           Sdu <- Sdus, sent <- sent["A"], received <- received["B"]
FromB == INSTANCE FifoChannel WITH
           Sdu <- Sdus, sent <- sent["B"], received <- received["A"]

(* In each direction the controllers implement a FIFO channel: every SDU   *)
(* that stage_for_reassembly hands to the enqueue buffer is the next one   *)
(* that was given to OnSdu, whole, whatever frames are lost and however    *)
(* retransmissions, REJ and polls interleave.  It is a claim about the     *)
(* Loads of the run, and not one for every load: data both ways breaks it  *)
(* once frames that wait overtake lost ones (run ertm_overtake), and so    *)
(* does a second lap of the sequence numbers, whose frames find entries of *)
(* the first in unacked_list_ (see WindowBookkeeping).                     *)
ImplementsFifo == FromA!Spec /\ FromB!Spec

(* The same, as a statement about what has been delivered so far.          *)
InOrder == \A d \in Device : IsPrefix(received[d], sent[Peer(d)])

(* The numbers whose entries can outlive their acknowledgement: an         *)
(* acknowledgement that takes the window over the wrap (req_seq <          *)
(* expected_ack_seq_) makes the loop of process_req_seq run not at all.    *)
AroundWrap ==
  {i \in 0..(kMaxTxWin - 1) :
     i + 1 < RemoteTxWindow \/ i + RemoteTxWindow >= kMaxTxWin}

(* The bookkeeping of the window: unacked_frames_ counts the sequence      *)
(* numbers from expected_ack_seq_ to next_tx_seq_, modulo kMaxTxWin; each  *)
(* of them has its entry in unacked_list_, ready to be sent again; and     *)
(* what the other device expects next lies among them, so that nothing     *)
(* counts as acknowledged that did not arrive.  unacked_list_ holds no     *)
(* other entry, except some next to the wrap, which process_req_seq left   *)
(* behind: a lap later emplace keeps them in place of the new frames.      *)
WindowBookkeeping ==
  \A d \in Device :
    LET c == controller[d]
        distance(seq) == (seq - c.expected_ack_seq) % kMaxTxWin
        window == {i \in 0..(kMaxTxWin - 1) : distance(i) < c.unacked_frames}
    IN  /\ c.unacked_frames = distance(c.next_tx_seq)
        /\ window \subseteq DOMAIN c.unacked_list
        /\ DOMAIN c.unacked_list \subseteq window \cup AroundWrap
        /\ distance(controller[Peer(d)].expected_tx_seq) <= c.unacked_frames

(* The assertion in NotifyOnEmpty never fails: the buffer does not reach   *)
(* the threshold again while the callback of the last time still waits.    *)
NotifyOnce == \A d \in Device : ~controller[d].fatal

(* Nothing is left to happen in the channel by itself.                     *)
Quiescent ==
  \A d \in Device :
    /\ link[d] = <<>> /\ controller[d].enqueue_buffer = 0
    /\ ~controller[d].retrans_timer /\ ~controller[d].monitor_timer

(* No SDU is stranded: when the channel comes to rest (no frame under way, *)
(* no timer running), everything a device was given has arrived, also if   *)
(* the other was busy for a while.  Two cases are left out, and in both    *)
(* the code does strand SDUs: the device still takes the other for busy    *)
(* (the RR of local_busy_clear was lost, and nothing repeats it), or it    *)
(* was itself given enough SDUs to become busy, and local_busy_clear       *)
(* stopped the timer of its own unacknowledged frames.                     *)
NeverStranded ==
  Open /\ Quiescent =>
    \A d \in Device :
      ~controller[d].remote_busy /\ Len(received[d]) < BusyThreshold
        => received[Peer(d)] = sent[d]

(* The channel is given up only when the link is bad: as many failures as  *)
(* MaxTransmit allows transmissions, one of which may be a frame ignored   *)
(* by a busy device.  There are two exceptions.  Both devices poll at the  *)
(* same time; or the window of the one that gives up lies across the wrap, *)
(* where sequence_less_than(next_tx_seq_, req_seq) compares 0 with 63, so  *)
(* that a good frame with an F bit that is not awaited is taken for one    *)
(* with an invalid ReqSeq.                                                 *)
CloseJustified ==
  (\E d \in Device : controller[d].closing)
    => \/ losses + early + 1 >= MaxTransmit
       \/ \A d \in Device : controller[d].tx_state = "WAIT_F"
       \/ \E d \in Device :
            /\ controller[d].closing
            /\ controller[d].next_tx_seq < controller[d].expected_ack_seq

=============================================================================
