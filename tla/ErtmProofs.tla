----------------------------- MODULE ErtmProofs -----------------------------
(***************************************************************************)
(* The assertion in NotifyOnEmpty never fails, for every window, threshold *)
(* and load and whatever the link loses.  The argument: the callback waits *)
(* only while the device is busy, a busy device is in RECV, and a device   *)
(* in RECV takes no SDU while it is busy.                                  *)
(***************************************************************************)
EXTENDS ErtmController, TLAPS

Fields == {"local_busy", "on_empty", "fatal", "rx_state"}

\* c2 has the fields of c that the argument is about.
Keeps(c, c2) ==
  /\ Fields \subseteq DOMAIN c2
  /\ c2.local_busy = c.local_busy /\ c2.on_empty = c.on_empty
  /\ c2.fatal = c.fatal /\ c2.rx_state = c.rx_state

\* What the state of a controller satisfies before and after every step.
BusyInv(c) ==
  /\ Fields \subseteq DOMAIN c
  /\ c.local_busy \in BOOLEAN /\ c.on_empty \in BOOLEAN
  /\ c.fatal = FALSE
  /\ c.on_empty => c.local_busy
  /\ c.local_busy => c.rx_state = "RECV"

\* A controller that may take an SDU: it is not busy.
NotBusy(c) ==
  /\ Fields \subseteq DOMAIN c
  /\ c.local_busy = FALSE /\ c.on_empty = FALSE /\ c.fatal = FALSE

NotifyInv ==
  /\ DOMAIN controller = Device
  /\ \A d \in Device : BusyInv(controller[d])

-----------------------------------------------------------------------------
(* The functions that do not touch the four fields.                        *)

\* The sender's functions.
LEMMA SenderKeeps ==
  ASSUME NEW b, NEW c, Keeps(b, c), NEW s, NEW f, NEW p
  PROVE  /\ Keeps(b, CloseChannel(c))
         /\ Keeps(b, StartRetransTimerIf(c, s))
         /\ Keeps(b, send_data(c, s, f))
         /\ Keeps(b, process_req_seq(c, s))
         /\ Keeps(b, retransmit_i_frames(c, s, p))
<1>1. Keeps(b, CloseChannel(c))
  BY DEF CloseChannel, Keeps, Fields
<1>2. Keeps(b, StartRetransTimerIf(c, s))
  BY DEF StartRetransTimerIf, Keeps, Fields
<1>3. Keeps(b, send_data(c, s, f))
  BY DEF send_data, Keeps, Fields
<1>4. Keeps(b, process_req_seq(c, s))
  BY DEF process_req_seq, Keeps, Fields
<1>5. Keeps(b, retransmit_i_frames(c, s, p))
  BY DEF retransmit_i_frames, Keeps, Fields
<1>. QED
  BY <1>1, <1>2, <1>3, <1>4, <1>5

\* Frames that wait, and those sent again after an F bit.
LEMMA PendingKeeps ==
  ASSUME NEW b, NEW c, Keeps(b, c), NEW s, NEW f
  PROVE  /\ Keeps(b, send_pending_i_frames(c, f))
         /\ Keeps(b, RetransmitUnlessActioned(c, s, f))
         /\ Keeps(b, data_request(c, s))
<1>1. Keeps(b, send_pending_i_frames(c, f))
  <2>. DEFINE n == Min({Room(c), Len(c.pending_frames)})
              after == send_data(c, SubSeq(c.pending_frames, 1, n), f)
              rest == [after EXCEPT !.pending_frames = SubSeq(@, n + 1, Len(@))]
  <2>1. Keeps(b, after)
    BY SenderKeeps
  <2>2. Keeps(b, rest)
    <3>. HIDE DEF after, n
    <3>. QED
      BY <2>1 DEF Keeps, Fields
  <2>3. send_pending_i_frames(c, f) = IF p_bit_outstanding(c) THEN c ELSE rest
    BY DEF send_pending_i_frames
  <2>. HIDE DEF rest
  <2>. QED
    BY <2>2, <2>3
<1>2. Keeps(b, RetransmitUnlessActioned(c, s, f))
  <2>1. Keeps(b, retransmit_i_frames(c, s, f))
    BY SenderKeeps
  <2>2. Keeps(b, [c EXCEPT !.rej_actioned = FALSE])
    BY DEF Keeps, Fields
  <2>. QED
    BY <2>1, <2>2 DEF RetransmitUnlessActioned
<1>3. Keeps(b, data_request(c, s))
  <2>. DEFINE open == c.tx_state = "XMIT" /\ ~c.remote_busy
              n == IF open THEN Min({Room(c), Len(s)}) ELSE 0
              after == send_data(c, SubSeq(s, 1, n), 0)
              dropped == open /\ after.unacked_frames > RemoteTxWindow
              more == [after EXCEPT !.pending_frames =
                                      @ \o SubSeq(s, n + 1, Len(s))]
  <2>1. Keeps(b, after)
    BY SenderKeeps
  <2>2. Keeps(b, more)
    <3>. HIDE DEF after, n
    <3>. QED
      BY <2>1 DEF Keeps, Fields
  <2>3. data_request(c, s) = IF dropped THEN after ELSE more
    BY DEF data_request
  <2>. HIDE DEF after, more, dropped
  <2>. QED
    BY <2>1, <2>2, <2>3
<1>. QED
  BY <1>1, <1>2, <1>3

\* The acknowledgements, and the frames of the receiver.
LEMMA ReceiverKeeps ==
  ASSUME NEW b, NEW c, Keeps(b, c), NEW t, NEW s, NEW p, NEW f
  PROVE  /\ Keeps(b, pass_to_tx(c, s, f))
         /\ Keeps(b, send_s_frame(c, t, s, p, f))
         /\ Keeps(b, send_rr(c, p, f))
         /\ Keeps(b, send_rnr(c, f))
         /\ Keeps(b, send_rr_or_rnr(c, p, f))
         /\ Keeps(b, send_rej(c))
         /\ Keeps(b, RemoteReady(c))
<1>1. Keeps(b, pass_to_tx(c, s, f))
  <2>. DEFINE acked == process_req_seq(c, s)
  <2>1. Keeps(b, acked)
    BY SenderKeeps
  <2>. HIDE DEF acked
  <2>2. Keeps(b, [acked EXCEPT !.monitor_timer = FALSE,
                               !.retrans_timer = @ \/ acked.unacked_frames > 0,
                               !.tx_state = "XMIT"])
    BY <2>1 DEF Keeps, Fields
  <2>. QED
    BY <2>1, <2>2 DEF pass_to_tx, acked
<1>2. \A t1, s1, p1, f1 : Keeps(b, send_s_frame(c, t1, s1, p1, f1))
  BY DEF send_s_frame, Keeps, Fields
<1>3. Keeps(b, send_rnr(c, f))
  <2>. DEFINE frame == send_s_frame(c, "RNR", c.expected_tx_seq, 0, f)
  <2>1. Keeps(b, frame)
    BY <1>2
  <2>. HIDE DEF frame
  <2>2. Keeps(b, [frame EXCEPT !.rnr_sent = TRUE])
    BY <2>1 DEF Keeps, Fields
  <2>. QED
    BY <2>2 DEF send_rnr, frame
<1>4. Keeps(b, RemoteReady(c))
  <2>. DEFINE timed == StartRetransTimerIf(c, c.remote_busy /\ c.unacked_frames > 0)
  <2>1. Keeps(b, timed)
    BY SenderKeeps
  <2>. HIDE DEF timed
  <2>2. Keeps(b, [timed EXCEPT !.remote_busy = FALSE])
    BY <2>1 DEF Keeps, Fields
  <2>. QED
    BY <2>2 DEF RemoteReady, timed
<1>. QED
  BY <1>1, <1>2, <1>3, <1>4 DEF send_rr, send_rr_or_rnr, send_rej

\* The compound answers.
LEMMA AnswersKeep ==
  ASSUME NEW b, NEW c, Keeps(b, c)
  PROVE  Keeps(b, send_ack(c)) /\ Keeps(b, send_i_or_rr_or_rnr(c))
<1>1. Keeps(b, send_ack(c))
  BY ReceiverKeeps, PendingKeeps DEF send_ack
<1>2. Keeps(b, send_i_or_rr_or_rnr(c))
  <2>. DEFINE busy == IF c.local_busy THEN send_rnr(c, 1) ELSE c
              pending == send_pending_i_frames(RemoteReady(busy), 1)
  <2>1. Keeps(b, busy)
    BY ReceiverKeeps
  <2>2. Keeps(b, pending)
    <3>. HIDE DEF busy
    <3>. QED
      BY <2>1, ReceiverKeeps, PendingKeeps
  <2>3. Keeps(b, send_rr(pending, 0, 1))
    <3>. HIDE DEF pending
    <3>. QED
      BY <2>2, ReceiverKeeps
  <2>. QED
    BY <2>2, <2>3 DEF send_i_or_rr_or_rnr
<1>. QED
  BY <1>1, <1>2

-----------------------------------------------------------------------------
(* Reassembly, by a controller that is not busy.                           *)

\* The callback waits only while the device is busy.
Filled(c) ==
  /\ Fields \subseteq DOMAIN c
  /\ c.local_busy \in BOOLEAN /\ c.on_empty \in BOOLEAN
  /\ c.fatal = FALSE
  /\ c.on_empty => c.local_busy

\* An SDU put in the buffer.
LEMMA EnqueueFills ==
  ASSUME NEW c, NotBusy(c), NEW sdu
  PROVE  Filled(Enqueue(c, sdu))
<1>. DEFINE busy == c.enqueue_buffer + 1 = BusyThreshold
            e == Enqueue(c, sdu)
<1>1. /\ DOMAIN e = DOMAIN c
      /\ e.local_busy = (c.local_busy \/ busy)
      /\ e.fatal = (c.fatal \/ (busy /\ c.on_empty))
      /\ e.on_empty = (c.on_empty \/ busy)
  BY DEF Enqueue, NotBusy, Fields
<1>2. c.local_busy = FALSE /\ c.fatal = FALSE /\ c.on_empty = FALSE
  BY DEF NotBusy
<1>3. CASE busy
  BY <1>1, <1>2, <1>3 DEF Filled, NotBusy
<1>4. CASE ~busy
  BY <1>1, <1>2, <1>4 DEF Filled, NotBusy
<1>. QED
  BY <1>3, <1>4

\* A segment taken.
LEMMA StageFills ==
  ASSUME NEW c, NotBusy(c), NEW segment
  PROVE  Filled(data_indication(c, segment))
<1>. DEFINE payload == <<segment.payload>>
            staged == [c EXCEPT !.reassembly_stage = @ \o payload,
                                !.remaining = @ - 1]
            ended == [staged EXCEPT !.sar_state = "END"]
            started == [c EXCEPT !.sar_state = "START", !.reassembly_stage = payload,
                                 !.remaining = segment.size - 1]
            given_up == [c EXCEPT !.sar_state = "END",
                                  !.reassembly_stage = <<>>, !.remaining = 0]
<1>1. Filled(c)
  BY DEF Filled, NotBusy
<1>2. NotBusy(staged)
  BY DEF NotBusy, Fields
<1>3. NotBusy(ended)
  <2>. HIDE DEF staged
  <2>. QED
    BY <1>2 DEF NotBusy, Fields
<1>4. Filled(started) /\ Filled(staged) /\ Filled(CloseChannel(c))
  BY DEF NotBusy, Filled, Fields, CloseChannel
<1>5. NotBusy(given_up)
  BY DEF NotBusy, Fields
<1>6. Filled(CloseChannel(given_up))
  <2>. HIDE DEF given_up
  <2>. QED
    BY <1>5 DEF NotBusy, Filled, Fields, CloseChannel
<1>7. Filled(Enqueue(c, payload)) /\ Filled(Enqueue(ended, staged.reassembly_stage))
  <2>. HIDE DEF ended, staged, payload
  <2>. QED
    BY <1>3, EnqueueFills
<1>8. Filled(stage_for_reassembly(c, segment))
  <2>1. stage_for_reassembly(c, segment) \in
          {CloseChannel(c), Enqueue(c, payload), started, staged,
           Enqueue(ended, staged.reassembly_stage), CloseChannel(given_up)}
    BY DEF stage_for_reassembly
  <2>. HIDE DEF payload, staged, ended, started, given_up
  <2>. QED
    BY <2>1, <1>4, <1>6, <1>7
<1>9. \A e : Filled(e) => Filled([e EXCEPT !.buffer_seq = (@ + 1) % kMaxTxWin])
  BY DEF Filled, Fields
<1>. QED
  BY <1>8, <1>9 DEF data_indication

\* A frame in sequence taken by a device that is not busy.
LEMMA AcceptFills ==
  ASSUME NEW c, NotBusy(c), NEW frame
  PROVE  BusyInv(AcceptIFrame(c, frame))
<1>. DEFINE next == [c EXCEPT !.expected_tx_seq = (@ + 1) % kMaxTxWin]
            passed == pass_to_tx(next, frame.req_seq, frame.f)
            indicated == data_indication(passed, frame.segment)
            cleared == [indicated EXCEPT !.rej_actioned = FALSE]
            resent == send_pending_i_frames(
                        retransmit_i_frames(indicated, frame.req_seq, 0), 0)
            answered == CASE frame.f = 0 -> indicated
                          [] frame.f = 1 /\ indicated.rej_actioned -> cleared
                          [] OTHER -> resent
<1>1. Keeps(c, next)
  BY DEF NotBusy, Keeps, Fields
<1>2. NotBusy(passed)
  <2>. HIDE DEF next
  <2>1. Keeps(c, passed)
    BY <1>1, ReceiverKeeps
  <2>. HIDE DEF passed
  <2>. QED
    BY <2>1 DEF Keeps, NotBusy
<1>3. Filled(indicated)
  <2>. HIDE DEF passed
  <2>. QED
    BY <1>2, StageFills
<1>. HIDE DEF indicated
<1>4. Keeps(indicated, indicated)
  BY <1>3 DEF Filled, Keeps
<1>5. Keeps(indicated, cleared)
  BY <1>3 DEF Filled, Keeps, Fields
<1>6. Keeps(indicated, resent)
  BY <1>4, SenderKeeps, PendingKeeps
<1>7. Keeps(indicated, answered)
  <2>. HIDE DEF cleared, resent
  <2>. QED
    BY <1>4, <1>5, <1>6
<1>. HIDE DEF answered
<1>8. Keeps(indicated, send_ack(answered))
  BY <1>7, AnswersKeep
<1>9. AcceptIFrame(c, frame) = [send_ack(answered) EXCEPT !.rx_state = "RECV"]
  BY DEF AcceptIFrame, answered, indicated
<1>10. \A e : Keeps(indicated, e) => BusyInv([e EXCEPT !.rx_state = "RECV"])
  BY <1>3 DEF Keeps, Filled, BusyInv, Fields
<1>. QED
  BY <1>8, <1>9, <1>10

-----------------------------------------------------------------------------
(* The events.                                                             *)

\* What keeps the four fields keeps the invariant.
LEMMA KeepingIsEnough ==
  ASSUME NEW c, BusyInv(c)
  PROVE  /\ Keeps(c, c)
         /\ \A e : Keeps(c, e) => BusyInv(e)
BY DEF Keeps, BusyInv

\* An information frame: in RECV the code looks at local_busy_, in REJ_SENT it
\* does not have to.
LEMMA IFrameKeepsInv ==
  ASSUME NEW c, BusyInv(c), NEW frame
  PROVE  BusyInv(recv_i_frame(c, frame))
<1>. DEFINE passed == pass_to_tx(c, frame.req_seq, frame.f)
            rejecting == [send_rej(passed) EXCEPT !.rx_state = "REJ_SENT"]
            recv == c.rx_state = "RECV"
<1>1. Keeps(c, passed)
  BY KeepingIsEnough, ReceiverKeeps
<1>2. BusyInv(c) /\ BusyInv(passed) /\ BusyInv(CloseChannel(c))
  <2>. HIDE DEF passed
  <2>. QED
    BY <1>1, KeepingIsEnough, SenderKeeps
<1>3. ASSUME c.local_busy = FALSE
      PROVE  BusyInv(AcceptIFrame(c, frame)) /\ BusyInv(rejecting)
  <2>1. NotBusy(c)
    BY <1>3 DEF BusyInv, NotBusy
  <2>2. BusyInv(AcceptIFrame(c, frame))
    BY <2>1, AcceptFills
  <2>3. Keeps(c, send_rej(passed))
    <3>. HIDE DEF passed
    <3>. QED
      BY <1>1, ReceiverKeeps
  <2>4. \A e : Keeps(c, e) => BusyInv([e EXCEPT !.rx_state = "REJ_SENT"])
    BY <2>1 DEF Keeps, NotBusy, BusyInv, Fields
  <2>. QED
    BY <2>2, <2>3, <2>4
<1>4. c.local_busy \in BOOLEAN /\ (c.local_busy => recv)
  BY DEF BusyInv
<1>5. \/ recv_i_frame(c, frame) \in {c, passed, CloseChannel(c)}
      \/ /\ recv_i_frame(c, frame) \in {AcceptIFrame(c, frame), rejecting}
         /\ c.local_busy = FALSE
  <2>. DEFINE t == frame.tx_seq
              valid == with_valid_req_seq(c, frame.req_seq) /\ with_valid_f_bit(c, frame.f)
              expected == with_expected_tx_seq(c, t)
  <2>1. CASE valid /\ expected /\ (recv => ~c.local_busy)
    <3>1. c.local_busy = FALSE
      BY <2>1, <1>4
    <3>2. recv_i_frame(c, frame) = AcceptIFrame(c, frame) \/
          recv_i_frame(c, frame) \in {c, passed, CloseChannel(c)} \/
          recv_i_frame(c, frame) = rejecting
      BY <2>1 DEF recv_i_frame
    <3>. QED
      BY <3>1, <3>2
  <2>2. CASE ~(valid /\ expected /\ (recv => ~c.local_busy))
    <3>1. CASE c.local_busy
      <4>1. recv_i_frame(c, frame) \in {c, passed, CloseChannel(c)}
        BY <2>2, <3>1, <1>4 DEF recv_i_frame
      <4>. QED
        BY <4>1
    <3>2. CASE ~c.local_busy
      <4>1. recv_i_frame(c, frame) \in {c, passed, CloseChannel(c), rejecting}
        BY <2>2, <3>2, <1>4 DEF recv_i_frame
      <4>. QED
        BY <4>1, <3>2, <1>4
    <3>. QED
      BY <3>1, <3>2
  <2>. QED
    BY <2>1, <2>2
<1>. HIDE DEF passed, rejecting
<1>. QED
  BY <1>2, <1>3, <1>5

\* The supervisory frames keep the four fields.
LEMMA SFramesKeep ==
  ASSUME NEW c, BusyInv(c), NEW frame
  PROVE  /\ Keeps(c, recv_rr(c, frame))
         /\ Keeps(c, recv_rej(c, frame))
         /\ Keeps(c, recv_rnr(c, frame))
<1>. DEFINE r == frame.req_seq
            passed == pass_to_tx(c, r, frame.f)
<1>1. Keeps(c, c) /\ Keeps(c, CloseChannel(c)) /\ Keeps(c, passed)
  BY KeepingIsEnough, ReceiverKeeps, SenderKeeps
<1>2. /\ Keeps(c, [passed EXCEPT !.remote_busy = FALSE])
      /\ Keeps(c, [passed EXCEPT !.remote_busy = TRUE])
  <2>. HIDE DEF passed
  <2>. QED
    BY <1>1 DEF Keeps, Fields
<1>3. Keeps(c, recv_rr(c, frame))
  <2>. DEFINE ready == [passed EXCEPT !.remote_busy = FALSE]
              polled == send_pending_i_frames(
                          RetransmitUnlessActioned(ready, r, frame.p), 0)
  <2>1. /\ Keeps(c, polled)
        /\ Keeps(c, send_pending_i_frames(RemoteReady(passed), 0))
        /\ Keeps(c, send_ack(RemoteReady(passed)))
        /\ Keeps(c, send_i_or_rr_or_rnr(passed))
        /\ Keeps(c, send_rr(RemoteReady(passed), 0, 1))
    <3>. HIDE DEF passed, ready
    <3>1. Keeps(c, ready)
      BY <1>2 DEF ready
    <3>2. Keeps(c, polled)
      BY <3>1, PendingKeeps
    <3>3. Keeps(c, RemoteReady(passed))
      BY <1>1, ReceiverKeeps
    <3>. QED
      BY <1>1, <3>2, <3>3, PendingKeeps, ReceiverKeeps, AnswersKeep
  <2>2. recv_rr(c, frame) \in
          {polled, send_pending_i_frames(RemoteReady(passed), 0),
           send_ack(RemoteReady(passed)), send_i_or_rr_or_rnr(passed),
           send_rr(RemoteReady(passed), 0, 1), c, CloseChannel(c)}
    BY DEF recv_rr
  <2>. HIDE DEF polled, passed
  <2>. QED
    BY <1>1, <2>1, <2>2
<1>4. Keeps(c, recv_rej(c, frame))
  <2>. DEFINE ready == [passed EXCEPT !.remote_busy = FALSE]
              polled == send_pending_i_frames(
                          RetransmitUnlessActioned(ready, r, frame.p), 0)
              actioned == send_pending_i_frames(
                            retransmit_i_frames(ready, r, frame.p), 0)
              marked == [actioned EXCEPT !.rej_actioned =
                                           @ \/ p_bit_outstanding(actioned)]
  <2>1. Keeps(c, polled) /\ Keeps(c, actioned)
    <3>. HIDE DEF ready
    <3>. QED
      BY <1>2, PendingKeeps, SenderKeeps DEF ready
  <2>2. Keeps(c, marked)
    <3>. HIDE DEF actioned
    <3>. QED
      BY <2>1 DEF Keeps, Fields
  <2>3. recv_rej(c, frame) \in {polled, marked, c, CloseChannel(c)}
    BY DEF recv_rej
  <2>. HIDE DEF polled, marked
  <2>. QED
    BY <1>1, <2>1, <2>2, <2>3
<1>5. Keeps(c, recv_rnr(c, frame))
  <2>. DEFINE busy == [passed EXCEPT !.remote_busy = TRUE]
              quiet == [busy EXCEPT !.retrans_timer = FALSE]
  <2>1. Keeps(c, busy)
    BY <1>2
  <2>2. Keeps(c, quiet)
    <3>. HIDE DEF busy
    <3>. QED
      BY <2>1 DEF Keeps, Fields
  <2>3. /\ Keeps(c, send_rr(busy, 0, 1)) /\ Keeps(c, send_rr(busy, 0, 0))
        /\ Keeps(c, send_rr_or_rnr(quiet, 0, 1))
    <3>. HIDE DEF busy, quiet
    <3>. QED
      BY <2>1, <2>2, ReceiverKeeps
  <2>4. recv_rnr(c, frame) \in {quiet, send_rr(busy, 0, 1), send_rr(busy, 0, 0),
                                send_rr_or_rnr(quiet, 0, 1), c, CloseChannel(c)}
    BY DEF recv_rnr
  <2>. HIDE DEF busy, quiet
  <2>. QED
    BY <1>1, <2>2, <2>3, <2>4
<1>. QED
  BY <1>3, <1>4, <1>5

\* The clearing of the busy condition, and the timers.
LEMMA OtherEventsKeepInv ==
  ASSUME NEW c, BusyInv(c)
  PROVE  /\ c.on_empty = FALSE => BusyInv(local_busy_clear(c))
         /\ BusyInv(retrans_timer_expires(c))
         /\ BusyInv(monitor_timer_expires(c))
<1>0. Keeps(c, c) /\ Keeps(c, CloseChannel(c)) /\ (\A e : Keeps(c, e) => BusyInv(e))
  BY KeepingIsEnough, SenderKeeps
<1>1. ASSUME c.on_empty = FALSE
      PROVE  BusyInv(local_busy_clear(c))
  <2>. DEFINE clear == [c EXCEPT !.local_busy = FALSE, !.rnr_sent = FALSE]
              polling == [send_rr(clear, 1, 0) EXCEPT !.retry_count = 1,
                                                      !.retrans_timer = FALSE,
                                                      !.monitor_timer = TRUE]
  <2>1. NotBusy(clear)
    BY <1>1 DEF BusyInv, NotBusy, Fields
  <2>2. BusyInv(clear) /\ Keeps(clear, clear)
    <3>. HIDE DEF clear
    <3>. QED
      BY <2>1 DEF BusyInv, NotBusy, Keeps
  <2>3. BusyInv(polling)
    <3>. HIDE DEF clear
    <3>1. Keeps(clear, send_rr(clear, 1, 0))
      BY <2>2, ReceiverKeeps
    <3>2. \A e : Keeps(clear, e) =>
            Keeps(clear, [e EXCEPT !.retry_count = 1, !.retrans_timer = FALSE,
                                   !.monitor_timer = TRUE])
      BY DEF Keeps, Fields
    <3>. QED
      BY <2>2, <3>1, <3>2, KeepingIsEnough
  <2>4. local_busy_clear(c) \in {polling, clear, c}
    BY DEF local_busy_clear
  <2>. HIDE DEF clear, polling
  <2>. QED
    BY <2>2, <2>3, <2>4
<1>2. BusyInv(retrans_timer_expires(c))
  <2>. DEFINE polling == [send_rr_or_rnr(c, 1, 0) EXCEPT !.retry_count = 1,
                            !.monitor_timer = TRUE, !.tx_state = "WAIT_F"]
  <2>1. Keeps(c, send_rr_or_rnr(c, 1, 0))
    BY <1>0, ReceiverKeeps
  <2>2. \A e : Keeps(c, e) =>
          Keeps(c, [e EXCEPT !.retry_count = 1, !.monitor_timer = TRUE,
                             !.tx_state = "WAIT_F"])
    BY DEF Keeps, Fields
  <2>3. BusyInv(polling)
    BY <1>0, <2>1, <2>2
  <2>. QED
    BY <2>3 DEF retrans_timer_expires
<1>3. BusyInv(monitor_timer_expires(c))
  <2>. DEFINE polling == [send_rr_or_rnr(c, 1, 0) EXCEPT !.retry_count = @ + 1,
                            !.monitor_timer = TRUE]
  <2>1. Keeps(c, send_rr_or_rnr(c, 1, 0))
    BY <1>0, ReceiverKeeps
  <2>2. \A e : Keeps(c, e) =>
          Keeps(c, [e EXCEPT !.retry_count = @ + 1, !.monitor_timer = TRUE])
    BY DEF Keeps, Fields
  <2>3. BusyInv(polling)
    BY <1>0, <2>1, <2>2
  <2>4. monitor_timer_expires(c) \in {polling, c, CloseChannel(c)}
    BY DEF monitor_timer_expires
  <2>. HIDE DEF polling
  <2>. QED
    BY <1>0, <2>3, <2>4
<1>. QED
  BY <1>1, <1>2, <1>3

\* A device that ends up with a good controller keeps the invariant.
LEMMA BecomeKeepsInv ==
  ASSUME NotifyInv, NEW d \in Device, NEW c, BusyInv(c), NEW rest, Become(d, c, rest)
  PROVE  NotifyInv'
<1>. DEFINE e == [c EXCEPT !.out = <<>>, !.indicated = <<>>]
<1>1. BusyInv(e)
  BY DEF BusyInv, Fields
<1>2. controller' = [controller EXCEPT ![d] = e]
  BY DEF Become
<1>. HIDE DEF e
<1>3. DOMAIN controller = Device /\ \A o \in Device : BusyInv(controller[o])
  BY DEF NotifyInv
<1>. QED
  BY <1>1, <1>2, <1>3 DEF NotifyInv

\* The invariant is kept by every step.
LEMMA NotifyStep ==
  ASSUME NotifyInv, [Next]_vars
  PROVE  NotifyInv'
<1>0. \A d \in Device : BusyInv(controller[d])
  BY DEF NotifyInv
<1>1. CASE UNCHANGED vars
  BY <1>1 DEF vars, NotifyInv
<1>2. ASSUME NEW d \in Device, OnSdu(d)
      PROVE  NotifyInv'
  <2>1. PICK s : Become(d, data_request(controller[d], s), link[d])
    BY <1>2 DEF OnSdu
  <2>2. Keeps(controller[d], data_request(controller[d], s))
    BY <1>0, KeepingIsEnough, PendingKeeps
  <2>. QED
    BY <1>0, <2>1, <2>2, KeepingIsEnough, BecomeKeepsInv
<1>3. ASSUME NEW d \in Device, OnPdu(d)
      PROVE  NotifyInv'
  <2>. DEFINE frame == Head(link[d])
  <2>1. Become(d, OnFrame(controller[d], frame), Tail(link[d]))
    BY <1>3 DEF OnPdu
  <2>2. BusyInv(OnFrame(controller[d], frame))
    BY <1>0, IFrameKeepsInv, SFramesKeep, KeepingIsEnough DEF OnFrame
  <2>. QED
    BY <2>1, <2>2, BecomeKeepsInv
<1>4. ASSUME NEW d \in Device, EnqueueCallback(d)
      PROVE  NotifyInv'
  <2>. DEFINE taken == [controller[d] EXCEPT !.enqueue_buffer = @ - 1]
              silent == [taken EXCEPT !.on_empty = FALSE]
              notified == taken.enqueue_buffer = 0 /\ taken.on_empty
  <2>1. Become(d, IF notified THEN local_busy_clear(silent) ELSE taken, link[d])
    BY <1>4 DEF EnqueueCallback
  <2>2. BusyInv(taken)
    BY <1>0 DEF BusyInv, Fields
  <2>3. BusyInv(silent) /\ silent.on_empty = FALSE
    <3>. HIDE DEF taken
    <3>. QED
      BY <2>2 DEF BusyInv, Fields
  <2>. HIDE DEF taken, silent, notified
  <2>4. BusyInv(local_busy_clear(silent))
    BY <2>3, OtherEventsKeepInv
  <2>. QED
    BY <2>1, <2>2, <2>4, BecomeKeepsInv
<1>5. ASSUME NEW d \in Device, RetransTimer(d)
      PROVE  NotifyInv'
  <2>. DEFINE c == [controller[d] EXCEPT !.retrans_timer = FALSE]
  <2>1. Become(d, retrans_timer_expires(c), link[d])
    BY <1>5 DEF RetransTimer
  <2>2. BusyInv(c)
    BY <1>0 DEF BusyInv, Fields
  <2>. HIDE DEF c
  <2>. QED
    BY <2>1, <2>2, OtherEventsKeepInv, BecomeKeepsInv
<1>6. ASSUME NEW d \in Device, MonitorTimer(d)
      PROVE  NotifyInv'
  <2>. DEFINE c == [controller[d] EXCEPT !.monitor_timer = FALSE]
  <2>1. Become(d, monitor_timer_expires(c), link[d])
    BY <1>6 DEF MonitorTimer
  <2>2. BusyInv(c)
    BY <1>0 DEF BusyInv, Fields
  <2>. HIDE DEF c
  <2>. QED
    BY <2>1, <2>2, OtherEventsKeepInv, BecomeKeepsInv
<1>7. ASSUME NEW d \in Device, Lose(d)
      PROVE  NotifyInv'
  BY <1>7 DEF Lose, NotifyInv
<1>. QED
  BY <1>1, <1>2, <1>3, <1>4, <1>5, <1>6, <1>7 DEF Next

\* NotifyOnEmpty is never called while a callback waits (its assertion in
\* os/queue.h), for every window, threshold, load and loss of frames.
THEOREM NotifyOnceHolds == Spec => []NotifyOnce
<1>1. Init => NotifyInv
  <2>1. BusyInv(NewController)
    BY DEF NewController, BusyInv, Fields
  <2>. QED
    BY <2>1 DEF Init, NotifyInv
<1>2. NotifyInv /\ [Next]_vars => NotifyInv'
  BY NotifyStep
<1>3. NotifyInv => NotifyOnce
  BY DEF NotifyInv, NotifyOnce, BusyInv
<1>. QED
  BY <1>1, <1>2, <1>3, PTL DEF Spec
=============================================================================
