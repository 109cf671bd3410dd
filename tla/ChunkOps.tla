------------------------------ MODULE ChunkOps ------------------------------
(***************************************************************************)
(* How a DeviceController assembles a huge chunk (devicecontroller.cpp).   *)
(* The device streams the packages of a chunk over the TX pool, each with  *)
(* the low byte of its index; the central rebuilds the index, stores the   *)
(* package in its slot and notes whether something seems to be missing.    *)
(*                                                                         *)
(* A receiver is a record:                                                 *)
(*   count              hc_transfer_struct.incoming_package_count          *)
(*   vec                m_hc_vec: slot -> payload, None while not received *)
(*   highest, first,    hc_highest_index, first_multi_chunk, last_idx,     *)
(*   last_idx, skipped, skipped, last_received of hc_helper_struct         *)
(*   last_received                                                         *)
(*   missed_cnt         missed_pkg_cnt_to_request                          *)
(*   missed             m_hc_missed: the list is ascending and read from   *)
(*                      its front only, so it is kept as a set             *)
(*   missed_in_request  the slot the next REPLY_MISSED_PACKAGE goes to     *)
(*                                                                         *)
(* Indices are quint16 in the code.  incoming_byte_count is a quint16 too, *)
(* which keeps every index of a chunk far below 2^16, so they are naturals *)
(* here.                                                                   *)
(***************************************************************************)
EXTENDS Integers, FiniteSets

CONSTANTS
    Wrap,     \* values of the index byte (0xFF + 1)
    Window,   \* how far behind the highest index a package may be (100)
    None      \* an empty slot

ASSUME WrapAssumption ==
    /\ Wrap \in Nat \ {0}
    /\ Window \in Nat
    /\ Window < Wrap

IsReceiver(rx, Payload) ==
    /\ rx \in [count : Nat, vec : {rx.vec}, highest : Nat, first : BOOLEAN,
               last_idx : Nat, skipped : BOOLEAN, last_received : BOOLEAN,
               missed_cnt : Nat, missed : SUBSET Nat, missed_in_request : Nat]
    /\ rx.vec \in [0..(rx.count - 1) -> Payload \cup {None}]

\* A receiver before the first chunk.  The code initialises none of these
\* fields; the two that onStartHugeChunkArrived does not set either may hold
\* anything: stale stands for what is found in last_idx, flag in skipped.
NewReceiver(stale, flag) ==
    [count |-> 0, vec |-> [i \in {} |-> None], highest |-> 0, first |-> TRUE,
     last_idx |-> stale, skipped |-> flag, last_received |-> FALSE,
     missed_cnt |-> 0, missed |-> {}, missed_in_request |-> 0]

\* Fault: one slot too many.
StartChunkOneSlotMore(rx, n) ==
    [rx EXCEPT !.count = n,
               !.vec = [i \in 0..n |-> None],
               !.highest = 0,
               !.first = TRUE,
               !.missed_cnt = 0,
               !.last_received = FALSE]

\* Fault: hc_highest_index of the previous chunk is kept.
StartChunkKeepingHighest(rx, n) ==
    [rx EXCEPT !.count = n,
               !.vec = [i \in 0..(n - 1) |-> None],
               !.first = TRUE,
               !.missed_cnt = 0,
               !.last_received = FALSE]

\* Fault: last_received of the previous chunk is kept.
StartChunkKeepingLast(rx, n) ==
    [rx EXCEPT !.count = n,
               !.vec = [i \in 0..(n - 1) |-> None],
               !.highest = 0,
               !.first = TRUE,
               !.missed_cnt = 0]

\* onStartHugeChunkArrived: skipped and last_idx keep their values.
StartChunk(rx, n) ==
    [rx EXCEPT !.count = n,
               !.vec = [i \in 0..(n - 1) |-> None],
               !.highest = 0,
               !.first = TRUE,
               !.missed_cnt = 0,
               !.last_received = FALSE]

\* The least number k >= 1 of turns of the do-while loop after which
\* b + k * Wrap is no longer more than Window behind h.
Turns(b, h) ==
    CHOOSE k \in 1..(h + 1) :
        /\ b + k * Wrap >= h - Window
        /\ \A j \in 1..(k - 1) : b + j * Wrap < h - Window

\* The index given to a package that carries byte b.
IndexOf(rx, b) ==
    IF rx.first /\ b = 0 THEN 0
    ELSE IF b > rx.highest THEN b
    ELSE b + Turns(b, rx.highest) * Wrap

\* The TX pool branch of bleUartRx.
ReceivePackage(rx, b, payload) ==
    LET head     == rx.first /\ b = 0
        t        == IndexOf(rx, b)
        expected == IF head THEN 0 ELSE rx.last_idx
    IN  [rx EXCEPT !.first = @ /\ ~head,
                   !.highest = IF head THEN @ ELSE t,
                   !.vec = IF t < rx.count THEN [@ EXCEPT ![t] = payload] ELSE @,
                   !.last_idx = expected + 1,
                   !.skipped = @ \/ t # expected,
                   !.last_received = @ \/ t + 1 = rx.count]

Holes(rx) == {i \in 0..(rx.count - 1) : rx.vec[i] = None}

\* Fault: the slots are looked through only if the last package is missing.
CheckChunkLastOnly(rx) ==
    IF ~rx.last_received
    THEN [rx EXCEPT !.missed = Holes(rx),
                    !.missed_cnt = @ + Cardinality(Holes(rx)),
                    !.skipped = FALSE]
    ELSE rx

\* onStartHugeChunkAckProcArrived up to its decision: the slots are looked
\* through only if a package seems to have been skipped or the last one has
\* not come.  missed_cnt is added to, not set.
CheckChunk(rx) ==
    IF rx.skipped \/ ~rx.last_received
    THEN [rx EXCEPT !.missed = Holes(rx),
                    !.missed_cnt = @ + Cardinality(Holes(rx)),
                    !.skipped = FALSE]
    ELSE rx

Least(S) == CHOOSE m \in S : \A x \in S : m <= x

\* Fault: the slot of the first request is kept.
NextMissingSameSlot(rx) == [rx EXCEPT !.missed = @ \ {Least(rx.missed)}]

\* sendRequestMissingPackage: the slot of the reply is fixed when the request
\* is made, not when it is written.
NextMissing(rx) ==
    [rx EXCEPT !.missed_in_request = Least(rx.missed),
               !.missed = @ \ {Least(rx.missed)}]

\* The first half of onReplyMissingPackageArrived.
StoreMissing(rx, payload) ==
    [rx EXCEPT !.vec = [@ EXCEPT ![rx.missed_in_request] = payload]]
=============================================================================
